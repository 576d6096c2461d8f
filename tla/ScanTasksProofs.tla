-------------------------- MODULE ScanTasksProofs --------------------------
(***************************************************************************)
(* Proofs about ClientJobRegistry, for arbitrary callers, and about the    *)
(* handlers, tasks and threads that call it, for every set of sessions,    *)
(* job types, subprocesses and upgraders and every capacity.               *)
(*                                                                         *)
(* The registry: whatever the method, one record of _jobs changes in one   *)
(* of nine ways (RecordStep, lemma NextIsRecordStep).  What each way keeps *)
(* is checked on the record alone (RecordStepKeepsRecord and               *)
(* RecordStepShrinks), and the theorems put the records together.          *)
(*                                                                         *)
(* The appliance: every step of ScanTasks is a step of JobRegistry or      *)
(* leaves the registry alone, so what is proved of the registry holds of   *)
(* the composition, with every fault injected.  The last part proves what  *)
(* a task may rely on when its client waits for the previous one.          *)
(***************************************************************************)
EXTENDS ScanTasks, FiniteSetTheorems, TLAPS

-----------------------------------------------------------------------------
(* The registry, called by anybody in any order.                            *)

\* What every record of _jobs satisfies beyond its type: a pause belongs to a
\* running job, an accepted cancellation ends running, and run identities are
\* drawn in order.
RecordOK(j) ==
  /\ PauseConsistent(j)
  /\ j.cancelReq => j.status # "running"

RecordsOK == \A k \in Keys : RecordOK(jobs[k]) /\ jobs[k].run <= runs

\* The strengthening the invariants need: CapacityRespected and FenceExcludesJobs
\* rest on the type of jobs, StoppedIsResumable on RecordsOK.
RegistryInv ==
  /\ TypeOK
  /\ RecordsOK
  /\ CapacityRespected
  /\ FenceExcludesJobs
  /\ StoppedIsResumable

\* The ways one step may change one record.
RecordStep(j, j2) ==
  \/ j2 = j
  \/ j2 = NoJob
  \/ ~Active(j) /\ runs < MaxRuns /\ j2 = FreshJob(runs + 1) /\ runs' = runs + 1
  \/ \E status \in Terminal : j2 = Completed(j, status)
  \/ j.status = "running" /\ j2 = Cancelling(j)
  \/ j2 = LeftPause(j)
  \/ j.status = "running" /\ ~j.cancelReq
       /\ (j2 = Pausing(j) \/ \E mode \in {"process", "checkpoint"} : j2 = PausedIn(j, mode))
  \/ Active(j) /\ j2 = [j EXCEPT !.disconnected = TRUE]

-----------------------------------------------------------------------------
\* The record of an absent key and a fresh record are records.
LEMMA NewRecords ==
  /\ NoJob \in Job /\ RecordOK(NoJob) /\ ~Active(NoJob) /\ NoJob.run = 0
  /\ \A r \in 0..MaxRuns :
       FreshJob(r) \in Job /\ RecordOK(FreshJob(r)) /\ FreshJob(r).run = r
<1>0. 0 \in 0..MaxRuns
  BY RegistryAssumption
<1>1. NoJob \in Job
  BY <1>0 DEF NoJob, Job, Status, Terminal, Modes
<1>2. RecordOK(NoJob) /\ ~Active(NoJob) /\ NoJob.run = 0
  BY DEF NoJob, RecordOK, PauseConsistent, HasPause, Active
<1>3. ASSUME NEW r \in 0..MaxRuns
      PROVE  FreshJob(r) \in Job /\ RecordOK(FreshJob(r)) /\ FreshJob(r).run = r
  <2>1. FreshJob(r) \in Job
    BY DEF FreshJob, NoJob, Job, Status, Terminal, Modes
  <2>2. RecordOK(FreshJob(r)) /\ FreshJob(r).run = r
    BY DEF FreshJob, NoJob, RecordOK, PauseConsistent, HasPause
  <2>. QED
    BY <2>1, <2>2
<1>. QED
  BY <1>1, <1>2, <1>3

\* Every change of a record keeps its type, its consistency and the order of
\* run identities.
LEMMA RecordStepKeepsRecord ==
  ASSUME NEW j \in Job, NEW j2, RecordStep(j, j2), RecordOK(j),
         runs \in 0..MaxRuns, runs' \in {runs, runs + 1}, j.run <= runs
  PROVE  j2 \in Job /\ RecordOK(j2) /\ j2.run <= runs'
<1>0. MaxRuns \in Nat
  BY RegistryAssumption
<1>1. CASE j2 = j
  BY <1>0, <1>1 DEF Job
<1>2. CASE j2 = NoJob
  BY <1>0, <1>2, NewRecords DEF Job
<1>3. CASE runs < MaxRuns /\ j2 = FreshJob(runs + 1) /\ runs' = runs + 1
  <2>1. runs + 1 \in 0..MaxRuns
    BY <1>0, <1>3
  <2>. QED
    BY <1>3, <2>1, NewRecords
<1>4. CASE \E status \in Terminal : j2 = Completed(j, status)
  <2>1. j2 \in Job
    BY <1>4 DEF Job, Completed, LeftPause, Status, Terminal, Modes
  <2>2. RecordOK(j2)
    BY <1>4 DEF Job, RecordOK, PauseConsistent, HasPause, Completed, LeftPause, Terminal
  <2>3. j2.run <= runs'
    BY <1>0, <1>4 DEF Job, Completed, LeftPause
  <2>. QED
    BY <2>1, <2>2, <2>3
<1>5. CASE j2 = Cancelling(j)
  <2>1. j2 \in Job
    BY <1>5 DEF Job, Cancelling, LeftPause, Status, Terminal, Modes
  <2>2. RecordOK(j2)
    BY <1>5 DEF Job, RecordOK, PauseConsistent, HasPause, Cancelling, LeftPause, Terminal
  <2>3. j2.run <= runs'
    BY <1>0, <1>5 DEF Job, Cancelling, LeftPause
  <2>. QED
    BY <2>1, <2>2, <2>3
<1>6. CASE j2 = LeftPause(j)
  <2>1. j2 \in Job
    BY <1>6 DEF Job, LeftPause, Status, Terminal, Modes
  <2>2. RecordOK(j2)
    BY <1>6 DEF Job, RecordOK, PauseConsistent, HasPause, LeftPause, Terminal
  <2>3. j2.run <= runs'
    BY <1>0, <1>6 DEF Job, LeftPause
  <2>. QED
    BY <2>1, <2>2, <2>3
<1>7. CASE j.status = "running" /\ ~j.cancelReq
             /\ (j2 = Pausing(j) \/ \E mode \in {"process", "checkpoint"} : j2 = PausedIn(j, mode))
  <2>1. j2 \in Job
    BY <1>7 DEF Job, Pausing, PausedIn, Status, Terminal, Modes
  <2>2. RecordOK(j2)
    BY <1>7 DEF Job, RecordOK, PauseConsistent, HasPause, Pausing, PausedIn, Terminal
  <2>3. j2.run = j.run
    BY <1>7 DEF Job, Pausing, PausedIn
  <2>4. j2.run <= runs'
    BY <1>0, <2>3 DEF Job
  <2>. QED
    BY <2>1, <2>2, <2>4
<1>8. CASE j2 = [j EXCEPT !.disconnected = TRUE]
  <2>1. j2 \in Job
    BY <1>8 DEF Job
  <2>2. RecordOK(j2)
    BY <1>8 DEF Job, RecordOK, PauseConsistent, HasPause
  <2>3. j2.run <= runs'
    BY <1>0, <1>8 DEF Job
  <2>. QED
    BY <2>1, <2>2, <2>3
<1>. QED
  BY <1>1, <1>2, <1>3, <1>4, <1>5, <1>6, <1>7, <1>8 DEF RecordStep

\* A record that a step leaves active was active, or is fresh and its key idle.
LEMMA RecordStepShrinks ==
  ASSUME NEW j \in Job, NEW j2, RecordStep(j, j2), Active(j2)
  PROVE  Active(j) \/ (runs < MaxRuns /\ j2 = FreshJob(runs + 1) /\ runs' = runs + 1)
<1>1. ~Active(NoJob)
  BY NewRecords
<1>2. ASSUME NEW status \in Terminal
      PROVE  ~Active(Completed(j, status))
  BY DEF Active, Completed, LeftPause, Terminal, Job
<1>3. LeftPause(j).status = j.status
  BY DEF LeftPause, Job
<1>4. j.status = "running" => Active(j)
  BY DEF Active
<1>5. j2 = LeftPause(j) => Active(j)
  BY <1>3 DEF Active
<1>. QED
  BY <1>1, <1>2, <1>4, <1>5 DEF RecordStep

-----------------------------------------------------------------------------
\* Whatever the action, every record of _jobs changes in one of those ways, run
\* identities move up by at most one, and only start() moves them.
LEMMA NextIsRecordStep ==
  ASSUME TypeOK, RecordsOK, [Next]_registryVars
  PROVE  /\ jobs' = [q \in Keys |-> jobs'[q]]
         /\ \A k \in Keys : RecordStep(jobs[k], jobs'[k])
         /\ runs' \in {runs, runs + 1}
         /\ runs' \in 0..MaxRuns
<1> USE DEF TypeOK
<1>1. ASSUME NEW k \in Keys, Start(k)
      PROVE  /\ jobs' = [jobs EXCEPT ![k] = FreshJob(runs + 1)]
             /\ RecordStep(jobs[k], FreshJob(runs + 1))
             /\ runs' = runs + 1 /\ runs' \in 0..MaxRuns
  BY <1>1, RegistryAssumption DEF Start, ActiveKeys, RecordStep
<1>2. ASSUME NEW k \in Keys, NEW status \in Terminal, Complete(k, status)
      PROVE  /\ jobs' = [jobs EXCEPT ![k] = Completed(jobs[k], status)]
             /\ RecordStep(jobs[k], Completed(jobs[k], status))
             /\ runs' = runs
  BY <1>2 DEF Complete, RecordStep
<1>3. ASSUME NEW k \in Keys, NEW seen \in 0..MaxRuns, Cancel(k, seen)
      PROVE  /\ jobs' = [jobs EXCEPT ![k] = Cancelling(jobs[k])]
             /\ RecordStep(jobs[k], Cancelling(jobs[k]))
             /\ runs' = runs
  BY <1>3 DEF Cancel, RecordStep
<1>4. ASSUME NEW k \in Keys, NEW seen \in 0..MaxRuns, PauseProcess(k, seen)
      PROVE  /\ jobs' = [jobs EXCEPT ![k] = PausedIn(jobs[k], "process")]
             /\ RecordStep(jobs[k], PausedIn(jobs[k], "process"))
             /\ runs' = runs
  BY <1>4 DEF PauseProcess, CanPause, RecordStep
<1>5. ASSUME NEW k \in Keys, NEW seen \in 0..MaxRuns, PauseAtCheckpoint(k, seen)
      PROVE  /\ jobs' = [jobs EXCEPT ![k] = Pausing(jobs[k])]
             /\ RecordStep(jobs[k], Pausing(jobs[k]))
             /\ runs' = runs
  BY <1>5 DEF PauseAtCheckpoint, CanPause, RecordStep
<1>6. ASSUME NEW k \in Keys, NEW seen \in 0..MaxRuns, Resume(k, seen)
      PROVE  /\ jobs' = [jobs EXCEPT ![k] = LeftPause(jobs[k])]
             /\ RecordStep(jobs[k], LeftPause(jobs[k]))
             /\ runs' = runs
  BY <1>6 DEF Resume, RecordStep
<1>7. ASSUME NEW k \in Keys, EnterCheckpoint(k)
      PROVE  /\ \/ jobs' = jobs
                \/ /\ jobs' = [jobs EXCEPT ![k] = PausedIn(jobs[k], "checkpoint")]
                   /\ RecordStep(jobs[k], PausedIn(jobs[k], "checkpoint"))
             /\ runs' = runs
  BY <1>7 DEF EnterCheckpoint, ShouldWait, RecordStep
<1>8. ASSUME NEW k \in Keys, NEW p \in Procs, AttachProcess(k, p)
      PROVE  /\ \/ jobs' = jobs
                \/ /\ jobs' = [jobs EXCEPT ![k] = PausedIn(jobs[k], "process")]
                   /\ RecordStep(jobs[k], PausedIn(jobs[k], "process"))
             /\ runs' = runs
  <2>1. StopOnAttach(k, p) => jobs[k].status = "running" /\ ~jobs[k].cancelReq
    BY DEF StopOnAttach, RecordsOK, RecordOK, PauseConsistent, HasPause
  <2>. QED
    BY <1>8, <2>1 DEF AttachProcess, RecordStep
<1>9. ASSUME NEW k \in Keys, ClearIfDisconnected(k)
      PROVE  /\ jobs' = jobs \/ (jobs' = [jobs EXCEPT ![k] = NoJob]
                                   /\ RecordStep(jobs[k], NoJob))
             /\ runs' = runs
  BY <1>9 DEF ClearIfDisconnected, RecordStep
<1>10. ASSUME NEW k \in Keys, ClearProcess(k)
       PROVE  jobs' = jobs /\ runs' = runs
  BY <1>10 DEF ClearProcess
<1>11. CASE ProcessNext
  <2>1. jobs' = jobs /\ runs' = runs
    BY <1>11 DEF ProcessNext, Spawn, Exit, Terminate, Kill, Reap
  <2>. QED
    BY <2>1 DEF RecordStep
<1>12. ASSUME NEW s \in Sids, MarkDisconnected(s)
       PROVE  /\ jobs' = [q \in Keys |-> jobs'[q]]
              /\ \A k \in Keys : RecordStep(jobs[k], jobs'[k])
              /\ runs' = runs
  <2>1. ASSUME NEW k \in Keys
        PROVE  RecordStep(jobs[k], AfterDisconnect(jobs[k]))
    BY DEF AfterDisconnect, RecordStep
  <2>2. ASSUME NEW k \in Keys
        PROVE  jobs'[k] = jobs[k] \/ jobs'[k] = AfterDisconnect(jobs[k])
    BY <1>12 DEF MarkDisconnected
  <2>. QED
    BY <1>12, <2>1, <2>2 DEF MarkDisconnected, RecordStep
<1>13. ASSUME NEW u \in Upgraders, AcquireMaintenance(u) \/ ReleaseMaintenance(u)
       PROVE  jobs' = jobs /\ runs' = runs
  BY <1>13 DEF AcquireMaintenance, ReleaseMaintenance
<1>14. BeginShutdown \/ UNCHANGED registryVars => jobs' = jobs /\ runs' = runs
  BY DEF BeginShutdown, registryVars
<1>15. ASSUME NEW k \in Keys, NEW j2, jobs' = [jobs EXCEPT ![k] = j2],
              RecordStep(jobs[k], j2)
       PROVE  jobs' = [q \in Keys |-> jobs'[q]] /\ \A q \in Keys : RecordStep(jobs[q], jobs'[q])
  BY <1>15 DEF RecordStep
<1>16. jobs' = jobs => jobs' = [q \in Keys |-> jobs'[q]] /\ \A q \in Keys : RecordStep(jobs[q], jobs'[q])
  BY DEF RecordStep
<1>17. CASE JobNext
  BY <1>1, <1>2, <1>3, <1>4, <1>5, <1>6, <1>7, <1>8, <1>9, <1>10, <1>15, <1>16, <1>17
     DEF JobNext
<1>18. CASE ServiceNext
  BY <1>12, <1>13, <1>14, <1>16, <1>18 DEF ServiceNext
<1>. QED
  BY <1>11, <1>14, <1>16, <1>17, <1>18 DEF Next

-----------------------------------------------------------------------------
\* Type correctness of the remaining fields.
LEMMA TypeStep ==
  ASSUME TypeOK, RecordsOK, [Next]_registryVars
  PROVE  TypeOK' /\ RecordsOK'
<1>0. /\ jobs' = [q \in Keys |-> jobs'[q]]
      /\ \A k \in Keys : RecordStep(jobs[k], jobs'[k])
      /\ runs' \in {runs, runs + 1}
      /\ runs' \in 0..MaxRuns
  BY NextIsRecordStep
<1>1. \A k \in Keys : jobs'[k] \in Job /\ RecordOK(jobs'[k]) /\ jobs'[k].run <= runs'
  BY <1>0, RecordStepKeepsRecord DEF TypeOK, RecordsOK
<1>2. jobs' \in [Keys -> Job]
  BY <1>0, <1>1
<1> DEFINE Rest == /\ processes \in [Keys -> Procs \union {NoProc}]
                   /\ stopped \subseteq Keys
                   /\ shuttingDown \in BOOLEAN
                   /\ maintenance \in Upgraders \union {NoUpgrader}
                   /\ os \in [Procs -> OSStates]
                   /\ doomed \subseteq Procs
<1>3. Rest
  BY DEF TypeOK
<1>4. \A p \in Procs : Woken(p) \in [Procs -> OSStates] /\ Frozen(p) \in [Procs -> OSStates]
  BY <1>3 DEF Woken, Frozen, OSStates
<1>5. \A k \in Keys : processes[k] # NoProc => processes[k] \in Procs
  BY <1>3
<1>6. ASSUME NEW p \in Procs, Killed(p)
      PROVE  os' \in [Procs -> OSStates]
  BY <1>3, <1>6 DEF Killed, OSStates
<1>7. ASSUME NEW k \in Keys, WakeAttached(k) \/ LeavePauseSignal(k)
      PROVE  os' \in [Procs -> OSStates]
  BY <1>3, <1>4, <1>5, <1>7 DEF WakeAttached, LeavePauseSignal
<1>8. \A k \in Keys : LeftStopped(k) \subseteq Keys
  BY <1>3 DEF LeftStopped
<1>9. ASSUME JobNext
      PROVE  Rest'
  <2>1. ASSUME NEW k \in Keys, Start(k)
        PROVE  Rest'
    BY <1>3, <2>1 DEF Start
  <2>2. ASSUME NEW k \in Keys, NEW status \in Terminal, Complete(k, status)
        PROVE  Rest'
    BY <1>3, <1>7, <1>8, <2>2 DEF Complete
  <2>3. ASSUME NEW k \in Keys, NEW seen \in 0..MaxRuns, Cancel(k, seen) \/ Resume(k, seen)
        PROVE  Rest'
    BY <1>3, <1>7, <1>8, <2>3 DEF Cancel, Resume
  <2>4. ASSUME NEW k \in Keys, NEW seen \in 0..MaxRuns, PauseProcess(k, seen)
        PROVE  Rest'
    BY <1>3, <1>4, <1>5, <2>4 DEF PauseProcess
  <2>5. ASSUME NEW k \in Keys, NEW seen \in 0..MaxRuns, PauseAtCheckpoint(k, seen)
        PROVE  Rest'
    BY <1>3, <2>5 DEF PauseAtCheckpoint
  <2>6. ASSUME NEW k \in Keys, EnterCheckpoint(k) \/ ClearProcess(k) \/ ClearIfDisconnected(k)
        PROVE  Rest'
    BY <1>3, <2>6 DEF EnterCheckpoint, ClearProcess, ClearIfDisconnected
  <2>7. ASSUME NEW k \in Keys, NEW p \in Procs, AttachProcess(k, p)
        PROVE  Rest'
    BY <1>3, <1>4, <2>7 DEF AttachProcess
  <2>. QED
    BY <1>9, <2>1, <2>2, <2>3, <2>4, <2>5, <2>6, <2>7 DEF JobNext
<1>10. ASSUME ProcessNext
       PROVE  Rest'
  BY <1>3, <1>4, <1>6, <1>10 DEF ProcessNext, Spawn, Exit, Terminate, Kill, Reap, OSStates
<1>11. ASSUME ServiceNext
       PROVE  Rest'
  BY <1>3, <1>11
     DEF ServiceNext, MarkDisconnected, AcquireMaintenance, ReleaseMaintenance,
         BeginShutdown, Tracked
<1>12. UNCHANGED registryVars => Rest'
  BY <1>3 DEF registryVars
<1>13. Rest'
  BY <1>9, <1>10, <1>11, <1>12 DEF Next
<1>. QED
  BY <1>0, <1>1, <1>2, <1>13 DEF TypeOK, RecordsOK

-----------------------------------------------------------------------------
\* Only start() draws a run identity.
LEMMA OnlyStartMovesRuns ==
  ASSUME [Next]_registryVars, runs' # runs
  PROVE  \E k \in Keys : Start(k)
<1>1. CASE JobNext
  BY <1>1 DEF JobNext, Complete, Cancel, PauseProcess, PauseAtCheckpoint, Resume,
              EnterCheckpoint, AttachProcess, ClearProcess, ClearIfDisconnected
<1>2. CASE ~JobNext
  BY <1>2 DEF Next, ProcessNext, Spawn, Exit, Terminate, Kill, Reap, ServiceNext,
              MarkDisconnected, AcquireMaintenance, ReleaseMaintenance,
              BeginShutdown, registryVars
<1>. QED
  BY <1>1, <1>2

\* Apart from an admission, a step only removes keys from the active set.
LEMMA ActiveKeysShrink ==
  ASSUME TypeOK, RecordsOK, [Next]_registryVars, ~\E k \in Keys : Start(k)
  PROVE  ActiveKeys' \subseteq ActiveKeys
<1>1. runs' = runs
  BY OnlyStartMovesRuns
<1>2. runs' # runs + 1
  BY <1>1, RegistryAssumption DEF TypeOK
<1>3. ASSUME NEW k \in Keys, Active(jobs'[k])
      PROVE  Active(jobs[k])
  <2>1. RecordStep(jobs[k], jobs'[k])
    BY NextIsRecordStep
  <2>. QED
    BY <1>2, <1>3, <2>1, RecordStepShrinks DEF TypeOK
<1>. QED
  BY <1>3 DEF ActiveKeys

\* An admission adds its own key to them.
LEMMA StartAddsItsKey ==
  ASSUME TypeOK, NEW k \in Keys, Start(k)
  PROVE  ActiveKeys' \subseteq ActiveKeys \union {k}
<1>1. \A q \in Keys \ {k} : jobs'[q] = jobs[q]
  BY DEF Start, TypeOK
<1>. QED
  BY <1>1 DEF ActiveKeys

\* Admission control survives every step.
LEMMA CapacityStep ==
  ASSUME TypeOK, RecordsOK, CapacityRespected, [Next]_registryVars
  PROVE  CapacityRespected'
<1>1. CASE \E k \in Keys : Start(k)
  <2>1. PICK k \in Keys : Start(k)
    BY <1>1
  <2>2. /\ IsFiniteSet(ActiveKeys \union {k})
        /\ Cardinality(ActiveKeys \union {k}) = Cardinality(ActiveKeys) + 1
    BY <2>1, FS_AddElement DEF Start, CapacityRespected
  <2>3. /\ IsFiniteSet(ActiveKeys')
        /\ Cardinality(ActiveKeys') <= Cardinality(ActiveKeys \union {k})
    BY <2>1, <2>2, StartAddsItsKey, FS_Subset
  <2>4. Cardinality(ActiveKeys) \in Nat /\ Cardinality(ActiveKeys') \in Nat
    BY <2>3, FS_CardinalityType DEF CapacityRespected
  <2>5. Cardinality(ActiveKeys) < MaxActive /\ MaxActive \in Nat
    BY <2>1, RegistryAssumption DEF Start, CapacityFree
  <2>6. Cardinality(ActiveKeys') <= MaxActive
    BY <2>2, <2>3, <2>4, <2>5
  <2>. QED
    BY <2>3, <2>6 DEF CapacityRespected
<1>2. CASE ~\E k \in Keys : Start(k)
  <2>1. /\ IsFiniteSet(ActiveKeys')
        /\ Cardinality(ActiveKeys') <= Cardinality(ActiveKeys)
    BY <1>2, ActiveKeysShrink, FS_Subset DEF CapacityRespected
  <2>2. Cardinality(ActiveKeys) \in Nat /\ Cardinality(ActiveKeys') \in Nat
    BY <2>1, FS_CardinalityType DEF CapacityRespected
  <2>3. Cardinality(ActiveKeys') <= MaxActive
    BY <2>1, <2>2, RegistryAssumption DEF CapacityRespected
  <2>. QED
    BY <2>1, <2>3 DEF CapacityRespected
<1>. QED
  BY <1>1, <1>2

\* A token changes hands only when nothing is active, or goes back.
LEMMA FenceMoves ==
  ASSUME [Next]_registryVars, maintenance' # maintenance
  PROVE  maintenance' = NoUpgrader \/ (ActiveKeys = {} /\ jobs' = jobs)
<1>1. CASE ServiceNext
  BY <1>1 DEF ServiceNext, MarkDisconnected, AcquireMaintenance, ReleaseMaintenance,
              BeginShutdown, Idle
<1>2. CASE ~ServiceNext
  BY <1>2 DEF Next, ProcessNext, Spawn, Exit, Terminate, Kill, Reap, registryVars,
              JobNext, Start, Complete, Cancel, PauseProcess, PauseAtCheckpoint, Resume,
              EnterCheckpoint, AttachProcess, ClearProcess, ClearIfDisconnected
<1>. QED
  BY <1>1, <1>2

\* The maintenance fence survives every step.
LEMMA FenceStep ==
  ASSUME TypeOK, RecordsOK, FenceExcludesJobs, [Next]_registryVars
  PROVE  FenceExcludesJobs'
<1> SUFFICES ASSUME maintenance' # NoUpgrader
             PROVE  ActiveKeys' = {}
  BY DEF FenceExcludesJobs
<1>1. CASE maintenance' = maintenance
  <2>1. ActiveKeys = {}
    BY <1>1 DEF FenceExcludesJobs
  <2>2. ~\E k \in Keys : Start(k)
    BY <1>1 DEF Start, Admitting
  <2>. QED
    BY <2>1, <2>2, ActiveKeysShrink
<1>2. CASE maintenance' # maintenance
  BY <1>2, FenceMoves DEF ActiveKeys
<1>. QED
  BY <1>1, <1>2

-----------------------------------------------------------------------------
\* The stopped set survives every step: whatever takes a key out of its process
\* pause also takes it out of the set, and only attached keys enter it.
LEMMA StoppedStep ==
  ASSUME TypeOK, RecordsOK, StoppedIsResumable, [Next]_registryVars
  PROVE  StoppedIsResumable'
<1> USE DEF TypeOK, StoppedIsResumable
<1>1. \A k \in Keys : k \notin LeftStopped(k)
  BY DEF LeftStopped, HasPause
<1>2. \A k \in Keys : LeftStopped(k) \subseteq stopped
  BY DEF LeftStopped
<1>3. NoProc \notin Procs
  BY RegistryAssumption
<1>4. ASSUME NEW k \in Keys, Start(k) \/ ClearProcess(k) \/ ClearIfDisconnected(k)
      PROVE  StoppedIsResumable'
  BY <1>4 DEF Start, ClearProcess, ClearIfDisconnected
<1>5. ASSUME NEW k \in Keys, NEW status \in Terminal, Complete(k, status)
      PROVE  StoppedIsResumable'
  BY <1>1, <1>2, <1>5 DEF Complete
<1>6. ASSUME NEW k \in Keys, NEW seen \in 0..MaxRuns, Cancel(k, seen) \/ Resume(k, seen)
      PROVE  StoppedIsResumable'
  BY <1>1, <1>2, <1>6 DEF Cancel, Resume
<1>7. ASSUME NEW k \in Keys, NEW seen \in 0..MaxRuns, PauseProcess(k, seen)
      PROVE  StoppedIsResumable'
  BY <1>7 DEF PauseProcess, PausedIn, Job
<1>8. ASSUME NEW k \in Keys, NEW seen \in 0..MaxRuns, PauseAtCheckpoint(k, seen)
      PROVE  StoppedIsResumable'
  BY <1>8 DEF PauseAtCheckpoint, CanPause, HasPause
<1>9. ASSUME NEW k \in Keys, EnterCheckpoint(k)
      PROVE  StoppedIsResumable'
  BY <1>9 DEF EnterCheckpoint
<1>10. ASSUME NEW k \in Keys, NEW p \in Procs, AttachProcess(k, p)
       PROVE  StoppedIsResumable'
  <2>1. processes' = [processes EXCEPT ![k] = p] /\ p # NoProc
    BY <1>3, <1>10 DEF AttachProcess
  <2>2. CASE UNCHANGED <<os, stopped, jobs>>
    BY <2>1, <2>2
  <2>3. CASE stopped' = stopped \union {k} /\ jobs' = [jobs EXCEPT ![k] = PausedIn(@, "process")]
    BY <2>1, <2>3 DEF PausedIn, Job
  <2>. QED
    BY <1>10, <2>2, <2>3 DEF AttachProcess
<1>11. CASE ProcessNext
  BY <1>11 DEF ProcessNext, Spawn, Exit, Terminate, Kill, Reap
<1>12. ASSUME NEW s \in Sids, MarkDisconnected(s)
       PROVE  StoppedIsResumable'
  <2>1. ASSUME NEW k \in stopped
        PROVE  jobs'[k].paused = jobs[k].paused /\ jobs'[k].mode = jobs[k].mode
    <3>1. Active(jobs[k])
      BY DEF RecordsOK, RecordOK, PauseConsistent, HasPause, Active
    <3>2. jobs'[k] = jobs[k] \/ jobs'[k] = [jobs[k] EXCEPT !.disconnected = TRUE]
      BY <1>12, <3>1 DEF MarkDisconnected, AfterDisconnect
    <3>. QED
      BY <3>2 DEF Job
  <2>. QED
    BY <1>12, <2>1 DEF MarkDisconnected
<1>13. ASSUME NEW u \in Upgraders, AcquireMaintenance(u) \/ ReleaseMaintenance(u)
       PROVE  StoppedIsResumable'
  BY <1>13 DEF AcquireMaintenance, ReleaseMaintenance
<1>14. BeginShutdown \/ UNCHANGED registryVars => StoppedIsResumable'
  BY DEF BeginShutdown, registryVars
<1>15. CASE JobNext
  BY <1>4, <1>5, <1>6, <1>7, <1>8, <1>9, <1>10, <1>15 DEF JobNext
<1>16. CASE ServiceNext
  BY <1>12, <1>13, <1>14, <1>16 DEF ServiceNext
<1>. QED
  BY <1>11, <1>14, <1>15, <1>16 DEF Next

-----------------------------------------------------------------------------
\* An empty registry satisfies the invariant.
LEMMA InitInv == Init => RegistryInv
<1> SUFFICES ASSUME Init
             PROVE  RegistryInv
  OBVIOUS
<1>1. TypeOK
  <2>1. 0 \in 0..MaxRuns
    BY RegistryAssumption
  <2>2. jobs \in [Keys -> Job]
    BY NewRecords DEF Init
  <2>3. processes \in [Keys -> Procs \union {NoProc}] /\ os \in [Procs -> OSStates]
    BY DEF Init, OSStates
  <2>. QED
    BY <2>1, <2>2, <2>3 DEF Init, TypeOK
<1>2. RecordsOK
  BY NewRecords DEF Init, RecordsOK
<1>3. ActiveKeys = {}
  BY NewRecords DEF Init, ActiveKeys
<1>4. CapacityRespected
  BY <1>3, FS_EmptySet, RegistryAssumption DEF CapacityRespected
<1>5. FenceExcludesJobs /\ StoppedIsResumable
  BY <1>3 DEF Init, FenceExcludesJobs, StoppedIsResumable
<1>. QED
  BY <1>1, <1>2, <1>4, <1>5 DEF RegistryInv

\* Every method and every event of a subprocess preserves it.
LEMMA NextInv == RegistryInv /\ [Next]_registryVars => RegistryInv'
BY TypeStep, CapacityStep, FenceStep, StoppedStep DEF RegistryInv

\* The invariant of the registry, for any callers, subprocesses and capacity.
THEOREM RegistryInvariant == Spec => []RegistryInv
BY InitInv, NextInv, PTL DEF Spec

\* Type correctness of the registry's fields.
THEOREM TypeCorrect == Spec => []TypeOK
BY RegistryInvariant, PTL DEF RegistryInv

\* Admission control: at most MaxActive running or cancelling jobs, whatever
\* clients, tasks, disconnections and shutdown do.
THEOREM Capacity == Spec => []CapacityRespected
BY RegistryInvariant, PTL DEF RegistryInv

\* No job is active while a maintenance token is out.
THEOREM MaintenanceFence == Spec => []FenceExcludesJobs
BY RegistryInvariant, PTL DEF RegistryInv

\* Pauses belong to running, uncancelled jobs.
THEOREM PauseDiscipline == Spec => []PauseOnlyWhileRunning
<1>1. RegistryInv => PauseOnlyWhileRunning
  BY DEF RegistryInv, RecordsOK, RecordOK, PauseOnlyWhileRunning
<1>. QED
  BY <1>1, RegistryInvariant, PTL

\* A suspended key is paused and its subprocess attached, so resume and cancel
\* find what they must wake.
THEOREM StoppedKeysResumable == Spec => []StoppedIsResumable
BY RegistryInvariant, PTL DEF RegistryInv

-----------------------------------------------------------------------------
\* A cancelled record changes only into one of the same run that is still
\* cancelled and not running, into an absent one, or into one of a later run.
LEMMA CancelStep == RegistryInv /\ [Next]_registryVars => [CancelKept]_registryVars
<1> SUFFICES ASSUME RegistryInv, [Next]_registryVars,
                    NEW k \in Keys, jobs[k].cancelReq, jobs'[k].run = jobs[k].run
             PROVE  \/ jobs'[k].cancelReq /\ jobs'[k].status # "running"
                    \/ jobs'[k] = NoJob
  BY DEF CancelKept
<1>1. /\ RecordStep(jobs[k], jobs'[k])
      /\ jobs[k] \in Job /\ jobs[k].run <= runs /\ runs \in 0..MaxRuns
      /\ jobs[k].status # "running"
  BY NextIsRecordStep DEF RegistryInv, TypeOK, RecordsOK, RecordOK
<1>2. ~(runs < MaxRuns /\ jobs'[k] = FreshJob(runs + 1))
  <2> SUFFICES ASSUME runs < MaxRuns, jobs'[k] = FreshJob(runs + 1)
               PROVE  FALSE
    OBVIOUS
  <2>1. runs + 1 \in 0..MaxRuns
    BY <1>1, RegistryAssumption
  <2>2. jobs'[k].run = runs + 1
    BY <2>1, NewRecords
  <2>. QED
    BY <1>1, <2>2, RegistryAssumption DEF Job
<1>3. ASSUME NEW status \in Terminal, jobs'[k] = Completed(jobs[k], status)
      PROVE  jobs'[k].cancelReq /\ jobs'[k].status # "running"
  BY <1>1, <1>3 DEF Completed, LeftPause, Job, Terminal
<1>4. jobs'[k] = LeftPause(jobs[k]) => jobs'[k].cancelReq /\ jobs'[k].status # "running"
  BY <1>1 DEF LeftPause, Job
<1>5. jobs'[k] = [jobs[k] EXCEPT !.disconnected = TRUE]
        => jobs'[k].cancelReq /\ jobs'[k].status # "running"
  BY <1>1 DEF Job
<1>. QED
  BY <1>1, <1>2, <1>3, <1>4, <1>5 DEF RecordStep

\* Once the shutdown flag is up a step admits nothing and attaches nothing.
LEMMA ShutdownStep == RegistryInv /\ [Next]_registryVars => [NothingGained]_registryVars
<1> SUFFICES ASSUME RegistryInv, [Next]_registryVars, shuttingDown
             PROVE  /\ shuttingDown'
                    /\ ActiveKeys' \subseteq ActiveKeys
                    /\ \A k \in Keys : processes'[k] \in {processes[k], NoProc}
  BY DEF NothingGained
<1> USE DEF RegistryInv, TypeOK
<1>1. ActiveKeys' \subseteq ActiveKeys
  BY ActiveKeysShrink DEF Start, Admitting
<1>2. CASE JobNext
  <2>1. shuttingDown'
    BY <1>2 DEF JobNext, Start, Complete, Cancel, PauseProcess, PauseAtCheckpoint,
                Resume, EnterCheckpoint, AttachProcess, ClearProcess, ClearIfDisconnected
  <2>2. \A k \in Keys : processes'[k] \in {processes[k], NoProc}
    BY <1>2 DEF JobNext, Start, Complete, Cancel, PauseProcess, PauseAtCheckpoint,
                Resume, EnterCheckpoint, AttachProcess, ClearProcess, ClearIfDisconnected
  <2>. QED
    BY <1>1, <2>1, <2>2
<1>3. CASE ~JobNext
  BY <1>1, <1>3
     DEF Next, ProcessNext, Spawn, Exit, Terminate, Kill, Reap, ServiceNext,
         MarkDisconnected, AcquireMaintenance, ReleaseMaintenance, BeginShutdown,
         registryVars
<1>. QED
  BY <1>2, <1>3

\* An accepted cancellation is never withdrawn, for any interleaving of callers.
THEOREM CancelSticky == Spec => CancelIsSticky
<1>1. Spec => []RegistryInv
  BY RegistryInvariant
<1>2. RegistryInv /\ [Next]_registryVars => [CancelKept]_registryVars
  BY CancelStep
<1>. QED
  BY <1>1, <1>2, PTL DEF Spec, CancelIsSticky

\* Shutdown is final: what terminate_all collected is all there will ever be.
THEOREM ShutdownFinal == Spec => ShutdownIsFinal
<1>1. Spec => []RegistryInv
  BY RegistryInvariant
<1>2. RegistryInv /\ [Next]_registryVars => [NothingGained]_registryVars
  BY ShutdownStep
<1>. QED
  BY <1>1, <1>2, PTL DEF Spec, ShutdownIsFinal

-----------------------------------------------------------------------------
(* The threads of the appliance.                                            *)

\* What the program counter of a task promises the calls it makes next: a key
\* to name, a subprocess to signal, a terminal status to report.
TaskOK(t) ==
  /\ t.pc # "none" => t.key \in Keys
  /\ t.pc \in {"attach", "command", "killing"} => t.proc \in Procs
  /\ t.pc \in {"verdict", "reverdict", "finalverdict"} => t.outcome \in Terminal

TasksOK == task \in [Runs -> Task] /\ \A r \in Runs : TaskOK(task[r])

ClientsOK == /\ gone \subseteq Sids
             /\ exited \in BOOLEAN

TasksInv == RegistryInv /\ TasksOK /\ ClientsOK

-----------------------------------------------------------------------------
\* Replacing one task by a sound one keeps them all sound.
LEMMA ReplaceTask ==
  ASSUME TasksOK, NEW r \in Runs, NEW t \in Task, TaskOK(t),
         task' = [task EXCEPT ![r] = t]
  PROVE  TasksOK'
BY DEF TasksOK

\* Moving a task that was admitted: the new program counter must be backed by
\* what the task already holds.
LEMMA GotoKeepsTasks ==
  ASSUME TasksOK, NEW r \in Runs, NEW pc \in PCs, Goto(r, pc), task[r].pc # "none",
         pc \in {"attach", "command", "killing"} => task[r].proc \in Procs,
         pc \in {"verdict", "reverdict", "finalverdict"} => task[r].outcome \in Terminal
  PROVE  TasksOK'
<1> DEFINE t == [task[r] EXCEPT !.pc = pc]
<1>1. task' = [task EXCEPT ![r] = t]
  BY DEF Goto, TasksOK
<1>2. t \in Task
  BY DEF TasksOK, Task
<1>3. TaskOK(t)
  BY DEF TasksOK, Task, TaskOK
<1>. QED
  BY <1>1, <1>2, <1>3, ReplaceTask

\* The same for a move that also sets the outcome.
LEMMA GotoWithKeepsTasks ==
  ASSUME TasksOK, NEW r \in Runs, NEW pc \in PCs, NEW outcome \in Outcomes,
         GotoWith(r, pc, outcome), task[r].pc # "none",
         pc \in {"attach", "command", "killing"} => task[r].proc \in Procs,
         pc \in {"verdict", "reverdict", "finalverdict"} => outcome \in Terminal
  PROVE  TasksOK'
<1> DEFINE t == [task[r] EXCEPT !.pc = pc, !.outcome = outcome]
<1>1. task' = [task EXCEPT ![r] = t]
  BY DEF GotoWith, TasksOK
<1>2. t \in Task
  BY DEF TasksOK, Task
<1>3. TaskOK(t)
  BY DEF TasksOK, Task, TaskOK
<1>. QED
  BY <1>1, <1>2, <1>3, ReplaceTask

\* For a move that replaces program counter, phase, subprocess and outcome.
Moves(r, pc, phase, outcome, proc) ==
  task' = [task EXCEPT ![r].pc = pc, ![r].phase = phase,
                       ![r].outcome = outcome, ![r].proc = proc]

LEMMA MoveKeepsTasks ==
  ASSUME TasksOK, NEW r \in Runs, NEW pc \in PCs, NEW phase \in Phases,
         NEW proc \in Procs \union {NoProc}, NEW outcome \in Outcomes,
         Moves(r, pc, phase, outcome, proc),
         task[r].pc # "none",
         pc \in {"attach", "command", "killing"} => proc \in Procs,
         pc \in {"verdict", "reverdict", "finalverdict"} => outcome \in Terminal
  PROVE  TasksOK'
<1> DEFINE t == [task[r] EXCEPT !.pc = pc, !.phase = phase,
                                !.outcome = outcome, !.proc = proc]
<1>1. task' = [task EXCEPT ![r] = t]
  BY DEF TasksOK, Moves
<1>2. t \in Task
  BY DEF TasksOK, Task
<1>3. TaskOK(t)
  BY DEF TasksOK, Task, TaskOK
<1>. QED
  BY <1>1, <1>2, <1>3, ReplaceTask

-----------------------------------------------------------------------------
\* A call of a registry method, or an event of a subprocess, is a registry step.
LEMMA CallIsStep ==
  /\ \A k \in Keys :
       /\ Start(k) => Next
       /\ \A status \in Terminal : Complete(k, status) => Next
       /\ \A seen \in 0..MaxRuns :
            Cancel(k, seen) \/ PauseProcess(k, seen) \/ PauseAtCheckpoint(k, seen)
              \/ Resume(k, seen) => Next
       /\ EnterCheckpoint(k) \/ ClearProcess(k) \/ ClearIfDisconnected(k) => Next
       /\ \A p \in Procs : AttachProcess(k, p) => Next
  /\ \A p \in Procs : Spawn(p) \/ Exit(p) \/ Terminate(p) \/ Kill(p) \/ Reap(p) => Next
BY DEF Next, JobNext, ProcessNext

LEMMA TaskStepIsCall ==
  ASSUME TasksOK, NEW r \in Runs, TaskStep(r)
  PROVE  [Next]_registryVars
<1>0. /\ task[r].pc # "none" => KeyOf(r) \in Keys
      /\ task[r].pc \in {"attach", "command", "killing"} => task[r].proc \in Procs
      /\ task[r].pc \in {"verdict", "reverdict", "finalverdict"}
           => task[r].outcome \in Terminal
  BY DEF TasksOK, TaskOK, KeyOf
<1>1. CASE \/ OpenSlot(r) \/ Schedule(r) \/ ScanBegins(r) \/ LeaveCheckpoint(r)
           \/ StartCommandFails(r) \/ AttachRefused(r) \/ CommandEnds(r)
           \/ ReportProceeds(r) \/ ReportPreambleCrashes(r) \/ PdfBody(r)
           \/ PostCompletionFails(r) \/ Finalize(r)
  BY <1>1 DEF OpenSlot, Schedule, ScanBegins, LeaveCheckpoint, StartCommandFails,
              AttachRefused, CommandEnds, ReportProceeds, ReportPreambleCrashes,
              PdfBody, PostCompletionFails, Finalize, registryUnchanged
<1>2. CASE ScheduleFails(r) \/ ScanInitFails(r) \/ ReportRejected(r)
  <2>1. KeyOf(r) \in Keys /\ "failed" \in Terminal
    BY <1>0, <1>2 DEF ScheduleFails, ScanInitFails, ReportRejected, At, Terminal
  <2>. QED
    BY <1>2, <2>1, CallIsStep
       DEF ScheduleFails, ScanInitFails, ReportRejected, registryUnchanged
<1>3. CASE Checkpoint(r) \/ ClearCommand(r) \/ Teardown(r) \/ LateClear(r)
  <2>1. KeyOf(r) \in Keys
    BY <1>0, <1>3 DEF Checkpoint, ClearCommand, Teardown, LateClear, At
  <2>. QED
    BY <1>3, <2>1, CallIsStep
       DEF Checkpoint, ClearCommand, Teardown, LateClear, registryUnchanged
<1>4. CASE StartCommand(r)
  BY <1>4, CallIsStep DEF StartCommand
<1>5. CASE Attach(r)
  BY <1>0, <1>5, CallIsStep DEF Attach, At
<1>6. CASE TickCancelled(r) \/ TickTimesOut(r) \/ KillCommand(r)
  BY <1>0, <1>6, CallIsStep DEF TickCancelled, TickTimesOut, KillCommand, At
<1>7. CASE Verdict(r) \/ FinalVerdict(r)
  BY <1>0, <1>7, CallIsStep DEF Verdict, FinalVerdict, At
<1>. QED
  BY <1>1, <1>2, <1>3, <1>4, <1>5, <1>6, <1>7 DEF TaskStep

\* Every step of the appliance uses the registry through its methods.
LEMMA TasksStepIsCall ==
  ASSUME TasksOK, [TasksNext]_vars
  PROVE  [Next]_registryVars
<1>1. ASSUME NEW s \in Sids, NEW kind \in Kinds, Admit(s, kind)
      PROVE  Next
  <2>1. <<s, TypeOf(kind)>> \in Keys
    BY TasksAssumption DEF Keys, TypeOf
  <2>. QED
    BY <1>1, <2>1, CallIsStep DEF Admit
<1>2. ASSUME NEW s \in Sids, Disconnect(s)
      PROVE  Next
  BY <1>2 DEF Disconnect, Next, ServiceNext
<1>3. ASSUME NEW k \in Keys, ClientStep(k)
      PROVE  [Next]_registryVars
  BY <1>3, CallIsStep
     DEF ClientStep, ClientCancels, ClientPausesProcess, ClientPausesCheckpoint,
         ClientResumes, registryUnchanged
<1>4. ASSUME NEW u \in Upgraders, FenceUp(u) \/ FenceDown(u)
      PROVE  Next
  BY <1>4 DEF FenceUp, FenceDown, Next, ServiceNext
<1>5. ASSUME NEW p \in Procs, ProcessExits(p) \/ ReapProcess(p)
      PROVE  Next
  BY <1>5, CallIsStep DEF ProcessExits, ReapProcess
<1>6. Shutdown \/ ServiceExits => [Next]_registryVars
  BY DEF Shutdown, ServiceExits, Next, ServiceNext, registryUnchanged
<1>7. UNCHANGED vars => UNCHANGED registryVars
  BY DEF vars, registryVars
<1>. QED
  BY <1>1, <1>2, <1>3, <1>4, <1>5, <1>6, <1>7, TaskStepIsCall DEF TasksNext

-----------------------------------------------------------------------------
\* The steps of a command and of a checkpoint keep the tasks sound.
LEMMA CommandKeepsTasks ==
  ASSUME TasksOK, NEW r \in Runs,
         \/ Checkpoint(r) \/ LeaveCheckpoint(r)
         \/ StartCommand(r) \/ StartCommandFails(r)
         \/ Attach(r) \/ AttachRefused(r)
         \/ CommandEnds(r) \/ TickCancelled(r) \/ TickTimesOut(r)
         \/ KillCommand(r) \/ ClearCommand(r)
  PROVE  TasksOK'
<1>0. /\ task[r] \in Task
      /\ task[r].pc \in {"attach", "command", "killing"} => task[r].proc \in Procs
  BY DEF TasksOK, TaskOK
<1> USE DEF At, PCs, Phases, Outcomes, Terminal
<1>1. CASE Checkpoint(r)
  <2>1. CASE GotoWith(r, "verdict", "cancelled")
    BY <1>1, <2>1, GotoWithKeepsTasks DEF Checkpoint
  <2>2. CASE Goto(r, "parked")
    BY <1>1, <2>2, GotoKeepsTasks DEF Checkpoint
  <2>. QED
    BY <1>1, <2>1, <2>2 DEF Checkpoint
<1>2. CASE LeaveCheckpoint(r)
  <2>1. CASE GotoWith(r, "verdict", "cancelled")
    BY <1>2, <2>1, GotoWithKeepsTasks DEF LeaveCheckpoint
  <2>2. ASSUME NEW pc \in {"check", "spawn", "finalize"}, Goto(r, pc)
        PROVE  TasksOK'
    BY <1>2, <2>2, GotoKeepsTasks DEF LeaveCheckpoint
  <2>. QED
    BY <1>2, <2>1, <2>2 DEF LeaveCheckpoint, AfterCheck
<1>3. CASE StartCommand(r)
  <2>1. PICK p \in Procs : task' = [task EXCEPT ![r].pc = "attach", ![r].proc = p]
    BY <1>3 DEF StartCommand
  <2>2. Moves(r, "attach", task[r].phase, task[r].outcome, p)
    BY <1>0, <2>1 DEF TasksOK, Task, Moves
  <2>3. task[r].phase \in Phases /\ task[r].outcome \in Outcomes
    BY <1>0 DEF Task
  <2>4. task[r].pc # "none" /\ "attach" \in PCs
    BY <1>3 DEF StartCommand
  <2>5. "attach" \notin {"verdict", "reverdict", "finalverdict"}
    OBVIOUS
  <2> HIDE DEF At, PCs, Phases, Outcomes, Terminal
  <2>. QED
    BY <2>2, <2>3, <2>4, <2>5, MoveKeepsTasks
<1>4. CASE StartCommandFails(r)
  <2>1. CASE GotoWith(r, "verdict", "failed")
    BY <1>4, <2>1, GotoWithKeepsTasks DEF StartCommandFails
  <2>2. ASSUME NEW pc \in {"check", "finalize"},
               task' = [task EXCEPT ![r].pc = pc, ![r].phase = "hosts"]
        PROVE  TasksOK'
    <3>1. Moves(r, pc, "hosts", task[r].outcome, task[r].proc)
      BY <1>0, <2>2 DEF TasksOK, Task, Moves
    <3>2. /\ task[r].outcome \in Outcomes /\ task[r].proc \in Procs \union {NoProc}
          /\ pc \in PCs /\ "hosts" \in Phases
      BY <1>0, <2>2 DEF Task
    <3>3. task[r].pc # "none"
      BY <1>4 DEF StartCommandFails
    <3>4. pc \notin {"attach", "command", "killing"}
          /\ pc \notin {"verdict", "reverdict", "finalverdict"}
      BY <2>2
    <3> HIDE DEF At, PCs, Phases, Outcomes, Terminal
    <3>. QED
      BY <3>1, <3>2, <3>3, <3>4, MoveKeepsTasks
  <2>. QED
    BY <1>4, <2>1, <2>2 DEF StartCommandFails
<1>5. CASE Attach(r)
  BY <1>0, <1>5, GotoKeepsTasks DEF Attach
<1>6. CASE AttachRefused(r)
  BY <1>0, <1>6, GotoWithKeepsTasks DEF AttachRefused
<1>7. CASE CommandEnds(r)
  BY <1>7, GotoWithKeepsTasks DEF CommandEnds
<1>8. CASE TickCancelled(r)
  BY <1>0, <1>8, GotoWithKeepsTasks DEF TickCancelled
<1>9. CASE TickTimesOut(r)
  BY <1>0, <1>9, GotoWithKeepsTasks DEF TickTimesOut
<1>10. CASE KillCommand(r)
  BY <1>10, GotoKeepsTasks DEF KillCommand
<1>11. CASE ClearCommand(r)
  <2>1. PICK next \in AfterCommand(r) :
          Moves(r, next[1], next[2], next[3], NoProc)
    BY <1>11 DEF ClearCommand, Moves
  <2>2. next[1] \in {"check", "finalize", "verdict", "spawn"}
        /\ next[2] \in Phases /\ next[3] \in Outcomes
        /\ (next[1] = "verdict" => next[3] \in Terminal)
    BY <2>1 DEF AfterCommand, AfterScanCommand, AfterReportCommand, ReportStopped
  <2>3. PICK pc \in {"check", "finalize", "verdict", "spawn"}, phase \in Phases,
             outcome \in Outcomes :
          Moves(r, pc, phase, outcome, NoProc) /\ (pc = "verdict" => outcome \in Terminal)
    BY <2>1, <2>2
  <2>4. task[r].pc # "none"
    BY <1>11 DEF ClearCommand
  <2>5. /\ pc \in PCs /\ pc \notin {"attach", "command", "killing"}
        /\ pc \in {"verdict", "reverdict", "finalverdict"} => pc = "verdict"
    OBVIOUS
  <2>6. NoProc \in Procs \union {NoProc}
    OBVIOUS
  <2>7. pc \in {"verdict", "reverdict", "finalverdict"} => outcome \in Terminal
    BY <2>3, <2>5
  <2>8. Moves(r, pc, phase, outcome, NoProc)
    BY <2>3
  <2> HIDE DEF At, PCs, Phases, Outcomes, Terminal
  <2>. QED
    BY <2>4, <2>5, <2>6, <2>7, <2>8, MoveKeepsTasks
<1>. QED
  BY <1>1, <1>2, <1>3, <1>4, <1>5, <1>6, <1>7, <1>8, <1>9, <1>10, <1>11

\* So do admission, scheduling, preambles, verdicts and teardown.
LEMMA BracketKeepsTasks ==
  ASSUME TasksOK, NEW r \in Runs,
         \/ OpenSlot(r) \/ Schedule(r) \/ ScheduleFails(r)
         \/ ScanBegins(r) \/ ScanInitFails(r)
         \/ ReportProceeds(r) \/ ReportRejected(r) \/ ReportPreambleCrashes(r)
         \/ PdfBody(r)
         \/ Verdict(r) \/ PostCompletionFails(r)
         \/ Finalize(r) \/ FinalVerdict(r) \/ Teardown(r)
         \/ LateClear(r)
  PROVE  TasksOK'
<1>0. task[r] \in Task
  BY DEF TasksOK
<1> USE DEF At, PCs, Phases, Outcomes, Terminal
<1>1. CASE OpenSlot(r)
  <2>1. PICK pc \in {"dead", "pdfbody", "scheduling"} : Goto(r, pc)
    BY <1>1 DEF OpenSlot
  <2>. QED
    BY <1>1, <2>1, GotoKeepsTasks DEF OpenSlot
<1>2. CASE Schedule(r)
  BY <1>2, GotoKeepsTasks DEF Schedule
<1>3. CASE ScheduleFails(r)
  <2>1. PICK pc \in {"done", "dead"} : Goto(r, pc)
    BY <1>3 DEF ScheduleFails
  <2>. QED
    BY <1>3, <2>1, GotoKeepsTasks DEF ScheduleFails
<1>4. ASSUME NEW pc \in {"check", "spawn"}, NEW phase \in {"discovery", "chunks"},
             At(r, "preamble"),
             task' = [task EXCEPT ![r].pc = pc, ![r].phase = phase]
      PROVE  TasksOK'
  <2>1. Moves(r, pc, phase, task[r].outcome, task[r].proc)
    BY <1>0, <1>4 DEF TasksOK, Task, Moves
  <2>2. task[r].outcome \in Outcomes /\ task[r].proc \in Procs \union {NoProc}
    BY <1>0 DEF Task
  <2>3. pc \in PCs /\ phase \in Phases /\ task[r].pc # "none"
    BY <1>4
  <2>4. /\ pc \notin {"attach", "command", "killing"}
        /\ pc \notin {"verdict", "reverdict", "finalverdict"}
    BY <1>4
  <2> HIDE DEF At, PCs, Phases, Outcomes, Terminal
  <2>. QED
    BY <2>1, <2>2, <2>3, <2>4, MoveKeepsTasks
<1>5. CASE ScanBegins(r) \/ ReportProceeds(r)
  BY <1>4, <1>5 DEF ScanBegins, ReportProceeds
<1>6. CASE ScanInitFails(r)
  BY <1>6, GotoKeepsTasks DEF ScanInitFails
<1>7. CASE ReportRejected(r)
  BY <1>7, GotoKeepsTasks DEF ReportRejected
<1>8. CASE ReportPreambleCrashes(r)
  BY <1>8, GotoKeepsTasks DEF ReportPreambleCrashes
<1>9. CASE PdfBody(r)
  <2>1. PICK outcome \in {"completed", "failed"} : GotoWith(r, "verdict", outcome)
    BY <1>9 DEF PdfBody
  <2>. QED
    BY <1>9, <2>1, GotoWithKeepsTasks DEF PdfBody
<1>10. CASE Verdict(r)
  BY <1>10, GotoKeepsTasks DEF Verdict
<1>11. CASE PostCompletionFails(r)
  BY <1>11, GotoWithKeepsTasks DEF PostCompletionFails
<1>12. CASE Finalize(r)
  <2>1. CASE GotoWith(r, "teardown", "none")
    BY <1>12, <2>1, GotoWithKeepsTasks DEF Finalize
  <2>2. ASSUME NEW outcome \in {"cancelled", "completed"},
               GotoWith(r, "finalverdict", outcome)
        PROVE  TasksOK'
    BY <1>12, <2>2, GotoWithKeepsTasks DEF Finalize
  <2>3. FinalizeVerdict(r) \in {"none", "cancelled", "completed"}
    BY DEF FinalizeVerdict
  <2>. QED
    BY <1>12, <2>1, <2>2, <2>3 DEF Finalize
<1>13. CASE FinalVerdict(r)
  BY <1>13, GotoKeepsTasks DEF FinalVerdict
<1>14. CASE Teardown(r)
  BY <1>14, GotoKeepsTasks DEF Teardown
<1>15. CASE LateClear(r)
  BY <1>15, GotoKeepsTasks DEF LateClear
<1>. QED
  BY <1>1, <1>2, <1>3, <1>5, <1>6, <1>7, <1>8, <1>9, <1>10, <1>11, <1>12, <1>13,
     <1>14, <1>15

-----------------------------------------------------------------------------
\* An admission hands the new task a key and nothing else.
LEMMA AdmitKeepsTasks ==
  ASSUME TasksOK, runs \in 0..MaxRuns, NEW s \in Sids, NEW kind \in Kinds, Admit(s, kind)
  PROVE  TasksOK'
<1> DEFINE k == <<s, TypeOf(kind)>>
           t == [NoTask EXCEPT !.kind = kind, !.key = k, !.pc = "opening"]
<1>1. k \in Keys
  BY TasksAssumption DEF Keys, TypeOf
<1>2. runs + 1 \in Runs /\ task' = [task EXCEPT ![runs + 1] = t]
  BY RegistryAssumption DEF Admit, Start, Runs
<1>3. t \in Task /\ TaskOK(t)
  BY <1>1 DEF NoTask, Task, TaskOK, PCs, Phases, Outcomes
<1>. QED
  BY <1>2, <1>3, ReplaceTask

\* Whatever moves, moves one task or none.
LEMMA TasksKept == TasksInv /\ [TasksNext]_vars => TasksOK'
<1> SUFFICES ASSUME TasksInv, [TasksNext]_vars
             PROVE  TasksOK'
  OBVIOUS
<1>1. ASSUME NEW s \in Sids, NEW kind \in Kinds, Admit(s, kind)
      PROVE  TasksOK'
  BY <1>1, AdmitKeepsTasks DEF TasksInv, RegistryInv, TypeOK
<1>2. ASSUME NEW r \in Runs, TaskStep(r)
      PROVE  TasksOK'
  BY <1>2, CommandKeepsTasks, BracketKeepsTasks DEF TaskStep, TasksInv
<1>3. ASSUME UNCHANGED task
      PROVE  TasksOK'
  BY <1>3 DEF TasksInv, TasksOK
<1>4. ASSUME NEW k \in Keys, ClientStep(k)
      PROVE  UNCHANGED task
  BY <1>4 DEF ClientStep, ClientCancels, ClientPausesProcess, ClientPausesCheckpoint,
              ClientResumes
<1>. QED
  BY <1>1, <1>2, <1>3, <1>4
     DEF TasksNext, Disconnect, FenceUp, FenceDown, ProcessExits, ReapProcess, Shutdown,
         ServiceExits, vars

\* Only a disconnect and the end of the process move what belongs to no task.
LEMMA ClientsKept == TasksInv /\ [TasksNext]_vars => ClientsOK'
<1> SUFFICES ASSUME TasksInv, [TasksNext]_vars
             PROVE  ClientsOK'
  OBVIOUS
<1> USE DEF TasksInv, ClientsOK
<1>1. ASSUME othersUnchanged
      PROVE  ClientsOK'
  BY <1>1 DEF othersUnchanged
<1>2. ASSUME NEW r \in Runs, TaskStep(r)
      PROVE  othersUnchanged
  BY <1>2
     DEF TaskStep, OpenSlot, Schedule, ScheduleFails, ScanBegins, ScanInitFails,
         Checkpoint, LeaveCheckpoint, StartCommand, StartCommandFails, Attach,
         AttachRefused, CommandEnds, TickCancelled, TickTimesOut, KillCommand,
         ClearCommand, ReportProceeds, ReportRejected, ReportPreambleCrashes, PdfBody,
         Verdict, PostCompletionFails, Finalize, FinalVerdict, Teardown, LateClear
<1>3. ASSUME NEW k \in Keys, ClientStep(k)
      PROVE  othersUnchanged
  BY <1>3 DEF ClientStep, ClientCancels, ClientPausesProcess, ClientPausesCheckpoint,
              ClientResumes
<1>4. ASSUME NEW s \in Sids, Disconnect(s)
      PROVE  ClientsOK'
  BY <1>4 DEF Disconnect
<1>5. ServiceExits => ClientsOK'
  BY DEF ServiceExits
<1>6. UNCHANGED vars => othersUnchanged
  BY DEF vars, othersUnchanged
<1>. QED
  BY <1>1, <1>2, <1>3, <1>4, <1>5, <1>6
     DEF TasksNext, Admit, FenceUp, FenceDown, ProcessExits, ReapProcess, Shutdown

-----------------------------------------------------------------------------
LEMMA TasksInitInv == TasksInit => TasksInv
<1> SUFFICES ASSUME TasksInit
             PROVE  TasksInv
  OBVIOUS
<1>1. RegistryInv
  BY InitInv DEF TasksInit
<1>2. TasksOK
  <2>1. NoTask \in Task /\ TaskOK(NoTask)
    BY DEF NoTask, Task, TaskOK, PCs, Phases, Outcomes
  <2>. QED
    BY <2>1 DEF TasksInit, TasksOK
<1>3. ClientsOK
  BY DEF TasksInit, ClientsOK
<1>. QED
  BY <1>1, <1>2, <1>3 DEF TasksInv

LEMMA TasksNextInv == TasksInv /\ [TasksNext]_vars => TasksInv'
<1>1. TasksInv /\ [TasksNext]_vars => [Next]_registryVars
  BY TasksStepIsCall DEF TasksInv
<1>. QED
  BY <1>1, NextInv, TasksKept, ClientsKept DEF TasksInv

\* The inductive invariant of the composition.
THEOREM TasksInvariant == TasksSpec => []TasksInv
BY TasksInitInv, TasksNextInv, PTL DEF TasksSpec

\* The handlers, tasks and the shutdown reaper use the registry as it allows:
\* every behaviour of the composition is a behaviour of the registry.
THEOREM TasksImplementRegistry == TasksSpec => Spec
<1>1. TasksInit => Init
  BY DEF TasksInit
<1>2. TasksInv /\ [TasksNext]_vars => [Next]_registryVars
  BY TasksStepIsCall DEF TasksInv
<1>. QED
  BY <1>1, <1>2, TasksInvariant, PTL DEF TasksSpec, Spec

\* Type correctness of the composition.
THEOREM TasksTypeCorrect == TasksSpec => []TasksTypeOK
<1>1. TasksInv => TasksTypeOK
  BY DEF TasksInv, RegistryInv, TasksOK, ClientsOK, TasksTypeOK
<1>. QED
  BY <1>1, TasksInvariant, PTL

\* Capacity, the maintenance fence, sticky cancellation and the finality of
\* shutdown hold of the running appliance, with every fault injected and with
\* runs of one key overlapping.
THEOREM ApplianceInheritsRegistry ==
  TasksSpec => /\ []CapacityRespected /\ []FenceExcludesJobs /\ []StoppedIsResumable
               /\ CancelIsSticky /\ ShutdownIsFinal
BY TasksImplementRegistry, Capacity, MaintenanceFence, StoppedKeysResumable,
   CancelSticky, ShutdownFinal, PTL

-----------------------------------------------------------------------------
(* From here on clients wait for the previous task of a key (~Overlap).  The  *)
(* registry addresses a job by its key, so what a task may rely on follows    *)
(* from its being the only one of its key that has not finished.              *)

\* From Popen to the finally clause a task has a subprocess; from attach_process
\* on the registry may have it too.
HoldingPCs  == {"attach", "command", "killing", "clear"}
AttachedPCs == {"command", "killing", "clear"}
Holding(r)  == task[r].pc \in HoldingPCs

\* Program counters that rely on the job being active: the finally clause of a scan
\* completes what it has read as active.
RelyingPCs == WorkingPCs \union {"finalverdict"}

\* Runs are admitted in order, at most one task per key is unfinished, and the
\* job under its key stays the task's own.
RunsInOrder == \A r \in Runs : r > runs => task[r].pc = "none"
SoleOnKey ==
  \A r, q \in Runs : r # q /\ ~Finished(r) /\ ~Finished(q) => KeyOf(r) # KeyOf(q)
FinalVerdictHasJob ==
  \A r \in Runs : task[r].pc = "finalverdict" => Active(jobs[KeyOf(r)])

KeysInv == RunsInOrder /\ SoleOnKey /\ TasksOwnTheirJob /\ FinalVerdictHasJob

\* Every task that has a subprocess has its own, and it was started.
OwnProcess ==
  \A r \in Runs :
    Holding(r) => /\ task[r].proc \in Procs
                  /\ os[task[r].proc] # "unborn"
                  /\ \A q \in Runs : q # r /\ Holding(q) => task[q].proc # task[r].proc

\* What the registry has attached to a key is the subprocess of its task, and
\* until shutdown takes the table away a running command is attached.
AttachedByTask ==
  \A k \in Keys :
    processes[k] # NoProc =>
      \E r \in Runs : /\ task[r].pc \in AttachedPCs
                      /\ KeyOf(r) = k
                      /\ task[r].proc = processes[k]
CommandIsAttached ==
  \A r \in Runs : task[r].pc = "command" /\ ~shuttingDown
                    => processes[KeyOf(r)] = task[r].proc

\* A scanner this user may signal runs only while a task attends to it, and is
\* dead when the finally clause unregisters it; no other is ever suspended.
LiveIsHeld ==
  \A p \in Pausable :
    os[p] \in {"live", "frozen"} =>
      \E r \in Runs : task[r].pc \in {"attach", "command", "killing"} /\ task[r].proc = p
ClearedIsDead ==
  \A r \in Runs : task[r].pc = "clear" /\ task[r].proc \in Pausable
                    => os[task[r].proc] = "ended"
OnlyOursFreeze == \A p \in Procs : os[p] = "frozen" => p \in Pausable

ProcessesInv ==
  /\ OwnProcess
  /\ AttachedByTask
  /\ CommandIsAttached
  /\ ClearedIsDead
  /\ LiveIsHeld
  /\ OnlyOursFreeze
  /\ FrozenIsReachable
  /\ PauseStopsCommand

ThreadsInv == TasksInv /\ KeysInv /\ ProcessesInv

\* The body of VerdictIsFinal, and what it needs besides ThreadsInv: no task is
\* about to complete a job that it has completed already.
VerdictKept ==
  \A k \in Keys :
    jobs[k].status \in Terminal /\ jobs'[k].run = jobs[k].run
      => jobs'[k].status \in {jobs[k].status, "absent"}

NothingIsRedone == \A r \in Runs : task[r].pc # "reverdict"

-----------------------------------------------------------------------------
\* What a step does to the tasks: it moves one, under the key it has, never back to
\* work, and to the second verdicts through one action each.
LEMMA TaskStepMoves ==
  ASSUME TasksOK, NEW r \in Runs, TaskStep(r)
  PROVE  /\ \A q \in Runs \ {r} : task'[q] = task[q]
         /\ task'[r].key = task[r].key
         /\ task[r].pc \notin {"none", "done", "dead"}
         /\ task'[r].pc # "none"
         /\ task'[r].pc \in WorkingPCs => task[r].pc \in WorkingPCs
         /\ task'[r].pc = "finalverdict" => Finalize(r)
         /\ task'[r].pc = "reverdict" => PostCompletionFails(r)
<1>0. task[r] \in Task
  BY DEF TasksOK
<1> USE DEF TasksOK, Task, WorkingPCs, At, Goto, GotoWith
<1>1. CASE OpenSlot(r) \/ Schedule(r) \/ ScheduleFails(r) \/ ScanBegins(r) \/ ScanInitFails(r)
  BY <1>0, <1>1 DEF OpenSlot, Schedule, ScheduleFails, ScanBegins, ScanInitFails
<1>2. CASE Checkpoint(r) \/ LeaveCheckpoint(r) \/ StartCommand(r) \/ StartCommandFails(r)
  BY <1>0, <1>2 DEF Checkpoint, LeaveCheckpoint, StartCommand, StartCommandFails, AfterCheck
<1>3. CASE Attach(r) \/ AttachRefused(r) \/ CommandEnds(r) \/ TickCancelled(r)
           \/ TickTimesOut(r) \/ KillCommand(r)
  BY <1>0, <1>3 DEF Attach, AttachRefused, CommandEnds, TickCancelled, TickTimesOut,
                    KillCommand
<1>4. CASE ClearCommand(r)
  BY <1>0, <1>4 DEF ClearCommand, AfterCommand, AfterScanCommand, AfterReportCommand
<1>5. CASE ReportProceeds(r) \/ ReportRejected(r) \/ ReportPreambleCrashes(r) \/ PdfBody(r)
  BY <1>0, <1>5 DEF ReportProceeds, ReportRejected, ReportPreambleCrashes, PdfBody
<1>6. CASE Verdict(r) \/ PostCompletionFails(r) \/ Finalize(r) \/ FinalVerdict(r)
           \/ Teardown(r) \/ LateClear(r)
  BY <1>0, <1>6 DEF Verdict, PostCompletionFails, Finalize, FinalVerdict, Teardown, LateClear
<1>. QED
  BY <1>1, <1>2, <1>3, <1>4, <1>5, <1>6 DEF TaskStep

\* A task touches the registry under its own key only.
LEMMA TaskStepOwnKey ==
  ASSUME TypeOK, TasksOK, NEW r \in Runs, TaskStep(r)
  PROVE  /\ runs' = runs
         /\ \A k \in Keys \ {KeyOf(r)} : jobs'[k] = jobs[k]
         /\ task'[r].pc \in WorkingPCs =>
              /\ jobs'[KeyOf(r)].run = jobs[KeyOf(r)].run
              /\ Active(jobs[KeyOf(r)]) => Active(jobs'[KeyOf(r)])
<1>0. task[r] \in Task /\ jobs \in [Keys -> Job]
  BY DEF TasksOK, TypeOK
<1>1. CASE UNCHANGED <<runs, jobs>>
  BY <1>1
<1>2. CASE \/ OpenSlot(r) \/ Schedule(r) \/ ScanBegins(r) \/ LeaveCheckpoint(r)
           \/ StartCommandFails(r) \/ AttachRefused(r) \/ CommandEnds(r)
           \/ ReportProceeds(r) \/ ReportPreambleCrashes(r) \/ PdfBody(r)
           \/ PostCompletionFails(r) \/ Finalize(r)
  <2>. UNCHANGED registryVars
    BY <1>2 DEF OpenSlot, Schedule, ScanBegins, LeaveCheckpoint, StartCommandFails,
              AttachRefused, CommandEnds, ReportProceeds, ReportPreambleCrashes,
              PdfBody, PostCompletionFails, Finalize, registryUnchanged
  <2>. QED
    BY <1>1 DEF registryVars
<1>3. CASE StartCommand(r) \/ TickCancelled(r) \/ TickTimesOut(r) \/ KillCommand(r)
           \/ ClearCommand(r)
  BY <1>1, <1>3 DEF StartCommand, Spawn, TickCancelled, TickTimesOut, Terminate,
                    KillCommand, Kill, ClearCommand, ClearProcess
<1>4. CASE \/ ScheduleFails(r) \/ ScanInitFails(r) \/ ReportRejected(r)
           \/ Verdict(r) \/ FinalVerdict(r) \/ Teardown(r) \/ LateClear(r)
  <2>1. task'[r].pc \notin WorkingPCs
    BY <1>0, <1>4
       DEF ScheduleFails, ScanInitFails, ReportRejected, Verdict, FinalVerdict, Teardown,
           LateClear, Goto, TasksOK, Task, WorkingPCs
  <2>2. \/ UNCHANGED <<runs, jobs>>
        \/ runs' = runs /\ \E j : jobs' = [jobs EXCEPT ![KeyOf(r)] = j]
    BY <1>0, <1>4
       DEF ScheduleFails, ScanInitFails, ReportRejected, Verdict, FinalVerdict, Teardown,
           LateClear, Complete, ClearIfDisconnected, registryUnchanged, registryVars
  <2>. QED
    BY <1>0, <2>1, <2>2
<1>5. CASE Checkpoint(r) \/ Attach(r)
  <2>1. \/ UNCHANGED <<runs, jobs>>
        \/ runs' = runs /\ \E mode \in {"process", "checkpoint"} :
              jobs' = [jobs EXCEPT ![KeyOf(r)] = PausedIn(@, mode)]
    BY <1>5 DEF Checkpoint, EnterCheckpoint, Attach, AttachProcess, registryUnchanged,
                registryVars
  <2>2. ASSUME NEW j \in Job, NEW mode
        PROVE  PausedIn(j, mode).run = j.run /\ PausedIn(j, mode).status = j.status
    BY DEF PausedIn, Job
  <2>3. KeyOf(r) \in Keys
    BY <1>5 DEF Checkpoint, Attach, At, TasksOK, TaskOK, KeyOf
  <2>. QED
    BY <1>0, <2>1, <2>2, <2>3 DEF Active
<1>. QED
  BY <1>2, <1>3, <1>4, <1>5 DEF TaskStep

\* Nobody else ends an active job or replaces it by that of another run.
LEMMA ClientsKeepJobs ==
  ASSUME TypeOK, NEW k \in Keys,
         \/ \E s \in Sids : Disconnect(s)
         \/ \E q \in Keys : ClientStep(q)
  PROVE  /\ runs' = runs
         /\ jobs'[k].run = jobs[k].run \/ ~Active(jobs[k])
         /\ Active(jobs[k]) => Active(jobs'[k])
         /\ ~Active(jobs[k]) => jobs'[k] \in {jobs[k], NoJob}
<1>0. jobs \in [Keys -> Job]
  BY DEF TypeOK
<1>1. ASSUME NEW s \in Sids, Disconnect(s)
      PROVE  /\ runs' = runs
             /\ jobs'[k].run = jobs[k].run \/ ~Active(jobs[k])
             /\ Active(jobs[k]) => Active(jobs'[k])
             /\ ~Active(jobs[k]) => jobs'[k] \in {jobs[k], NoJob}
  <2>1. runs' = runs /\ (jobs'[k] = jobs[k] \/ jobs'[k] = AfterDisconnect(jobs[k]))
    BY <1>0, <1>1 DEF Disconnect, MarkDisconnected
  <2>. QED
    BY <1>0, <2>1 DEF AfterDisconnect, Active, Job
<1>2. ASSUME NEW q \in Keys, ClientStep(q)
      PROVE  /\ runs' = runs
             /\ jobs'[k].run = jobs[k].run
             /\ Active(jobs[k]) => Active(jobs'[k])
             /\ ~Active(jobs[k]) => jobs'[k] \in {jobs[k], NoJob}
  <2>1. /\ runs' = runs
        /\ jobs[q].status = "running"
        /\ \E j \in {Cancelling(jobs[q]), Pausing(jobs[q]), PausedIn(jobs[q], "process"),
                     LeftPause(jobs[q])} :
             jobs' = [jobs EXCEPT ![q] = j]
    BY <1>0, <1>2 DEF ClientStep, ClientCancels, ClientPausesProcess, ClientPausesCheckpoint,
        ClientResumes, Cancel, PauseProcess, PauseAtCheckpoint, Resume, CanPause
  <2>2. ASSUME NEW j \in {Cancelling(jobs[q]), Pausing(jobs[q]), PausedIn(jobs[q], "process"),
                     LeftPause(jobs[q])}
        PROVE  j.run = jobs[q].run /\ j.status \in {jobs[q].status, "cancelling"}
    <3>1. jobs[q] \in Job
      BY <1>0
    <3>. QED
      BY <2>2, <3>1 DEF Cancelling, Pausing, PausedIn, LeftPause, Job
  <2>. QED
    BY <1>0, <2>1, <2>2 DEF Active
<1>. QED
  BY <1>1, <1>2

\* The facts about keys: initially, and under each kind of step.
LEMMA KeysInitInv == TasksInit => KeysInv
BY DEF TasksInit, KeysInv, RunsInOrder, SoleOnKey, TasksOwnTheirJob, FinalVerdictHasJob,
       Finished, Working, WorkingPCs, NoTask, Init

\* An admission hands the key to the new task only when every other is finished.
LEMMA AdmitKeepsKeys ==
  ASSUME TasksInv, KeysInv, ~Overlap, NEW s \in Sids, NEW kind \in Kinds, Admit(s, kind)
  PROVE  KeysInv'
<1> DEFINE k == <<s, TypeOf(kind)>>
           n == runs + 1
<1>0. k \in Keys /\ n \in Runs /\ runs \in Nat
  BY TasksAssumption, RegistryAssumption
     DEF Keys, TypeOf, Admit, Start, Runs, TasksInv, RegistryInv, TypeOK
<1>1. /\ runs' = n
      /\ jobs' = [jobs EXCEPT ![k] = FreshJob(n)]
      /\ \A q \in Runs : KeyOf(q) = k => Finished(q)
  BY DEF Admit, Start, KeyOf
<1>2. /\ task'[n].pc = "opening" /\ task'[n].key = k
      /\ \A q \in Runs \ {n} : task'[q] = task[q]
  BY <1>0 DEF Admit, TasksInv, TasksOK, NoTask
<1>3. jobs'[k].run = n /\ Active(jobs'[k])
  BY <1>0, <1>1 DEF FreshJob, NoJob, Active, TasksInv, RegistryInv, TypeOK
<1>4. \A q \in Keys \ {k} : jobs'[q] = jobs[q]
  BY <1>1 DEF TasksInv, RegistryInv, TypeOK
<1>5. \A q \in Runs : q # n => /\ task[q].pc \in RelyingPCs => KeyOf(q) \in Keys \ {k}
                               /\ ~Finished(q) => KeyOf(q) # k
                               /\ q \in Nat
  BY <1>1 DEF RelyingPCs, WorkingPCs, Finished, TasksInv, TasksOK, TaskOK, KeyOf, Runs
<1> HIDE DEF k, n
<1>6. RunsInOrder'
  BY <1>0, <1>1, <1>2, <1>5 DEF RunsInOrder, KeysInv, n, Runs
<1>7. SoleOnKey'
  BY <1>2, <1>5 DEF SoleOnKey, KeysInv, Finished, KeyOf
<1>8. TasksOwnTheirJob'
  BY <1>2, <1>3, <1>4, <1>5
     DEF TasksOwnTheirJob, KeysInv, Working, WorkingPCs, RelyingPCs, KeyOf
<1>9. FinalVerdictHasJob'
  BY <1>2, <1>3, <1>4, <1>5
     DEF FinalVerdictHasJob, KeysInv, RelyingPCs, KeyOf
<1>. QED
  BY <1>6, <1>7, <1>8, <1>9 DEF KeysInv

\* A task completes or clears only the job of its own key, which no other relies on.
LEMMA TaskKeepsKeys ==
  ASSUME TasksInv, KeysInv, NEW r \in Runs, TaskStep(r)
  PROVE  KeysInv'
<1>0. TypeOK /\ TasksOK
  BY DEF TasksInv, RegistryInv
<1>1. /\ \A q \in Runs \ {r} : task'[q] = task[q]
      /\ task'[r].key = task[r].key
      /\ task[r].pc \notin {"none", "done", "dead"}
      /\ task'[r].pc # "none"
      /\ task'[r].pc \in WorkingPCs => task[r].pc \in WorkingPCs
  BY <1>0, TaskStepMoves
<1>2. /\ runs' = runs
      /\ \A k \in Keys \ {KeyOf(r)} : jobs'[k] = jobs[k]
      /\ task'[r].pc \in WorkingPCs =>
           /\ jobs'[KeyOf(r)].run = jobs[KeyOf(r)].run
           /\ Active(jobs[KeyOf(r)]) => Active(jobs'[KeyOf(r)])
  BY <1>0, TaskStepOwnKey
<1>3. ASSUME NEW q \in Runs, q # r, task[q].pc \in RelyingPCs
      PROVE  jobs'[KeyOf(q)] = jobs[KeyOf(q)]
  <2>1. KeyOf(q) \in Keys /\ KeyOf(q) # KeyOf(r)
    BY <1>0, <1>1, <1>3 DEF KeysInv, SoleOnKey, TasksOK, TaskOK, Finished, RelyingPCs,
                       WorkingPCs, KeyOf
  <2>. QED
    BY <1>2, <2>1
<1>4. RunsInOrder'
  BY <1>1, <1>2 DEF RunsInOrder, KeysInv
<1>5. SoleOnKey'
  BY <1>1 DEF SoleOnKey, KeysInv, Finished, KeyOf
<1>6. TasksOwnTheirJob'
  <2>1. ASSUME NEW q \in Runs, q # r, Working(q)
        PROVE  jobs'[KeyOf(q)].run = q /\ Active(jobs'[KeyOf(q)])
    BY <1>3, <2>1 DEF TasksOwnTheirJob, KeysInv, Working, RelyingPCs
  <2>. QED
    BY <1>1, <1>2, <2>1 DEF TasksOwnTheirJob, KeysInv, Working, KeyOf
<1>7. FinalVerdictHasJob'
  <2>1. CASE task'[r].pc = "finalverdict"
    <3>1. Finalize(r)
      BY <1>0, <2>1, TaskStepMoves
    <3>2. Active(jobs[KeyOf(r)]) /\ jobs' = jobs
      BY <1>0, <2>1, <3>1 DEF Finalize, FinalizeVerdict, GotoWith, registryUnchanged,
         registryVars, TasksOK, Task, Active
    <3>. QED
      BY <1>1, <1>3, <3>2 DEF FinalVerdictHasJob, KeysInv, KeyOf, RelyingPCs
  <2>2. CASE task'[r].pc # "finalverdict"
    BY <1>1, <1>3, <2>2 DEF FinalVerdictHasJob, KeysInv, KeyOf, RelyingPCs
  <2>. QED
    BY <2>1, <2>2
<1>. QED
  BY <1>4, <1>5, <1>6, <1>7 DEF KeysInv

\* A client that leaves, cancels, pauses or resumes keeps an active job active.
LEMMA ClientsKeepKeys ==
  ASSUME TasksInv, KeysInv,
         \/ \E s \in Sids : Disconnect(s)
         \/ \E q \in Keys : ClientStep(q)
  PROVE  KeysInv'
<1>1. UNCHANGED task
  BY DEF Disconnect, ClientStep, ClientCancels, ClientPausesProcess, ClientPausesCheckpoint,
         ClientResumes
<1>2. ASSUME NEW k \in Keys
      PROVE  /\ runs' = runs
             /\ jobs'[k].run = jobs[k].run \/ ~Active(jobs[k])
             /\ Active(jobs[k]) => Active(jobs'[k])
  BY ClientsKeepJobs DEF TasksInv, RegistryInv
<1>3. \A r \in Runs : task[r].pc \in RelyingPCs => KeyOf(r) \in Keys
  BY DEF TasksInv, TasksOK, TaskOK, RelyingPCs, WorkingPCs, KeyOf
<1>4. runs' = runs
  BY DEF Disconnect, ClientStep, ClientCancels, ClientPausesProcess, ClientPausesCheckpoint,
         ClientResumes, MarkDisconnected, Cancel, PauseProcess, PauseAtCheckpoint, Resume
<1>5. RunsInOrder' /\ SoleOnKey'
  BY <1>1, <1>4 DEF KeysInv, RunsInOrder, SoleOnKey, Finished, KeyOf
<1>6. TasksOwnTheirJob'
  BY <1>1, <1>2, <1>3 DEF KeysInv, TasksOwnTheirJob, Working, KeyOf, RelyingPCs
<1>7. FinalVerdictHasJob'
  BY <1>1, <1>2, <1>3 DEF KeysInv, FinalVerdictHasJob, KeyOf, RelyingPCs
<1>. QED
  BY <1>5, <1>6, <1>7 DEF KeysInv

\* All steps keep the facts about keys.
LEMMA KeysNextInv ==
  ASSUME ~Overlap, TasksInv, KeysInv, [TasksNext]_vars
  PROVE  KeysInv'
<1>1. ASSUME UNCHANGED <<task, jobs, runs>>
      PROVE  KeysInv'
  BY <1>1 DEF KeysInv, RunsInOrder, SoleOnKey, TasksOwnTheirJob, FinalVerdictHasJob,
         Finished, Working, KeyOf
<1>. QED
  BY <1>1, AdmitKeepsKeys, TaskKeepsKeys, ClientsKeepKeys
     DEF TasksNext, FenceUp, AcquireMaintenance, FenceDown, ReleaseMaintenance, ProcessExits,
       Exit, ReapProcess, Reap, Shutdown, BeginShutdown, ServiceExits, registryUnchanged,
       registryVars, vars

-----------------------------------------------------------------------------
\* A task that has nothing attached finds nothing attached under its key.
LEMMA DetachedKey ==
  ASSUME TasksInv, KeysInv, ProcessesInv, NEW r \in Runs,
         task[r].pc \notin AttachedPCs \union {"none", "done"}
  PROVE  /\ processes[KeyOf(r)] = NoProc
         /\ KeyOf(r) \notin stopped
<1>1. KeyOf(r) \in Keys /\ ~Finished(r)
  BY DEF TasksInv, TasksOK, TaskOK, KeyOf, Finished
<1>2. processes[KeyOf(r)] = NoProc
  BY <1>1 DEF ProcessesInv, AttachedByTask, AttachedPCs, KeysInv, SoleOnKey, Finished
<1>. QED
  BY <1>1, <1>2 DEF TasksInv, RegistryInv, StoppedIsResumable

\* A move between program counters without a subprocess, with no signal sent.
LEMMA QuietKeepsProcesses ==
  ASSUME TasksInv, KeysInv, ProcessesInv, NEW r \in Runs,
         \A q \in Runs \ {r} : task'[q] = task[q],
         task[r].pc \notin HoldingPCs \union {"none", "done"},
         task'[r].pc \notin HoldingPCs,
         \A k \in Keys \ {KeyOf(r)} : jobs'[k] = jobs[k],
         UNCHANGED <<os, processes, stopped, doomed, shuttingDown>>
  PROVE  ProcessesInv'
<1>1. ASSUME NEW q \in Runs, q # r, task[q].pc = "command"
      PROVE  jobs'[KeyOf(q)] = jobs[KeyOf(q)]
  BY <1>1 DEF KeysInv, SoleOnKey, TasksInv, TasksOK, TaskOK, Finished, KeyOf
<1> USE DEF ProcessesInv
<1>2. OwnProcess' /\ ClearedIsDead' /\ OnlyOursFreeze' /\ FrozenIsReachable'
  BY DEF OwnProcess, ClearedIsDead, OnlyOursFreeze, FrozenIsReachable, Holding, HoldingPCs
<1>3. AttachedByTask'
  BY DEF AttachedByTask, AttachedPCs, HoldingPCs, KeyOf
<1>4. CommandIsAttached' /\ LiveIsHeld'
  BY DEF CommandIsAttached, LiveIsHeld, HoldingPCs, KeyOf
<1>5. PauseStopsCommand'
  BY <1>1 DEF PauseStopsCommand, HoldingPCs, KeyOf
<1>. QED
  BY <1>2, <1>3, <1>4, <1>5

\* Completing or clearing the job of a key with nothing attached signals nobody.
LEMMA QuietStep ==
  ASSUME TasksInv, KeysInv, ProcessesInv, NEW r \in Runs,
         \/ OpenSlot(r) \/ Schedule(r) \/ ScheduleFails(r)
         \/ ScanBegins(r) \/ ScanInitFails(r)
         \/ Checkpoint(r) \/ LeaveCheckpoint(r) \/ StartCommandFails(r)
         \/ ReportProceeds(r) \/ ReportRejected(r) \/ ReportPreambleCrashes(r)
         \/ PdfBody(r)
         \/ Verdict(r) \/ PostCompletionFails(r)
         \/ Finalize(r) \/ FinalVerdict(r) \/ Teardown(r)
         \/ LateClear(r)
  PROVE  ProcessesInv'
<1>0. TasksOK /\ TypeOK /\ task[r] \in Task /\ TaskStep(r)
  BY DEF TasksInv, RegistryInv, TasksOK, TaskStep
<1>1. task[r].pc \notin HoldingPCs \union {"none", "done"}
  BY DEF HoldingPCs, At, OpenSlot, Schedule, ScheduleFails, ScanBegins, ScanInitFails,
         Checkpoint, LeaveCheckpoint, StartCommandFails, ReportProceeds, ReportRejected,
         ReportPreambleCrashes, PdfBody, Verdict, PostCompletionFails, Finalize,
         FinalVerdict, Teardown, LateClear
<1>2. task'[r].pc \notin HoldingPCs
  BY <1>0
     DEF HoldingPCs, OpenSlot, Schedule, ScheduleFails, ScanBegins, ScanInitFails,
         Checkpoint, LeaveCheckpoint, AfterCheck, StartCommandFails, ReportProceeds,
         ReportRejected, ReportPreambleCrashes, PdfBody, Verdict, PostCompletionFails,
         Finalize, FinalVerdict, Teardown, LateClear, Goto, GotoWith, TasksOK, Task
<1>3. processes[KeyOf(r)] = NoProc /\ KeyOf(r) \notin stopped
  BY <1>1, DetachedKey DEF HoldingPCs, AttachedPCs
<1>4. UNCHANGED <<os, processes, stopped, doomed, shuttingDown>>
  <2>1. ASSUME NEW status, Complete(KeyOf(r), status)
        PROVE  UNCHANGED <<os, processes, stopped, doomed, shuttingDown>>
    BY <1>3, <2>1 DEF Complete, LeftStopped, LeavePauseSignal
  <2>2. ASSUME ClearIfDisconnected(KeyOf(r))
        PROVE  UNCHANGED <<os, processes, stopped, doomed, shuttingDown>>
    BY <1>0, <1>3, <2>2 DEF ClearIfDisconnected, TypeOK
  <2>3. registryUnchanged \/ EnterCheckpoint(KeyOf(r)) \/ ClearIfDisconnected(KeyOf(r))
        \/ \E status : Complete(KeyOf(r), status)
    BY DEF OpenSlot, Schedule, ScheduleFails, ScanBegins, ScanInitFails,
           Checkpoint, LeaveCheckpoint, StartCommandFails, ReportProceeds,
           ReportRejected, ReportPreambleCrashes, PdfBody, Verdict, PostCompletionFails,
           Finalize, FinalVerdict, Teardown, LateClear
  <2>. QED
    BY <2>1, <2>2, <2>3 DEF registryUnchanged, registryVars, EnterCheckpoint
<1>. QED
  BY <1>0, <1>1, <1>2, <1>4, TaskStepMoves, TaskStepOwnKey, QuietKeepsProcesses

\* Popen: the subprocess is new, so no other task has it.
LEMMA SpawnKeepsProcesses ==
  ASSUME TasksInv, ProcessesInv, NEW r \in Runs, StartCommand(r)
  PROVE  ProcessesInv'
<1>0. TasksOK /\ TypeOK /\ task[r] \in Task /\ Pausable \subseteq Procs
  BY RegistryAssumption DEF TasksInv, RegistryInv, TasksOK
<1>1. PICK p \in Procs : Spawn(p) /\ task' = [task EXCEPT ![r].pc = "attach", ![r].proc = p]
  BY DEF StartCommand
<1>2. /\ \A q \in Runs \ {r} : task'[q] = task[q]
      /\ task[r].pc = "spawn" /\ task'[r].pc = "attach" /\ task'[r].proc = p
  BY <1>0, <1>1 DEF StartCommand, At, TasksOK, Task
<1>3. /\ os[p] = "unborn" /\ os'[p] = "live"
      /\ \A q \in Procs \ {p} : os'[q] = os[q]
      /\ UNCHANGED <<jobs, processes, stopped, shuttingDown, doomed>>
  BY <1>0, <1>1 DEF Spawn, TypeOK
<1> USE DEF ProcessesInv
<1>4. OwnProcess'
  BY <1>0, <1>2, <1>3 DEF OwnProcess, Holding, HoldingPCs
<1>5. AttachedByTask' /\ CommandIsAttached'
  BY <1>0, <1>2, <1>3 DEF AttachedByTask, CommandIsAttached, AttachedPCs, KeyOf
<1>6. ClearedIsDead' /\ LiveIsHeld' /\ OnlyOursFreeze' /\ FrozenIsReachable'
  BY <1>0, <1>2, <1>3 DEF ClearedIsDead, LiveIsHeld, OnlyOursFreeze, FrozenIsReachable
<1>7. PauseStopsCommand'
  BY <1>0, <1>2, <1>3 DEF PauseStopsCommand, KeyOf
<1>. QED
  BY <1>4, <1>5, <1>6, <1>7

\* attach_process: a pending pause stops the subprocess as it is registered.
LEMMA AttachKeepsProcesses ==
  ASSUME TasksInv, KeysInv, ProcessesInv, NEW r \in Runs, Attach(r)
  PROVE  ProcessesInv'
<1> DEFINE k == KeyOf(r)
           p == task[r].proc
<1>0. TasksOK /\ TypeOK /\ task[r] \in Task /\ Pausable \subseteq Procs
  BY RegistryAssumption DEF TasksInv, RegistryInv, TasksOK
<1>1. /\ \A q \in Runs \ {r} : task'[q] = task[q]
      /\ task[r].pc = "attach" /\ task'[r].pc = "command"
      /\ task'[r].proc = p /\ task'[r].key = k
  BY <1>0 DEF Attach, At, Goto, TasksOK, Task, KeyOf
<1>2. k \in Keys /\ p \in Procs /\ p # NoProc
  BY <1>0, <1>1, RegistryAssumption DEF TasksOK, TaskOK, KeyOf
<1>3. processes[k] = NoProc
  BY <1>1, DetachedKey DEF AttachedPCs
<1>4. ASSUME NEW q \in Runs, q # r, ~Finished(q)
      PROVE  KeyOf(q) # k
  BY <1>1, <1>4 DEF KeysInv, SoleOnKey, Finished
<1>5. /\ ~shuttingDown /\ os[p] # "unborn"
      /\ processes'[k] = p
      /\ \A q \in Keys \ {k} : processes'[q] = processes[q] /\ jobs'[q] = jobs[q]
      /\ stopped \subseteq stopped'
      /\ UNCHANGED <<shuttingDown, doomed>>
      /\ \A q \in Procs \ {p} : os'[q] = os[q]
      /\ os'[p] = "frozen" => os[p] = "frozen" \/ (p \in Pausable /\ k \in stopped')
      /\ os[p] = "frozen" => os'[p] = "frozen"
      /\ os[p] = "ended" => os'[p] = "ended"
      /\ os'[p] = "ended" => os[p] = "ended"
      /\ os'[p] # "unborn"
  BY <1>0, <1>2 DEF Attach, AttachProcess, StopOnAttach, Frozen, TypeOK
<1>6. p \in Pausable /\ jobs'[k].status = "running" /\ jobs'[k].pauseReq
        => os'[p] \in {"frozen", "ended"}
  <2>1. CASE StopOnAttach(k, p) /\ os' = Frozen(p)
    BY <1>0, <1>2, <1>5, <2>1 DEF Frozen, TypeOK, OSStates
  <2>2. CASE (StopOnAttach(k, p) => StopFails(p)) /\ UNCHANGED <<os, jobs>>
    BY <2>2 DEF StopOnAttach, StopFails
  <2>. QED
    BY <2>1, <2>2 DEF Attach, AttachProcess
<1> USE DEF ProcessesInv
<1> HIDE DEF k, p
<1>7. OwnProcess'
  BY <1>0, <1>1, <1>2, <1>5 DEF OwnProcess, Holding, HoldingPCs, p
<1>8. AttachedByTask'
  BY <1>0, <1>1, <1>2, <1>5 DEF AttachedByTask, AttachedPCs, KeyOf
<1>9. CommandIsAttached'
  BY <1>0, <1>1, <1>2, <1>4, <1>5 DEF CommandIsAttached, KeyOf, Finished, TasksOK, TaskOK
<1>10. ClearedIsDead'
  BY <1>0, <1>1, <1>2, <1>5 DEF ClearedIsDead, p
<1>11. LiveIsHeld' /\ OnlyOursFreeze'
  BY <1>0, <1>1, <1>2, <1>5 DEF LiveIsHeld, OnlyOursFreeze, p, OwnProcess, Holding, HoldingPCs
<1>12. FrozenIsReachable'
  <2>1. ASSUME NEW q \in Procs, os[q] = "frozen"
        PROVE  q \in doomed' \/ \E x \in stopped' : processes'[x] = q
    <3>1. q # NoProc /\ stopped \subseteq Keys
      BY <1>0, RegistryAssumption DEF TypeOK
    <3>. QED
      BY <1>3, <1>5, <2>1, <3>1 DEF FrozenIsReachable
  <2>2. os'[p] = "frozen" /\ os[p] # "frozen" => k \in stopped' /\ processes'[k] = p
    BY <1>5
  <2>. QED
    BY <1>5, <2>1, <2>2 DEF FrozenIsReachable
<1>13. PauseStopsCommand'
  <2>1. ASSUME NEW q \in Runs, q # r, task[q].pc = "command"
        PROVE  jobs'[KeyOf(q)] = jobs[KeyOf(q)] /\ task[q].proc \in Procs \ {p}
    BY <1>0, <1>1, <1>4, <1>5, <2>1
       DEF TasksOK, TaskOK, KeyOf, Finished, OwnProcess, Holding, HoldingPCs, p
  <2>. QED
    BY <1>1, <1>5, <1>6, <2>1 DEF PauseStopsCommand, KeyOf
<1>. QED
  BY <1>7, <1>8, <1>9, <1>10, <1>11, <1>12, <1>13

\* A command's subprocess is signalled or found dead, and the task moves on.
LEMMA SignalKeepsProcesses ==
  ASSUME TasksInv, KeysInv, ProcessesInv, NEW r \in Runs,
         \/ AttachRefused(r) \/ CommandEnds(r) \/ TickCancelled(r)
         \/ TickTimesOut(r) \/ KillCommand(r)
  PROVE  ProcessesInv'
<1> DEFINE p == task[r].proc
<1>0. TasksOK /\ TypeOK /\ task[r] \in Task /\ Pausable \subseteq Procs
  BY RegistryAssumption DEF TasksInv, RegistryInv, TasksOK
<1>1. /\ \A q \in Runs \ {r} : task'[q] = task[q]
      /\ task[r].pc \in {"attach", "command", "killing"}
      /\ task'[r].pc \in {"killing", "clear"}
      /\ task[r].pc = "attach" => shuttingDown /\ task'[r].pc = "killing"
      /\ task'[r].proc = p /\ task'[r].key = task[r].key
  BY <1>0 DEF AttachRefused, CommandEnds, TickCancelled, TickTimesOut, KillCommand,
              At, Goto, GotoWith, TasksOK, Task
<1>2. p \in Procs
  BY <1>0, <1>1 DEF TasksOK, TaskOK
<1>3. /\ UNCHANGED <<jobs, processes, stopped, shuttingDown, doomed>>
      /\ \A q \in Procs \ {p} : os'[q] = os[q]
      /\ os'[p] = "unborn" => os[p] = "unborn"
      /\ os'[p] = "frozen" => os[p] = "frozen"
      /\ task'[r].pc = "clear" /\ p \in Pausable => os'[p] = "ended"
  BY <1>0, <1>2
     DEF AttachRefused, CommandEnds, TickCancelled, TickTimesOut, KillCommand, Terminate,
         Kill, Killed, Woken, registryUnchanged, registryVars, TypeOK, Goto, GotoWith,
         TasksOK, Task
<1>4. task[r].pc = "attach" => \A q \in Runs : task[q].pc \in AttachedPCs => task[q].proc # p
  BY DEF ProcessesInv, OwnProcess, Holding, HoldingPCs, AttachedPCs
<1>5. \A q \in Runs \ {r} : Holding(q) => task[q].proc \in Procs \ {p}
  BY <1>1 DEF ProcessesInv, OwnProcess, Holding, HoldingPCs
<1> USE DEF ProcessesInv
<1> HIDE DEF p
<1>6. OwnProcess'
  BY <1>1, <1>2, <1>3 DEF OwnProcess, Holding, HoldingPCs, p
<1>7. AttachedByTask'
  BY <1>1, <1>3 DEF AttachedByTask, AttachedPCs, KeyOf, p
<1>8. CommandIsAttached'
  BY <1>1, <1>3 DEF CommandIsAttached, KeyOf
<1>9. ClearedIsDead'
  BY <1>0, <1>1, <1>3, <1>5 DEF ClearedIsDead, Holding, HoldingPCs
<1>10. LiveIsHeld'
  BY <1>0, <1>1, <1>2, <1>3 DEF LiveIsHeld, p
<1>11. OnlyOursFreeze' /\ FrozenIsReachable'
  BY <1>3 DEF OnlyOursFreeze, FrozenIsReachable
<1>12. PauseStopsCommand'
  BY <1>0, <1>1, <1>3, <1>5 DEF PauseStopsCommand, KeyOf, Holding, HoldingPCs
<1>. QED
  BY <1>6, <1>7, <1>8, <1>9, <1>10, <1>11, <1>12

\* clear_process: what leaves the table and the stopped set is not suspended.
LEMMA ClearKeepsProcesses ==
  ASSUME TasksInv, KeysInv, ProcessesInv, NEW r \in Runs, ClearCommand(r)
  PROVE  ProcessesInv'
<1> DEFINE k == KeyOf(r)
           p == task[r].proc
<1>0. TasksOK /\ TypeOK /\ task[r] \in Task /\ Pausable \subseteq Procs /\ TaskStep(r)
  BY RegistryAssumption DEF TasksInv, RegistryInv, TasksOK, TaskStep
<1>1. /\ \A q \in Runs \ {r} : task'[q] = task[q]
      /\ task[r].pc = "clear" /\ task'[r].pc \notin HoldingPCs
  BY <1>0 DEF ClearCommand, At, AfterCommand, AfterScanCommand, AfterReportCommand,
              HoldingPCs, TasksOK, Task
<1>2. k \in Keys
  BY <1>0, <1>1 DEF TasksOK, TaskOK, KeyOf
<1>3. /\ processes'[k] = NoProc
      /\ \A q \in Keys \ {k} : processes'[q] = processes[q]
      /\ stopped' = stopped \ {k}
      /\ UNCHANGED <<jobs, os, shuttingDown, doomed>>
  BY <1>0, <1>2 DEF ClearCommand, ClearProcess, TypeOK
<1>4. ASSUME NEW q \in Runs, q # r, ~Finished(q)
      PROVE  KeyOf(q) # k
  BY <1>1, <1>4 DEF KeysInv, SoleOnKey, Finished
<1>5. processes[k] \in {p, NoProc}
  BY <1>2, <1>4 DEF ProcessesInv, AttachedByTask, AttachedPCs, Finished
<1>6. p \in Procs => os[p] # "frozen"
  BY <1>1 DEF ProcessesInv, ClearedIsDead, OnlyOursFreeze
<1> USE DEF ProcessesInv
<1> HIDE DEF k, p
<1>7. OwnProcess' /\ ClearedIsDead'
  BY <1>1, <1>3 DEF OwnProcess, ClearedIsDead, Holding, HoldingPCs
<1>8. AttachedByTask'
  BY <1>0, <1>1, <1>2, <1>3 DEF AttachedByTask, AttachedPCs, HoldingPCs, KeyOf, k
<1>9. CommandIsAttached'
  BY <1>0, <1>1, <1>3, <1>4 DEF CommandIsAttached, HoldingPCs, KeyOf, TasksOK, TaskOK, Finished
<1>10. LiveIsHeld' /\ OnlyOursFreeze'
  BY <1>1, <1>3 DEF LiveIsHeld, OnlyOursFreeze
<1>11. FrozenIsReachable'
  <2>1. ASSUME NEW q \in Procs, os[q] = "frozen"
        PROVE  q \in doomed' \/ \E x \in stopped' : processes'[x] = q
    <3>1. q # NoProc /\ q # p /\ stopped \subseteq Keys
      BY <1>0, <1>6, <2>1, RegistryAssumption DEF TypeOK
    <3>. QED
      BY <1>3, <1>5, <2>1, <3>1 DEF FrozenIsReachable
  <2>. QED
    BY <1>3, <2>1 DEF FrozenIsReachable
<1>12. PauseStopsCommand'
  BY <1>1, <1>3 DEF PauseStopsCommand, KeyOf, HoldingPCs
<1>. QED
  BY <1>7, <1>8, <1>9, <1>10, <1>11, <1>12

\* All steps of a task.
LEMMA TaskKeepsProcesses ==
  ASSUME TasksInv, KeysInv, ProcessesInv, NEW r \in Runs, TaskStep(r)
  PROVE  ProcessesInv'
BY QuietStep, SpawnKeepsProcesses, AttachKeepsProcesses, SignalKeepsProcesses,
   ClearKeepsProcesses DEF TaskStep

\* What a step of nobody's task may do to the subprocesses without harm.
LEMMA OutsideKeepsProcesses ==
  ASSUME TasksInv, KeysInv, ProcessesInv, UNCHANGED task,
         \A p \in Procs : /\ os'[p] = "unborn" => os[p] = "unborn"
                          /\ os[p] = "ended" => os'[p] = "ended"
                          /\ os'[p] \in {"live", "frozen"} => os[p] \in {"live", "frozen"}
                          /\ os'[p] = "frozen" => p \in Pausable,
         \A k \in Keys : processes'[k] = processes[k],
         shuttingDown' = shuttingDown,
         FrozenIsReachable', PauseStopsCommand'
  PROVE  ProcessesInv'
<1>0. Pausable \subseteq Procs
  BY RegistryAssumption
<1>1. \A r \in Runs : task[r].pc = "command" => KeyOf(r) \in Keys
  BY DEF TasksInv, TasksOK, TaskOK, KeyOf
<1> USE DEF ProcessesInv
<1>3. OwnProcess' /\ ClearedIsDead' /\ OnlyOursFreeze'
  BY <1>0 DEF OwnProcess, ClearedIsDead, OnlyOursFreeze, Holding
<1>4. AttachedByTask' /\ CommandIsAttached'
  BY <1>1 DEF AttachedByTask, CommandIsAttached, KeyOf
<1>5. LiveIsHeld'
  BY <1>0 DEF LiveIsHeld
<1>. QED
  BY <1>3, <1>4, <1>5

\* The subprocess attached to a key is that of one task only.
LEMMA AttachedOnce ==
  ASSUME TasksInv, KeysInv, ProcessesInv, NEW k \in Keys, NEW q \in Keys,
         processes[k] # NoProc, processes[k] = processes[q]
  PROVE  k = q
BY DEF ProcessesInv, AttachedByTask, AttachedPCs, OwnProcess, Holding, HoldingPCs

\* Pause, resume and cancel signal the subprocess of one key, which is that of one task.
LEMMA ClientsKeepProcesses ==
  ASSUME TasksInv, KeysInv, ProcessesInv, NEW k \in Keys, ClientStep(k)
  PROVE  ProcessesInv'
<1> DEFINE p == processes[k]
<1>0. TasksOK /\ TypeOK /\ Pausable \subseteq Procs /\ NoProc \notin Procs
  BY RegistryAssumption DEF TasksInv, RegistryInv
<1>1. UNCHANGED <<task, processes, shuttingDown, doomed>>
  BY DEF ClientStep, ClientCancels, ClientPausesProcess, ClientPausesCheckpoint,
         ClientResumes, Cancel, PauseProcess, PauseAtCheckpoint, Resume
<1>2. /\ p \in Procs \union {NoProc}
      /\ p # NoProc => os[p] # "unborn"
      /\ \A q \in Keys \ {k} : p # NoProc => processes[q] # p
      /\ \A q \in Keys \ {k} : jobs'[q] = jobs[q]
  <2>1. p \in Procs \union {NoProc}
    BY <1>0 DEF TypeOK
  <2>2. p # NoProc => os[p] # "unborn"
    BY DEF ProcessesInv, AttachedByTask, OwnProcess, AttachedPCs, Holding, HoldingPCs
  <2>3. \A q \in Keys \ {k} : p # NoProc => processes[q] # p
    BY AttachedOnce
  <2>4. \A q \in Keys \ {k} : jobs'[q] = jobs[q]
    BY <1>0 DEF ClientStep, ClientCancels, ClientPausesProcess, ClientPausesCheckpoint,
         ClientResumes, Cancel, PauseProcess, PauseAtCheckpoint, Resume, TypeOK
  <2>. QED
    BY <2>1, <2>2, <2>3, <2>4
<1>3. ASSUME NEW q \in Runs, task[q].pc = "command", ~shuttingDown
      PROVE  KeyOf(q) \in Keys /\ processes[KeyOf(q)] = task[q].proc /\ task[q].proc \in Procs
  BY <1>0, <1>3 DEF ProcessesInv, CommandIsAttached, TasksOK, TaskOK, KeyOf
<1>4. CASE \E seen \in 0..MaxRuns : PauseProcess(k, seen)
  <2>1. /\ p \in Procs /\ p \in Pausable
        /\ stopped' = stopped \union {k}
        /\ os' = [os EXCEPT ![p] = IF @ = "live" THEN "frozen" ELSE @]
    BY <1>2, <1>4 DEF PauseProcess, StopSucceeds, Frozen
  <2>2. /\ \A q \in Procs \ {p} : os'[q] = os[q]
        /\ os'[p] # "unborn" /\ (os'[p] = "frozen" \/ os'[p] = os[p])
        /\ os'[p] \in {"frozen", "ended"}
    BY <1>0, <1>2, <2>1 DEF TypeOK, OSStates
  <2>3. FrozenIsReachable'
    BY <1>1, <2>1, <2>2 DEF FrozenIsReachable, ProcessesInv
  <2>4. PauseStopsCommand'
    <3> SUFFICES ASSUME NEW q \in Runs, task[q].pc = "command", task[q].proc \in Pausable,
                        jobs'[KeyOf(q)].status = "running", jobs'[KeyOf(q)].pauseReq,
                        ~shuttingDown
                 PROVE  os'[task[q].proc] \in {"frozen", "ended"}
      BY <1>1 DEF PauseStopsCommand, KeyOf
    <3>1. CASE KeyOf(q) = k
      BY <1>3, <2>2, <3>1
    <3>2. CASE KeyOf(q) # k
      BY <1>2, <1>3, <2>1, <2>2, <3>2, <1>0 DEF PauseStopsCommand, ProcessesInv
    <3>. QED
      BY <3>1, <3>2
  <2>5. \A q \in Procs : /\ os'[q] = "unborn" => os[q] = "unborn"
                         /\ os[q] = "ended" => os'[q] = "ended"
                         /\ os'[q] \in {"live", "frozen"} => os[q] \in {"live", "frozen"}
                         /\ os'[q] = "frozen" => q \in Pausable
    BY <1>0, <1>2, <2>1, <2>2 DEF ProcessesInv, OnlyOursFreeze, TypeOK
  <2>. QED
    BY <1>1, <2>3, <2>4, <2>5, OutsideKeepsProcesses
<1>5. CASE \E seen \in 0..MaxRuns : PauseAtCheckpoint(k, seen)
  <2>1. UNCHANGED <<os, stopped>> /\ (p # NoProc => StopFails(p))
    BY <1>5 DEF PauseAtCheckpoint
  <2>2. PauseStopsCommand'
    <3> SUFFICES ASSUME NEW q \in Runs, task[q].pc = "command", task[q].proc \in Pausable,
                        jobs'[KeyOf(q)].status = "running", jobs'[KeyOf(q)].pauseReq,
                        ~shuttingDown
                 PROVE  os[task[q].proc] \in {"frozen", "ended"}
      BY <1>1, <2>1 DEF PauseStopsCommand, KeyOf
    <3>1. CASE KeyOf(q) = k
      BY <1>0, <1>3, <2>1, <3>1 DEF StopFails
    <3>2. CASE KeyOf(q) # k
      BY <1>2, <1>3, <3>2 DEF PauseStopsCommand, ProcessesInv
    <3>. QED
      BY <3>1, <3>2
  <2>3. FrozenIsReachable'
    BY <1>1, <2>1 DEF FrozenIsReachable, ProcessesInv
  <2>. QED
    BY <1>1, <2>1, <2>2, <2>3, OutsideKeepsProcesses DEF ProcessesInv, OnlyOursFreeze
<1>6. CASE \E seen \in 0..MaxRuns : Cancel(k, seen) \/ Resume(k, seen)
  <2>1. /\ stopped' \in {stopped, stopped \ {k}}
        /\ os' = os \/ (p \in Procs /\ os' = [os EXCEPT ![p] = IF @ = "frozen" THEN "live" ELSE @])
        /\ k \in stopped => os' = [os EXCEPT ![p] = IF @ = "frozen" THEN "live" ELSE @]
        /\ k \in stopped => p \in Procs
    <3>1. k \in stopped => HasPause(jobs[k]) /\ p # NoProc
      BY DEF TasksInv, RegistryInv, StoppedIsResumable, HasPause
    <3>. QED
      BY <1>2, <1>6, <3>1 DEF Cancel, Resume, LeftStopped, LeavePauseSignal, WakeAttached, Woken
  <2>2. /\ \A q \in Procs : q # p => os'[q] = os[q]
        /\ \A q \in Procs : os'[q] = "frozen" => os[q] = "frozen"
        /\ \A q \in Procs : os'[q] = "unborn" => os[q] = "unborn"
        /\ \A q \in Procs : os'[q] \in {"live", "frozen"} => os[q] \in {"live", "frozen"}
        /\ \A q \in Procs : os[q] = "ended" => os'[q] = "ended"
        /\ k \in stopped => p \in Procs /\ os'[p] # "frozen"
    BY <1>0, <2>1 DEF TypeOK
  <2>3. FrozenIsReachable'
    BY <1>1, <2>1, <2>2 DEF FrozenIsReachable, ProcessesInv
  <2>4. ~jobs'[k].pauseReq
    <3>1. jobs[k] \in Job /\ jobs'[k] \in {Cancelling(jobs[k]), LeftPause(jobs[k])}
      BY <1>0, <1>6 DEF Cancel, Resume, TypeOK
    <3>. QED
      BY <3>1 DEF Cancelling, LeftPause, Job
  <2>5. PauseStopsCommand'
    <3> SUFFICES ASSUME NEW q \in Runs, task[q].pc = "command", task[q].proc \in Pausable,
                        jobs'[KeyOf(q)].status = "running", jobs'[KeyOf(q)].pauseReq,
                        ~shuttingDown
                 PROVE  os'[task[q].proc] \in {"frozen", "ended"}
      BY <1>1 DEF PauseStopsCommand, KeyOf
    <3>1. KeyOf(q) # k
      BY <2>4
    <3>2. task[q].proc # p /\ task[q].proc \in Procs
      BY <1>0, <1>2, <1>3, <3>1
    <3>. QED
      BY <1>2, <1>3, <2>2, <3>1, <3>2 DEF PauseStopsCommand, ProcessesInv
  <2>. QED
    BY <1>1, <2>2, <2>3, <2>5, OutsideKeepsProcesses DEF ProcessesInv, OnlyOursFreeze
<1>. QED
  BY <1>4, <1>5, <1>6
     DEF ClientStep, ClientCancels, ClientPausesProcess, ClientPausesCheckpoint, ClientResumes

\* Disconnections, ends of subprocesses, the reaper, and shutdown, which takes over
\* every suspended subprocess.
LEMMA ServiceKeepsProcesses ==
  ASSUME TasksInv, KeysInv, ProcessesInv,
         \/ \E s \in Sids : Disconnect(s)
         \/ \E p \in Procs : ProcessExits(p) \/ ReapProcess(p)
         \/ Shutdown
  PROVE  ProcessesInv'
<1>0. TasksOK /\ TypeOK /\ Pausable \subseteq Procs
  BY RegistryAssumption DEF TasksInv, RegistryInv
<1>1. UNCHANGED task
  BY DEF Disconnect, ProcessExits, ReapProcess, Shutdown
<1>2. ASSUME NEW r \in Runs, task[r].pc = "command"
      PROVE  KeyOf(r) \in Keys /\ task[r].proc \in Procs
  BY <1>0, <1>2 DEF TasksOK, TaskOK, KeyOf
<1>3. CASE \E s \in Sids : Disconnect(s)
  <2>1. /\ UNCHANGED <<os, processes, stopped, doomed, shuttingDown>>
        /\ \A k \in Keys : jobs'[k] \in {jobs[k], AfterDisconnect(jobs[k])}
    BY <1>3 DEF Disconnect, MarkDisconnected
  <2>2. ASSUME NEW k \in Keys, jobs'[k].status = "running", jobs'[k].pauseReq
        PROVE  jobs[k].status = "running" /\ jobs[k].pauseReq
    BY <1>0, <2>1, <2>2 DEF AfterDisconnect, NoJob, TypeOK, Job
  <2>3. PauseStopsCommand'
    BY <1>1, <1>2, <2>1, <2>2 DEF PauseStopsCommand, ProcessesInv, KeyOf
  <2>4. FrozenIsReachable'
    BY <2>1 DEF FrozenIsReachable, ProcessesInv
  <2>. QED
    BY <1>1, <2>1, <2>3, <2>4, OutsideKeepsProcesses DEF ProcessesInv, OnlyOursFreeze
<1>4. CASE \E p \in Procs : ProcessExits(p) \/ ReapProcess(p)
  <2>1. PICK p \in Procs : ProcessExits(p) \/ ReapProcess(p)
    BY <1>4
  <2>2. /\ UNCHANGED <<jobs, processes, stopped, shuttingDown>>
        /\ \A q \in Procs \ {p} : os'[q] = os[q] /\ (q \in doomed => q \in doomed')
        /\ os'[p] \in {os[p], "ended"}
        /\ os'[p] = "frozen" => os[p] = "frozen" /\ (p \notin Pausable \/ doomed' = doomed)
    BY <1>0, <2>1 DEF ProcessExits, Exit, ReapProcess, Reap, Killed, TypeOK
  <2>3. FrozenIsReachable'
    BY <2>2 DEF FrozenIsReachable, OnlyOursFreeze, ProcessesInv
  <2>4. PauseStopsCommand'
    BY <1>1, <1>2, <2>2 DEF PauseStopsCommand, ProcessesInv, KeyOf
  <2>5. \A q \in Procs : /\ os'[q] = "unborn" => os[q] = "unborn"
                         /\ os[q] = "ended" => os'[q] = "ended"
                         /\ os'[q] \in {"live", "frozen"} => os[q] \in {"live", "frozen"}
                         /\ os'[q] = "frozen" => q \in Pausable
    BY <2>2 DEF OnlyOursFreeze, ProcessesInv
  <2>. QED
    BY <1>1, <2>2, <2>3, <2>4, <2>5, OutsideKeepsProcesses
<1>5. CASE Shutdown
  <2>1. /\ shuttingDown' /\ UNCHANGED os
        /\ \A k \in Keys : processes'[k] = NoProc
        /\ doomed' = doomed \union Tracked
    BY <1>5 DEF Shutdown, BeginShutdown
  <2> USE DEF ProcessesInv
  <2>2. OwnProcess' /\ ClearedIsDead' /\ LiveIsHeld' /\ OnlyOursFreeze'
    BY <1>1, <2>1 DEF OwnProcess, ClearedIsDead, LiveIsHeld, OnlyOursFreeze, Holding
  <2>3. AttachedByTask' /\ CommandIsAttached' /\ PauseStopsCommand'
    BY <2>1 DEF AttachedByTask, CommandIsAttached, PauseStopsCommand
  <2>4. FrozenIsReachable'
    <3>1. NoProc \notin Procs /\ stopped \subseteq Keys
      BY <1>0, RegistryAssumption DEF TypeOK
    <3>. QED
      BY <2>1, <3>1 DEF FrozenIsReachable, Tracked
  <2>. QED
    BY <2>2, <2>3, <2>4
<1>. QED
  BY <1>3, <1>4, <1>5

\* A new run finds its key neither attached nor stopped.
LEMMA AdmitKeepsProcesses ==
  ASSUME TasksInv, KeysInv, ProcessesInv, ~Overlap,
         NEW s \in Sids, NEW kind \in Kinds, Admit(s, kind)
  PROVE  ProcessesInv'
<1> DEFINE k == <<s, TypeOf(kind)>>
           n == runs + 1
<1>0. k \in Keys /\ n \in Runs /\ n > runs
  BY TasksAssumption, RegistryAssumption
     DEF Keys, TypeOf, Admit, Start, Runs, TasksInv, RegistryInv, TypeOK
<1>1. /\ task[n].pc = "none" /\ task'[n].pc = "opening"
      /\ \A q \in Runs \ {n} : task'[q] = task[q]
  BY <1>0 DEF KeysInv, RunsInOrder, Admit, TasksInv, TasksOK, NoTask
<1>2. /\ UNCHANGED <<os, processes, doomed, shuttingDown>>
      /\ stopped' = stopped \ {k}
      /\ ~Active(jobs[k])
      /\ \A q \in Keys \ {k} : jobs'[q] = jobs[q]
      /\ \A q \in Runs : KeyOf(q) = k => Finished(q)
  BY <1>0 DEF Admit, Start, ActiveKeys, KeyOf, TasksInv, RegistryInv, TypeOK
<1>3. k \notin stopped
  BY <1>0, <1>2 DEF TasksInv, RegistryInv, RecordsOK, RecordOK, PauseConsistent, HasPause,
     StoppedIsResumable, Active
<1>4. stopped' = stopped
  BY <1>2, <1>3
<1>5. ASSUME NEW q \in Runs, task[q].pc = "command"
      PROVE  KeyOf(q) \in Keys \ {k}
  BY <1>2, <1>5 DEF Finished, TasksInv, TasksOK, TaskOK, KeyOf
<1> USE DEF ProcessesInv
<1> HIDE DEF k, n
<1>6. OwnProcess' /\ ClearedIsDead' /\ OnlyOursFreeze' /\ FrozenIsReachable'
  BY <1>1, <1>2, <1>4
     DEF OwnProcess, ClearedIsDead, OnlyOursFreeze, FrozenIsReachable, Holding, HoldingPCs
<1>7. AttachedByTask' /\ CommandIsAttached' /\ LiveIsHeld'
  BY <1>1, <1>2 DEF AttachedByTask, CommandIsAttached, LiveIsHeld, AttachedPCs, KeyOf
<1>8. PauseStopsCommand'
  BY <1>1, <1>2, <1>5 DEF PauseStopsCommand, KeyOf
<1>. QED
  BY <1>6, <1>7, <1>8

\* The facts about subprocesses: initially and under every step.
LEMMA ProcessesInitInv == TasksInit => ProcessesInv
BY RegistryAssumption
   DEF TasksInit, ProcessesInv, OwnProcess, AttachedByTask, CommandIsAttached, ClearedIsDead,
       LiveIsHeld, OnlyOursFreeze, FrozenIsReachable, PauseStopsCommand, Holding, HoldingPCs,
       AttachedPCs, NoTask, Init

\* All steps keep the facts about subprocesses.
LEMMA ProcessesNextInv ==
  ASSUME ~Overlap, TasksInv, KeysInv, ProcessesInv, [TasksNext]_vars
  PROVE  ProcessesInv'
<1>1. ASSUME UNCHANGED <<task, jobs, os, processes, stopped, doomed, shuttingDown>>
      PROVE  ProcessesInv'
  BY <1>1 DEF ProcessesInv, OwnProcess, AttachedByTask, CommandIsAttached, ClearedIsDead,
       LiveIsHeld, OnlyOursFreeze, FrozenIsReachable, PauseStopsCommand, Holding, KeyOf
<1>. QED
  BY <1>1, AdmitKeepsProcesses, TaskKeepsProcesses, ClientsKeepProcesses,
     ServiceKeepsProcesses
     DEF TasksNext, FenceUp, AcquireMaintenance, FenceDown, ReleaseMaintenance, ServiceExits,
         registryUnchanged, registryVars, vars

\* The inductive invariant of the threads of the appliance, for any number of sessions,
\* runs and subprocesses and with every fault injected, as long as no client starts a run
\* before the previous task of its key has torn down.
THEOREM ThreadsInvariant ==
  ASSUME ~Overlap
  PROVE  TasksSpec => []ThreadsInv
<1>1. TasksInit => ThreadsInv
  BY TasksInitInv, KeysInitInv, ProcessesInitInv DEF ThreadsInv
<1>2. ThreadsInv /\ [TasksNext]_vars => ThreadsInv'
  BY TasksNextInv, KeysNextInv, ProcessesNextInv DEF ThreadsInv
<1>. QED
  BY <1>1, <1>2, PTL DEF TasksSpec

\* Until its verdict every task finds its own job under its key, still active.
THEOREM JobsAreOwned ==
  ASSUME ~Overlap
  PROVE  TasksSpec => []TasksOwnTheirJob
BY ThreadsInvariant, PTL DEF ThreadsInv, KeysInv

\* An accepted pause stops the command, whenever it arrives, and whatever is suspended
\* can be woken or is on the list of the reaper.
THEOREM PausesAreKept ==
  ASSUME ~Overlap
  PROVE  TasksSpec => []PausesHold
BY ThreadsInvariant, PTL DEF ThreadsInv, ProcessesInv, PausesHold

\* With a maintenance token out no task works and no scanner of this user runs.
THEOREM FenceMeansQuiet ==
  ASSUME ~Overlap
  PROVE  TasksSpec => []MaintenanceIsQuiet
<1>1. ThreadsInv => MaintenanceIsQuiet
  <2> SUFFICES ASSUME ThreadsInv, maintenance # NoUpgrader
               PROVE  /\ \A r \in Runs : ~Working(r)
                      /\ \A p \in Pausable : os[p] \in {"unborn", "ended"}
    BY DEF MaintenanceIsQuiet
  <2>1. ActiveKeys = {}
    BY DEF ThreadsInv, TasksInv, RegistryInv, FenceExcludesJobs
  <2>2. \A r \in Runs : ~Working(r)
    <3>1. \A r \in Runs : Working(r) => KeyOf(r) \in Keys
      BY DEF ThreadsInv, TasksInv, TasksOK, TaskOK, Working, WorkingPCs, KeyOf
    <3>. QED
      BY <2>1, <3>1 DEF ThreadsInv, KeysInv, TasksOwnTheirJob, ActiveKeys
  <2>3. \A p \in Pausable : os[p] \notin {"live", "frozen"}
    BY <2>2 DEF ThreadsInv, ProcessesInv, LiveIsHeld, Working, WorkingPCs
  <2>4. \A p \in Pausable : os[p] \in OSStates
    BY RegistryAssumption DEF ThreadsInv, TasksInv, RegistryInv, TypeOK
  <2>. QED
    BY <2>2, <2>3, <2>4 DEF OSStates
<1>. QED
  BY <1>1, ThreadsInvariant, PTL

-----------------------------------------------------------------------------
\* Only a failing store makes a task complete its job a second time.
LEMMA NothingIsRedoneStep ==
  ASSUME "store" \notin Faults, TasksInv, NothingIsRedone, [TasksNext]_vars
  PROVE  NothingIsRedone'
<1>1. ASSUME NEW r \in Runs, TaskStep(r)
      PROVE  NothingIsRedone'
  <2>1. /\ \A q \in Runs \ {r} : task'[q] = task[q]
        /\ task'[r].pc = "reverdict" => PostCompletionFails(r)
    BY <1>1, TaskStepMoves DEF TasksInv
  <2>2. ~PostCompletionFails(r)
    BY DEF PostCompletionFails
  <2>. QED
    BY <2>1, <2>2 DEF NothingIsRedone
<1>2. ASSUME NEW s \in Sids, NEW kind \in Kinds, Admit(s, kind)
      PROVE  NothingIsRedone'
  BY <1>2 DEF Admit, NothingIsRedone, NoTask, TasksInv, TasksOK
<1>3. UNCHANGED task => NothingIsRedone'
  BY DEF NothingIsRedone
<1>. QED
  BY <1>1, <1>2, <1>3
     DEF TasksNext, Disconnect, ClientStep, ClientCancels, ClientPausesProcess,
       ClientPausesCheckpoint, ClientResumes, FenceUp, FenceDown, ProcessExits,
       ReapProcess, Shutdown, ServiceExits, vars

\* A terminal record is left alone or dropped: who completes a job relies on its
\* being active.
LEMMA VerdictStep ==
  ASSUME ThreadsInv, NothingIsRedone, [TasksNext]_vars
  PROVE  VerdictKept
<1>0. TasksInv /\ KeysInv /\ TypeOK /\ TasksOK /\ RecordsOK
  BY DEF ThreadsInv, TasksInv, RegistryInv
<1> SUFFICES ASSUME NEW k \in Keys, jobs[k].status \in Terminal,
                    jobs'[k].run = jobs[k].run
             PROVE  jobs'[k].status \in {jobs[k].status, "absent"}
  BY DEF VerdictKept
<1>1. ~Active(jobs[k]) /\ jobs[k] \in Job /\ jobs[k].run <= runs /\ runs \in Nat
  BY <1>0 DEF Active, Terminal, TypeOK, RecordsOK
<1>2. jobs'[k] \in {jobs[k], NoJob} => jobs'[k].status \in {jobs[k].status, "absent"}
  BY DEF NoJob
<1>3. ASSUME NEW s \in Sids, NEW kind \in Kinds, Admit(s, kind)
      PROVE  jobs'[k] = jobs[k]
  <2>1. jobs' = [jobs EXCEPT ![<<s, TypeOf(kind)>>] = FreshJob(runs + 1)]
    BY <1>3 DEF Admit, Start
  <2>2. FreshJob(runs + 1).run # jobs[k].run
    BY <1>1 DEF FreshJob, NoJob, Job
  <2>. QED
    BY <1>0, <2>1, <2>2 DEF TypeOK
<1>4. ASSUME NEW r \in Runs, TaskStep(r)
      PROVE  jobs'[k] \in {jobs[k], NoJob}
  <2>1. CASE k # KeyOf(r)
    BY <1>0, <1>4, <2>1, TaskStepOwnKey
  <2>2. CASE k = KeyOf(r)
    <3>1. task[r].pc \notin WorkingPCs \union {"finalverdict", "reverdict"}
      BY <1>0, <1>1, <2>2 DEF KeysInv, TasksOwnTheirJob, FinalVerdictHasJob, NothingIsRedone, Working
    <3>2. Finalize(r) \/ PostCompletionFails(r) \/ Teardown(r) \/ LateClear(r)
      BY <1>4, <3>1
         DEF TaskStep, OpenSlot, Schedule, ScheduleFails, ScanBegins, ScanInitFails,
           Checkpoint, LeaveCheckpoint, StartCommand, StartCommandFails, Attach,
           AttachRefused, CommandEnds, TickCancelled, TickTimesOut, KillCommand,
           ClearCommand, ReportProceeds, ReportRejected, ReportPreambleCrashes, PdfBody,
           Verdict, FinalVerdict, At, WorkingPCs
    <3>. QED
      BY <1>0, <2>2, <3>2 DEF Finalize, PostCompletionFails, Teardown, LateClear,
         ClearIfDisconnected, registryUnchanged, registryVars, TypeOK
  <2>. QED
    BY <2>1, <2>2
<1>5. ASSUME (\E s \in Sids : Disconnect(s)) \/ (\E q \in Keys : ClientStep(q))
      PROVE  jobs'[k] \in {jobs[k], NoJob}
  BY <1>0, <1>1, <1>5, ClientsKeepJobs
<1>. QED
  BY <1>2, <1>3, <1>4, <1>5
     DEF TasksNext, FenceUp, AcquireMaintenance, FenceDown, ReleaseMaintenance, ProcessExits,
       Exit, ReapProcess, Reap, Shutdown, BeginShutdown, ServiceExits, registryUnchanged,
       registryVars, vars

\* Without store failures the verdict of a run is final: no client, teardown or later
\* task turns one terminal status into another.
THEOREM VerdictsAreFinal ==
  ASSUME ~Overlap, "store" \notin Faults
  PROVE  TasksSpec => VerdictIsFinal
<1>1. TasksInit => NothingIsRedone
  BY DEF TasksInit, NothingIsRedone, NoTask
<1>2. ThreadsInv /\ NothingIsRedone /\ [TasksNext]_vars => NothingIsRedone'
  BY NothingIsRedoneStep DEF ThreadsInv
<1>3. ThreadsInv /\ NothingIsRedone /\ [TasksNext]_vars => VerdictKept
  BY VerdictStep
<1>. QED
  BY <1>1, <1>2, <1>3, ThreadsInvariant, PTL DEF TasksSpec, VerdictIsFinal, VerdictKept
=============================================================================
