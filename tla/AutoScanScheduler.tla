--------------------------- MODULE AutoScanScheduler --------------------------
(***************************************************************************)
(* Scheduled work: the minute loop and its worker (auto_scan_loop in       *)
(* nmapui/handlers/auto_scan.py), the two executors that run a report and  *)
(* record last_run (nmapui/auto_scan_runtime.py), the due-ness of          *)
(* Auto-Monitor rules (nmapui/auto_monitor.py), and the settings requests  *)
(* that change schedules under the worker (handlers/settings.py).          *)
(*                                                                         *)
(* A calendar is the set Slots of instants; slot s lies between the        *)
(* instants s - 1 and s, so no event falls on a slot.  0 is "never".  The  *)
(* report is ScanTasks: here it completes or it does not.  An unused       *)
(* operator right before one of the same parameters is a plausible slip.   *)
(***************************************************************************)
EXTENDS Naturals, FiniteSets, FiniteSetsExt

CONSTANTS
  Rules,     \* ids of Auto-Monitor rules
  Slots,     \* scheduled occurrences
  Window,    \* instants inside the daily window of the auto-scan
  Grace,     \* startup grace
  Hour,      \* the least distance of two auto-scans
  MaxTime, MaxRestarts   \* bounds

ASSUME SchedulerAssumption ==
  /\ Slots \subseteq Nat \ {0}
  /\ Window \subseteq Nat
  /\ Grace \in Nat \ {0} /\ Hour \in Nat /\ MaxTime \in Nat \ {0} /\ MaxRestarts \in Nat

VARIABLES
  now, startedAt, restarts,
  minute,     \* a minute the loop has not looked at has begun
  tick,       \* progress of the loop through one pass
  working,    \* worker_running
  worker,     \* progress of run_due_work
  cooling,    \* the rate limiter of AUTO_SCAN_SID refuses
  auto,       \* auto_scan_config
  rules,      \* settings_state["auto_monitor"]["rules"]
  saved,      \* auto_scan_config and rules on disk
  served,     \* slots of each rule whose report completed
  earned,     \* per rule, when a report completed last
  added       \* per rule, when it was added

clock     == <<now, startedAt, restarts>>
settings  == <<auto, rules, saved>>
history   == <<served, earned, added>>
scheduler == <<minute, tick, working>>
vars == <<clock, scheduler, worker, cooling, settings, history>>

Instants == 0..MaxTime
Nothing == 0

-----------------------------------------------------------------------------
Rule == [present : BOOLEAN, enabled : BOOLEAN, lastRun : Instants, created : Instants]
NoRule == [present |-> FALSE, enabled |-> FALSE, lastRun |-> 0, created |-> 0]
AutoScan == [enabled : BOOLEAN, lastRun : Instants]

Tick == [pc : {"idle", "auto", "rules"}, at : Instants, auto : BOOLEAN, due : SUBSET Rules]
NoTick == [pc |-> "idle", at |-> 0, auto |-> FALSE, due |-> {}]

Worker == [pc : {"idle", "auto", "autoStarting", "autoReport", "rules", "starting", "report"},
           auto : BOOLEAN, due : SUBSET Rules, rule : Rules \union {Nothing},
           slot : Instants]
NoWorker == [pc |-> "idle", auto |-> FALSE, due |-> {}, rule |-> Nothing, slot |-> 0]

Warm(t) == t - startedAt >= Grace

\* get_previous_auto_monitor_run before the check of the creation time.
Slot(t) == LET past == {s \in Slots : s <= t} IN IF past = {} THEN 0 ELSE Max(past)

\* get_due_auto_monitor_rules, for one rule of the settings rs.
Due(rs, r, t) ==
  /\ Warm(t)
  /\ rs[r].present /\ rs[r].enabled
  /\ Slot(t) > rs[r].created
  /\ rs[r].lastRun < Slot(t)

\* should_run_auto_scan.
ShouldRun(t) == auto.enabled /\ Warm(t) /\ t \in Window

RanRecently(t) == auto.lastRun # 0 /\ t - auto.lastRun < Hour

-----------------------------------------------------------------------------
(* auto_scan_loop: one pass per minute, each configuration under its lock.  *)

MinutePasses ==
  /\ ~minute /\ minute' = TRUE
  /\ UNCHANGED <<clock, tick, working, worker, cooling, settings, history>>

TickReadsAuto ==
  /\ tick.pc = "idle" /\ minute
  /\ minute' = FALSE
  /\ tick' = [NoTick EXCEPT !.pc = "auto", !.at = now,
                            !.auto = ShouldRun(now) /\ ~RanRecently(now)]
  /\ UNCHANGED <<clock, working, worker, cooling, settings, history>>

TickReadsRules ==
  /\ tick.pc = "auto"
  /\ tick' = [tick EXCEPT !.pc = "rules", !.due = {r \in Rules : Due(rules, r, tick.at)}]
  /\ UNCHANGED <<clock, minute, working, worker, cooling, settings, history>>

TickLaunches ==
  /\ tick.pc = "rules"
  /\ IF (tick.auto \/ tick.due # {}) /\ ~working
     THEN /\ working' = TRUE
          /\ worker' = [NoWorker EXCEPT !.pc = "auto", !.auto = tick.auto, !.due = tick.due]
     ELSE UNCHANGED <<working, worker>>
  /\ tick' = NoTick
  /\ UNCHANGED <<clock, minute, cooling, settings, history>>

-----------------------------------------------------------------------------
(* run_due_work.                                                            *)

\* A report that ends, refused, failed or completed, never ends the worker.
EndsTheWorker(pc) == worker' = NoWorker
Continue(pc) == worker' = [worker EXCEPT !.pc = pc, !.rule = Nothing, !.slot = 0]

\* The queued auto-scan looks at its settings again, though not at last_run.
WorkerRechecksAuto ==
  /\ worker.pc = "auto"
  /\ Continue(IF worker.auto /\ ShouldRun(now) THEN "autoStarting" ELSE "rules")
  /\ UNCHANGED <<clock, scheduler, cooling, settings, history>>

\* Rate limited, no valid target, or the registry refuses.
AutoRefused ==
  /\ worker.pc = "autoStarting"
  /\ Continue("rules")
  /\ UNCHANGED <<clock, scheduler, cooling, settings, history>>

AutoStarts ==
  /\ worker.pc = "autoStarting" /\ ~cooling
  /\ cooling' = TRUE
  /\ Continue("autoReport")
  /\ UNCHANGED <<clock, scheduler, settings, history>>

AutoFails ==
  /\ worker.pc = "autoReport"
  /\ Continue("rules")
  /\ UNCHANGED <<clock, scheduler, cooling, settings, history>>

\* A save that fails leaves last_run in memory.
AutoCompletes ==
  /\ worker.pc = "autoReport"
  /\ auto' = [auto EXCEPT !.lastRun = now]
  /\ \E written \in BOOLEAN : saved' = IF written THEN [saved EXCEPT !.auto = auto'] ELSE saved
  /\ Continue("rules")
  /\ UNCHANGED <<clock, scheduler, cooling, rules, history>>

\* A queued rule runs only if it is due by the settings of now.
AsQueued(r) == TRUE
StillDue(r) == Due(rules, r, now)

WorkerRechecksRule ==
  /\ worker.pc = "rules"
  /\ \E r \in worker.due :
       worker' = IF StillDue(r)
                 THEN [worker EXCEPT !.pc = "starting", !.due = @ \ {r}, !.rule = r,
                                     !.slot = Slot(now)]
                 ELSE [worker EXCEPT !.due = @ \ {r}]
  /\ UNCHANGED <<clock, scheduler, cooling, settings, history>>

RuleRefused ==
  /\ worker.pc = "starting"
  /\ Continue("rules")
  /\ UNCHANGED <<clock, scheduler, cooling, settings, history>>

RuleStarts ==
  /\ worker.pc = "starting" /\ ~cooling
  /\ cooling' = TRUE
  /\ worker' = [worker EXCEPT !.pc = "report"]
  /\ UNCHANGED <<clock, scheduler, settings, history>>

\* last_run after a report of r.
Recorded(r, completed) ==
  IF completed /\ rules[r].present THEN [rules EXCEPT ![r].lastRun = now] ELSE rules

RuleEnds ==
  /\ worker.pc = "report"
  /\ \E completed, written \in BOOLEAN :
       /\ rules' = Recorded(worker.rule, completed)
       /\ saved' = IF completed /\ written THEN [saved EXCEPT !.rules = rules'] ELSE saved
       /\ IF completed
          THEN /\ served' = [served EXCEPT ![worker.rule] = @ \union {worker.slot}]
               /\ earned' = [earned EXCEPT ![worker.rule] = now]
          ELSE UNCHANGED <<served, earned>>
  /\ Continue("rules")
  /\ UNCHANGED <<clock, scheduler, cooling, auto, added>>

WorkerEnds ==
  /\ worker.pc = "rules" /\ worker.due = {}
  /\ working' = FALSE
  /\ worker' = NoWorker
  /\ UNCHANGED <<clock, minute, tick, cooling, settings, history>>

-----------------------------------------------------------------------------
(* Requests.                                                                *)

UpdateAutoScan ==
  /\ auto' = [auto EXCEPT !.enabled = ~@]
  /\ saved' = [saved EXCEPT !.auto = auto']
  /\ UNCHANGED <<clock, scheduler, worker, cooling, rules, history>>

\* preserve_auto_monitor_progress: last_run and creation time of a submitted rule, whatever
\* an old settings page claims.
LastRun(r, claimed) == IF rules[r].present THEN rules[r].lastRun ELSE 0

Creation(r, claimed) == IF rules[r].present THEN rules[r].created ELSE now

\* A failed save changes nothing, so it is not an action.
SubmitForm ==
  /\ \E present \in SUBSET Rules : \E enabled \in SUBSET present : \E claimed \in {0, now} :
       rules' = [r \in Rules |->
                   IF r \in present
                   THEN [present |-> TRUE, enabled |-> r \in enabled,
                         lastRun |-> LastRun(r, claimed), created |-> Creation(r, claimed)]
                   ELSE NoRule]
  /\ saved' = [saved EXCEPT !.rules = rules']
  /\ added' = [r \in Rules |-> IF rules'[r].present /\ ~rules[r].present THEN now ELSE added[r]]
  /\ UNCHANGED <<clock, scheduler, worker, cooling, auto, served, earned>>

-----------------------------------------------------------------------------
(* Time and restarts.                                                       *)

TimePasses ==
  /\ now < MaxTime /\ now' = now + 1
  /\ UNCHANGED <<startedAt, restarts, scheduler, worker, cooling, settings, history>>

CooldownEnds ==
  /\ cooling /\ cooling' = FALSE
  /\ UNCHANGED <<clock, scheduler, worker, settings, history>>

\* The process dies between any two steps; what was not saved did not happen.
Restarts ==
  /\ restarts < MaxRestarts
  /\ restarts' = restarts + 1
  /\ startedAt' = now /\ minute' = TRUE /\ tick' = NoTick
  /\ working' = FALSE /\ worker' = NoWorker /\ cooling' = FALSE
  /\ auto' = saved.auto /\ rules' = saved.rules
  /\ served' = [r \in Rules |-> {s \in served[r] : s <= saved.rules[r].lastRun}]
  /\ earned' = [r \in Rules |-> saved.rules[r].lastRun]
  /\ UNCHANGED <<now, saved, added>>

-----------------------------------------------------------------------------
Init ==
  /\ now = 0 /\ startedAt = 0 /\ restarts = 0
  /\ minute = TRUE /\ tick = NoTick
  /\ working = FALSE /\ worker = NoWorker /\ cooling = FALSE
  /\ auto = [enabled |-> FALSE, lastRun |-> 0]
  /\ rules = [r \in Rules |-> NoRule]
  /\ saved = [auto |-> auto, rules |-> rules]
  /\ served = [r \in Rules |-> {}]
  /\ earned = [r \in Rules |-> 0]
  /\ added = [r \in Rules |-> 0]

TickStep == TickReadsAuto \/ TickReadsRules \/ TickLaunches

WorkerStep ==
  \/ WorkerRechecksAuto \/ AutoRefused \/ AutoStarts \/ AutoFails \/ AutoCompletes
  \/ WorkerRechecksRule \/ RuleRefused \/ RuleStarts \/ RuleEnds \/ WorkerEnds

Next ==
  \/ MinutePasses \/ TickStep \/ WorkerStep
  \/ UpdateAutoScan \/ SubmitForm
  \/ TimePasses \/ CooldownEnds \/ Restarts

Spec == Init /\ [][Next]_vars

\* The loop's thread and the worker go on, and every report ends.
FairSpec == Spec /\ WF_vars(MinutePasses) /\ WF_vars(TickStep) /\ WF_vars(WorkerStep)

-----------------------------------------------------------------------------
(* Properties.                                                              *)

\* Every field keeps its type, and the flag is set exactly while the worker is at work.
SchedulerTypeOK ==
  /\ now \in Instants /\ startedAt \in 0..now /\ restarts \in 0..MaxRestarts
  /\ minute \in BOOLEAN /\ tick \in Tick /\ cooling \in BOOLEAN
  /\ working \in BOOLEAN /\ worker \in Worker
  /\ working <=> worker.pc # "idle"
  /\ auto \in AutoScan /\ rules \in [Rules -> Rule]
  /\ saved \in [auto : AutoScan, rules : [Rules -> Rule]]
  /\ served \in [Rules -> SUBSET Slots]
  /\ earned \in [Rules -> Instants] /\ added \in [Rules -> Instants]

\* README "Scheduling": no duplicate catch-up scans.  While the report of a slot is at
\* work no report of that slot has completed, whatever was queued, edited, removed and
\* added again, or restarted in between.
SlotsRunOnce ==
  worker.pc \in {"starting", "report"} => worker.slot \notin served[worker.rule]

\* README "Scheduling": last_run is server-owned.  It never goes back while the rule and
\* the process live, in memory or on disk (preserve_auto_monitor_progress).
ProgressIsKept ==
  [][restarts' = restarts =>
       \A r \in Rules :
         /\ rules[r].present /\ rules'[r].present => rules'[r].lastRun >= rules[r].lastRun
         /\ saved.rules[r].present /\ saved'.rules[r].present =>
              saved'.rules[r].lastRun >= saved.rules[r].lastRun]_vars

\* auto_monitor.py:462: a newly created rule never catches up a slot that predates its
\* creation, though it was queued, removed and brought back by an old form in between.
NewRulesDoNotCatchUp ==
  [][worker.pc = "rules" /\ worker'.pc = "starting" =>
       worker'.slot > added[worker'.rule]]_vars

\* README "Scheduling": a failed report leaves the slot due.  A rule whose last slot no
\* report has completed since is due, whatever was refused, failed or left unsaved.
UnservedSlotsStayDue ==
  \A r \in Rules :
    rules[r].present /\ rules[r].enabled /\ Warm(now)
      /\ Slot(now) > rules[r].created /\ earned[r] < Slot(now)
    => Due(rules, r, now)

\* A due rule is looked at again and again: neither a failing report nor an edit under
\* the worker leaves worker_running set.
DueRulesAreTried ==
  \A r \in Rules : []<>(worker.rule = r \/ ~Due(rules, r, now))

\* auto_monitor.py:500, "rules whose most recent scheduled slot has not run": a slot that
\* passes during the rule's own report counts as run.
SlotsAreNotSkipped ==
  \A r \in Rules :
    rules[r].present /\ rules[r].enabled /\ Warm(now) /\ Slot(now) > rules[r].created
      /\ ~Due(rules, r, now) => Slot(now) \in served[r]

=============================================================================
