------------------------ MODULE AutoScanSchedulerProofs ------------------------
(***************************************************************************)
(* Proofs about the scheduler for every set of rules, every calendar, grace*)
(* and window.                                                             *)
(*                                                                         *)
(* The argument: a slot a completed report has served lies behind last_run *)
(* or behind the creation of the rule that holds it now (Behind), so the   *)
(* recheck, which asks for a slot after both, never finds it again.  That  *)
(* survives removal and return of a rule because a new creation time lies  *)
(* behind no served slot, and a restart because only progress that reached *)
(* the disk counts.                                                        *)
(***************************************************************************)
EXTENDS AutoScanScheduler, WellFoundedInduction, TLAPS

\* No event of rule r lies in the future, disk and memory differ at most in how far the
\* progress of a rule has been saved, and served slots are behind the rule.
Past(r) ==
  /\ rules[r].lastRun <= earned[r] /\ earned[r] <= now
  /\ rules[r].created <= now
  /\ \A s \in served[r] : s <= now

Agrees(r) ==
  /\ saved.rules[r].present = rules[r].present
  /\ saved.rules[r].enabled = rules[r].enabled
  /\ saved.rules[r].created = rules[r].created
  /\ saved.rules[r].lastRun <= rules[r].lastRun

Behind(r) ==
  rules[r].present =>
    /\ \A s \in served[r] : s <= rules[r].lastRun \/ s <= rules[r].created
    /\ added[r] <= rules[r].created

RulesOK == \A r \in Rules : Past(r) /\ Agrees(r) /\ Behind(r)

\* The slot the worker has chosen has come, and no report of it has completed.
WorkerOK ==
  worker.pc \in {"starting", "report"} =>
    /\ worker.rule \in Rules
    /\ worker.slot \in Slots /\ worker.slot <= now
    /\ worker.slot \notin served[worker.rule]

SchedulerInv == SchedulerTypeOK /\ RulesOK /\ WorkerOK

-----------------------------------------------------------------------------
\* A set of instants up to t that is not empty has a greatest one.
LEMMA GreatestInstant ==
  ASSUME NEW t \in Nat, NEW S \in SUBSET (0..t), S # {}
  PROVE  \E x \in S : \A y \in S : x >= y
<1> DEFINE T == {t - s : s \in S}
<1>1. T \subseteq Nat /\ T # {}
  <2>1. \A s \in S : t - s \in Nat
    OBVIOUS
  <2>2. PICK s0 \in S : TRUE
    OBVIOUS
  <2>3. t - s0 \in T
    OBVIOUS
  <2> QED BY <2>1, <2>3
<1>2. \E x \in T : \A y \in T : ~(<<y, x>> \in OpToRel(<, Nat))
  <2> HIDE DEF T
  <2> QED BY <1>1, NatLessThanWellFounded, WFMin
<1>3. PICK d \in T : \A y \in T : ~(<<y, d>> \in OpToRel(<, Nat))
  BY <1>2
<1>4. \A y \in T : ~(y < d)
  BY <1>1, <1>3 DEF OpToRel
<1>5. PICK s \in S : d = t - s
  BY DEF T
<1>6. \A y \in S : s >= y
  <2> TAKE y \in S
  <2>1. ~(t - y < t - s)
    BY <1>4, <1>5
  <2> QED BY <2>1
<1> QED BY <1>6

\* The last slot at an instant has come, and is "never" or a slot of the calendar.
LEMMA SlotIsPast ==
  ASSUME NEW t \in Instants
  PROVE  Slot(t) \in 0..t /\ (Slot(t) = 0 \/ Slot(t) \in Slots)
<1> DEFINE past == {s \in Slots : s <= t}
<1>1. t \in Nat /\ past \in SUBSET (0..t)
  <2>1. t \in Nat
    BY SchedulerAssumption DEF Instants
  <2>2. \A s \in past : s \in Nat /\ s <= t
    BY SchedulerAssumption
  <2> QED BY <2>1, <2>2
<1>2. CASE past = {}
  BY <1>1, <1>2 DEF Slot
<1>3. CASE past # {}
  <2>1. Slot(t) = Max(past)
    BY <1>3 DEF Slot
  <2>2. Max(past) \in past
    <3> HIDE DEF past
    <3>1. \E x \in past : \A y \in past : x >= y
      BY <1>1, <1>3, GreatestInstant
    <3> QED BY <3>1 DEF Max
  <2> QED BY <1>1, <2>1, <2>2
<1> QED BY <1>2, <1>3

\* What the scheduler starts from.
LEMMA InitInv == Init => SchedulerInv
<1> SUFFICES ASSUME Init PROVE SchedulerInv
  OBVIOUS
<1>0. 0 \in Instants /\ NoRule \in Rule
  BY SchedulerAssumption DEF Instants, NoRule, Rule
<1>1. SchedulerTypeOK
  <2>1. /\ now \in Instants /\ startedAt \in 0..now /\ restarts \in 0..MaxRestarts
        /\ minute \in BOOLEAN /\ working \in BOOLEAN /\ cooling \in BOOLEAN
    <3>1. MaxRestarts \in Nat /\ 0 \in 0..0
      BY SchedulerAssumption
    <3>2. minute \in BOOLEAN /\ working \in BOOLEAN /\ cooling \in BOOLEAN
      BY Zenon DEF Init
    <3>3. now \in Instants /\ startedAt \in 0..now /\ restarts \in 0..MaxRestarts
      BY <1>0, <3>1 DEF Init
    <3> QED BY <3>2, <3>3
  <2>2. tick \in Tick /\ worker \in Worker /\ (working <=> worker.pc # "idle")
    BY <1>0 DEF Init, Tick, NoTick, Worker, NoWorker, Nothing
  <2>3. auto \in AutoScan /\ rules \in [Rules -> Rule]
    BY <1>0 DEF Init, AutoScan
  <2>4. saved \in [auto : AutoScan, rules : [Rules -> Rule]]
    BY <2>3 DEF Init
  <2>5. /\ served \in [Rules -> SUBSET Slots]
        /\ earned \in [Rules -> Instants] /\ added \in [Rules -> Instants]
    BY <1>0 DEF Init
  <2> QED BY <2>1, <2>2, <2>3, <2>4, <2>5 DEF SchedulerTypeOK
<1>2. RulesOK
  BY SchedulerAssumption DEF Init, RulesOK, Past, Agrees, Behind, NoRule
<1>3. WorkerOK
  BY DEF Init, WorkerOK, NoWorker
<1> QED BY <1>1, <1>2, <1>3 DEF SchedulerInv

-----------------------------------------------------------------------------
\* What RulesOK and WorkerOK are about besides the clock and the worker.
ruleVars == <<rules, saved.rules, served, earned, added>>

\* Steps that touch neither rules nor history keep RulesOK as time passes.
LEMMA RulesOKFrame ==
  ASSUME SchedulerInv, now' \in Instants, now' >= now, UNCHANGED ruleVars
  PROVE  RulesOK'
<1> SUFFICES ASSUME NEW r \in Rules PROVE (Past(r) /\ Agrees(r) /\ Behind(r))'
  BY DEF RulesOK
<1>1. Past(r) /\ Agrees(r) /\ Behind(r) /\ now \in Nat /\ now' \in Nat
  BY SchedulerAssumption DEF SchedulerInv, RulesOK, SchedulerTypeOK, Instants
<1>2. /\ earned[r] \in Nat /\ rules[r] \in Rule
      /\ \A s \in served[r] : s \in Nat
  BY SchedulerAssumption DEF SchedulerInv, SchedulerTypeOK, Instants
<1>3. rules[r].created \in Nat
  BY <1>2, SchedulerAssumption DEF Rule, Instants
<1>4. Past(r)'
  BY <1>1, <1>2, <1>3 DEF Past, ruleVars
<1>5. Agrees(r)' /\ Behind(r)'
  BY <1>1 DEF Agrees, Behind, ruleVars
<1> QED BY <1>4, <1>5

\* The worker moves on to another step and forgets the rule it was at.
LEMMA ContinueTyped ==
  ASSUME worker \in Worker,
         NEW pc \in {"auto", "autoStarting", "autoReport", "rules"}, Continue(pc)
  PROVE  worker' \in Worker /\ worker'.pc = pc
<1>1. 0 \in Instants /\ Nothing \in Rules \union {Nothing}
  BY SchedulerAssumption DEF Instants
<1>2. worker' = [pc |-> pc, auto |-> worker.auto, due |-> worker.due,
                 rule |-> Nothing, slot |-> 0]
  BY DEF Continue, Worker
<1>3. worker.auto \in BOOLEAN /\ worker.due \in SUBSET Rules
  BY DEF Worker
<1> QED BY <1>1, <1>2, <1>3 DEF Worker

\* Steps that leave the worker with no rule keep WorkerOK.
LEMMA WorkerAway ==
  ASSUME worker'.pc \notin {"starting", "report"}
  PROVE  WorkerOK'
BY DEF WorkerOK

\* Every step of the loop.
LEMMA TickKeepsInv == SchedulerInv /\ (MinutePasses \/ TickStep) => SchedulerInv'
<1> SUFFICES ASSUME SchedulerInv, MinutePasses \/ TickStep PROVE SchedulerInv'
  OBVIOUS
<1> USE DEF clock, settings, history
<1>1. UNCHANGED <<ruleVars, saved, clock, auto, cooling>>
  BY DEF MinutePasses, TickStep, TickReadsAuto, TickReadsRules, TickLaunches, ruleVars
<1>2. RulesOK'
  <2>1. now' \in Instants /\ now' >= now
    BY <1>1, SchedulerAssumption DEF SchedulerInv, SchedulerTypeOK, Instants
  <2> QED BY <1>1, <2>1, RulesOKFrame
<1>3. tick' \in Tick /\ minute' \in BOOLEAN
  <2>0. tick \in Tick /\ now \in Instants /\ NoTick \in Tick
    BY SchedulerAssumption DEF SchedulerInv, SchedulerTypeOK, Tick, NoTick, Instants
  <2>1. CASE MinutePasses
    BY <2>0, <2>1 DEF MinutePasses
  <2>2. CASE TickReadsAuto
    <3>1. (ShouldRun(now) /\ ~RanRecently(now)) \in BOOLEAN
      OBVIOUS
    <3> DEFINE wanted == ShouldRun(now) /\ ~RanRecently(now)
    <3>2. tick' = [NoTick EXCEPT !.pc = "auto", !.at = now, !.auto = wanted] /\ minute' = FALSE
      BY <2>2 DEF TickReadsAuto
    <3> HIDE DEF wanted
    <3>3. wanted \in BOOLEAN
      BY <3>1 DEF wanted
    <3> QED BY <2>0, <3>2, <3>3 DEF Tick
  <2>3. CASE TickReadsRules
    BY <2>0, <2>3 DEF TickReadsRules, Tick, SchedulerInv, SchedulerTypeOK
  <2>4. CASE TickLaunches
    BY <2>0, <2>4 DEF TickLaunches, SchedulerInv, SchedulerTypeOK
  <2> QED BY <2>1, <2>2, <2>3, <2>4 DEF TickStep
<1>4. /\ worker' \in Worker /\ working' \in BOOLEAN /\ (working' <=> worker'.pc # "idle")
      /\ worker' = worker \/ worker'.pc = "auto"
  <2>1. CASE UNCHANGED <<worker, working>>
    BY <2>1 DEF SchedulerInv, SchedulerTypeOK
  <2>2. CASE TickLaunches /\ working' = TRUE
             /\ worker' = [NoWorker EXCEPT !.pc = "auto", !.auto = tick.auto, !.due = tick.due]
    <3>1. tick.auto \in BOOLEAN /\ tick.due \in SUBSET Rules /\ 0 \in Instants
      BY SchedulerAssumption DEF SchedulerInv, SchedulerTypeOK, Tick, Instants
    <3>2. worker' = [pc |-> "auto", auto |-> tick.auto, due |-> tick.due,
                     rule |-> Nothing, slot |-> 0]
      BY <2>2 DEF NoWorker
    <3>3. worker' \in Worker /\ worker'.pc = "auto"
      BY <3>1, <3>2 DEF Worker
    <3> QED BY <2>2, <3>3
  <2> QED BY <2>1, <2>2 DEF MinutePasses, TickStep, TickReadsAuto, TickReadsRules, TickLaunches
<1>5. SchedulerTypeOK'
  BY <1>1, <1>3, <1>4 DEF SchedulerInv, SchedulerTypeOK, ruleVars
<1>6. WorkerOK'
  <2>1. CASE worker' = worker
    BY <1>1, <2>1 DEF SchedulerInv, WorkerOK, ruleVars
  <2>2. CASE worker'.pc = "auto"
    BY <2>2, WorkerAway
  <2> QED BY <1>4, <2>1, <2>2
<1> QED BY <1>2, <1>5, <1>6 DEF SchedulerInv

-----------------------------------------------------------------------------
\* The facts about a rule that the steps of the worker and of requests need.
LEMMA RuleFacts ==
  ASSUME SchedulerInv, NEW r \in Rules
  PROVE  /\ rules[r] \in Rule /\ saved.rules[r] \in Rule
         /\ rules[r].lastRun \in Nat /\ rules[r].created \in Nat /\ saved.rules[r].lastRun \in Nat
         /\ now \in Nat /\ earned[r] \in Nat /\ added[r] \in Nat
         /\ served[r] \subseteq Slots /\ served[r] \subseteq Nat
         /\ Past(r) /\ Agrees(r) /\ Behind(r)
<1>1. /\ now \in Nat /\ earned[r] \in Nat /\ added[r] \in Nat
      /\ served[r] \subseteq Slots /\ served[r] \subseteq Nat
  <2>1. served[r] \subseteq Slots
    BY DEF SchedulerInv, SchedulerTypeOK
  <2>2. now \in Instants /\ earned[r] \in Instants /\ added[r] \in Instants
    BY DEF SchedulerInv, SchedulerTypeOK
  <2>3. Slots \subseteq Nat /\ Instants \subseteq Nat
    BY SchedulerAssumption DEF Instants
  <2> QED BY <2>1, <2>2, <2>3
<1>2. rules[r] \in Rule /\ saved.rules[r] \in Rule
  BY DEF SchedulerInv, SchedulerTypeOK
<1>3. /\ rules[r].lastRun \in Nat /\ rules[r].created \in Nat
      /\ saved.rules[r].lastRun \in Nat
  BY <1>2, SchedulerAssumption DEF Rule, Instants
<1> QED BY <1>1, <1>2, <1>3 DEF SchedulerInv, RulesOK

\* The recheck: the slot of a due rule has come, after the rule was added, and no
\* completed report has served it.
LEMMA DueIsNew ==
  ASSUME SchedulerInv, NEW r \in Rules, Due(rules, r, now)
  PROVE  /\ Slot(now) \in Slots /\ Slot(now) <= now
         /\ Slot(now) \notin served[r] /\ Slot(now) > added[r]
<1>1. now \in Instants
  BY DEF SchedulerInv, SchedulerTypeOK
<1>2. Slot(now) \in 0..now /\ (Slot(now) = 0 \/ Slot(now) \in Slots)
  BY <1>1, SlotIsPast
<1>3. rules[r].present /\ Slot(now) > rules[r].created /\ rules[r].lastRun < Slot(now)
  BY DEF Due
<1>4. /\ rules[r].lastRun \in Nat /\ rules[r].created \in Nat /\ now \in Nat /\ added[r] \in Nat
      /\ served[r] \subseteq Nat /\ Behind(r)
  BY RuleFacts
<1>5. Slot(now) \in Slots
  BY <1>2, <1>3, <1>4
<1>6. added[r] <= rules[r].created
      /\ \A s \in served[r] : s <= rules[r].lastRun \/ s <= rules[r].created
  BY <1>3, <1>4 DEF Behind
<1> QED BY <1>2, <1>3, <1>4, <1>5, <1>6

\* Steps of the worker between reports.
LEMMA QuietWorkerKeepsInv ==
  ASSUME SchedulerInv,
         WorkerRechecksAuto \/ AutoRefused \/ AutoStarts \/ AutoFails \/ AutoCompletes \/ RuleRefused
  PROVE  SchedulerInv'
<1> USE DEF clock, scheduler, settings, history
<1>1. UNCHANGED <<clock, scheduler, rules, history>>
  BY DEF WorkerRechecksAuto, AutoRefused, AutoStarts, AutoFails, AutoCompletes, RuleRefused
<1>2. \E pc \in {"autoStarting", "autoReport", "rules"} : Continue(pc)
  BY DEF WorkerRechecksAuto, AutoRefused, AutoStarts, AutoFails, AutoCompletes, RuleRefused
<1>3. worker' \in Worker /\ worker'.pc \in {"autoStarting", "autoReport", "rules"}
  BY <1>2, ContinueTyped DEF SchedulerInv, SchedulerTypeOK
<1>4. working = TRUE
  BY DEF WorkerRechecksAuto, AutoRefused, AutoStarts, AutoFails, AutoCompletes, RuleRefused,
         SchedulerInv, SchedulerTypeOK
<1>5. cooling' \in BOOLEAN
  BY Zenon DEF WorkerRechecksAuto, AutoRefused, AutoStarts, AutoFails, AutoCompletes, RuleRefused,
         SchedulerInv, SchedulerTypeOK
<1>6. /\ auto' \in AutoScan /\ saved' \in [auto : AutoScan, rules : [Rules -> Rule]]
      /\ saved'.rules = saved.rules
  <2>0. auto \in AutoScan /\ saved \in [auto : AutoScan, rules : [Rules -> Rule]] /\ now \in Instants
    BY DEF SchedulerInv, SchedulerTypeOK
  <2>1. CASE AutoCompletes
    <3>1. auto' \in AutoScan
      BY <2>0, <2>1 DEF AutoCompletes, AutoScan
    <3> QED BY <2>0, <2>1, <3>1 DEF AutoCompletes
  <2>2. CASE UNCHANGED settings
    BY <2>0, <2>2
  <2> QED
    BY <2>1, <2>2 DEF WorkerRechecksAuto, AutoRefused, AutoStarts, AutoFails, RuleRefused
<1>7. SchedulerTypeOK'
  BY <1>1, <1>3, <1>4, <1>5, <1>6 DEF SchedulerInv, SchedulerTypeOK
<1>8. RulesOK'
  <2>1. now' \in Instants /\ now' >= now
    BY <1>1, SchedulerAssumption DEF SchedulerInv, SchedulerTypeOK, Instants
  <2> QED BY <1>1, <1>6, <2>1, RulesOKFrame DEF ruleVars
<1>9. WorkerOK'
  BY <1>3, WorkerAway
<1> QED BY <1>7, <1>8, <1>9 DEF SchedulerInv

\* The recheck of a queued rule, the start of its report, and the end of the worker.
LEMMA RuleWorkerKeepsInv ==
  ASSUME SchedulerInv, WorkerRechecksRule \/ RuleStarts \/ WorkerEnds
  PROVE  SchedulerInv'
<1> USE DEF clock, scheduler, settings, history
<1>1. UNCHANGED <<clock, minute, tick, settings, history>> /\ cooling' \in BOOLEAN
  BY Zenon DEF WorkerRechecksRule, RuleStarts, WorkerEnds, SchedulerInv, SchedulerTypeOK
<1>2. RulesOK'
  <2>1. now' \in Instants /\ now' >= now
    BY <1>1, SchedulerAssumption DEF SchedulerInv, SchedulerTypeOK, Instants
  <2> QED BY <1>1, <2>1, RulesOKFrame DEF ruleVars
<1>0. worker \in Worker /\ now \in Instants /\ 0 \in Instants
  BY SchedulerAssumption DEF SchedulerInv, SchedulerTypeOK, Instants
<1>3. /\ worker' \in Worker /\ working' \in BOOLEAN /\ (working' <=> worker'.pc # "idle")
      /\ WorkerOK'
  <2>1. CASE WorkerRechecksRule
    <3>1. PICK r \in worker.due :
            worker' = IF StillDue(r)
                      THEN [worker EXCEPT !.pc = "starting", !.due = @ \ {r}, !.rule = r,
                                          !.slot = Slot(now)]
                      ELSE [worker EXCEPT !.due = @ \ {r}]
      BY <2>1 DEF WorkerRechecksRule
    <3>2. r \in Rules /\ worker.due \ {r} \in SUBSET Rules /\ worker.auto \in BOOLEAN
      BY <1>0 DEF Worker
    <3>3. working' = TRUE /\ worker.pc = "rules"
      BY <2>1 DEF WorkerRechecksRule, SchedulerInv, SchedulerTypeOK
    <3>4. CASE StillDue(r)
      <4>1. /\ Slot(now) \in Slots /\ Slot(now) <= now /\ Slot(now) \notin served[r]
        BY <3>2, <3>4, DueIsNew DEF StillDue
      <4>2. Slot(now) \in Instants
        BY <1>0, <4>1, SchedulerAssumption DEF Instants
      <4>3. worker' = [pc |-> "starting", auto |-> worker.auto, due |-> worker.due \ {r},
                       rule |-> r, slot |-> Slot(now)]
        BY <1>0, <3>1, <3>4 DEF Worker
      <4>4. worker' \in Worker
        BY <3>2, <4>2, <4>3 DEF Worker
      <4>5. WorkerOK'
        BY <1>1, <3>2, <4>1, <4>3 DEF WorkerOK
      <4> QED BY <3>3, <4>3, <4>4, <4>5
    <3>5. CASE ~StillDue(r)
      <4>1. worker' \in Worker /\ worker'.pc = "rules"
        BY <1>0, <3>1, <3>2, <3>3, <3>5 DEF Worker
      <4> QED BY <3>3, <4>1, WorkerAway
    <3> QED BY <3>4, <3>5
  <2>2. CASE RuleStarts
    <3>1. /\ worker.pc = "starting" /\ worker' = [worker EXCEPT !.pc = "report"]
          /\ working' = TRUE
      BY <2>2 DEF RuleStarts, SchedulerInv, SchedulerTypeOK
    <3>2. worker' \in Worker /\ worker'.pc = "report"
          /\ worker'.rule = worker.rule /\ worker'.slot = worker.slot
      BY <1>0, <3>1 DEF Worker
    <3>3. WorkerOK'
      BY <1>1, <3>1, <3>2 DEF SchedulerInv, WorkerOK
    <3> QED BY <3>1, <3>2, <3>3
  <2>3. CASE WorkerEnds
    <3>1. worker' = NoWorker /\ working' = FALSE /\ NoWorker.pc = "idle"
      BY <2>3 DEF WorkerEnds, NoWorker
    <3>2. NoWorker \in Worker
      BY <1>0 DEF NoWorker, Worker
    <3> QED BY <3>1, <3>2, WorkerAway
  <2> QED BY <2>1, <2>2, <2>3
<1>4. SchedulerTypeOK'
  BY <1>1, <1>3 DEF SchedulerInv, SchedulerTypeOK
<1> QED BY <1>2, <1>3, <1>4 DEF SchedulerInv

\* The end of a report: the slot it served is behind the rule from now on.
LEMMA RuleEndsKeepsInv ==
  ASSUME SchedulerInv, RuleEnds
  PROVE  SchedulerInv'
<1> DEFINE w == worker.rule
<1> USE DEF clock, scheduler, history
<1>1. PICK completed \in BOOLEAN, written \in BOOLEAN :
        /\ rules' = Recorded(w, completed)
        /\ saved' = IF completed /\ written THEN [saved EXCEPT !.rules = rules'] ELSE saved
        /\ IF completed
           THEN /\ served' = [served EXCEPT ![w] = @ \union {worker.slot}]
                /\ earned' = [earned EXCEPT ![w] = now]
           ELSE UNCHANGED <<served, earned>>
  BY DEF RuleEnds
<1>2. worker.pc = "report" /\ Continue("rules") /\ UNCHANGED <<clock, scheduler, cooling, auto, added>>
  BY DEF RuleEnds
<1>3. w \in Rules /\ worker.slot \in Slots /\ worker.slot <= now
  BY <1>2 DEF SchedulerInv, WorkerOK
<1>4. worker' \in Worker /\ worker'.pc = "rules" /\ working = TRUE
  BY <1>2, ContinueTyped DEF SchedulerInv, SchedulerTypeOK
<1>5. /\ rules \in [Rules -> Rule] /\ saved \in [auto : AutoScan, rules : [Rules -> Rule]]
      /\ served \in [Rules -> SUBSET Slots] /\ earned \in [Rules -> Instants]
      /\ now \in Instants
  BY DEF SchedulerInv, SchedulerTypeOK
<1>6. rules' \in [Rules -> Rule]
  <2>1. [rules[w] EXCEPT !.lastRun = now] \in Rule
    BY <1>3, <1>5 DEF Rule
  <2> QED BY <1>1, <1>3, <1>5, <2>1 DEF Recorded
<1>7. saved' \in [auto : AutoScan, rules : [Rules -> Rule]]
  BY <1>1, <1>5, <1>6
<1>8. served' \in [Rules -> SUBSET Slots] /\ earned' \in [Rules -> Instants]
  BY <1>1, <1>3, <1>5
<1>9. SchedulerTypeOK'
  BY <1>2, <1>4, <1>6, <1>7, <1>8 DEF SchedulerInv, SchedulerTypeOK
<1>10. RulesOK'
  <2> SUFFICES ASSUME NEW r \in Rules PROVE (Past(r) /\ Agrees(r) /\ Behind(r))'
    BY DEF RulesOK
  <2>0. /\ rules[r].lastRun \in Nat /\ rules[r].created \in Nat /\ saved.rules[r].lastRun \in Nat
        /\ now \in Nat /\ earned[r] \in Nat /\ added[r] \in Nat /\ served[r] \subseteq Nat
        /\ Past(r) /\ Agrees(r) /\ Behind(r) /\ rules[r] \in Rule
    BY RuleFacts
  <2>1. worker.slot \in Nat
    BY <1>3, SchedulerAssumption
  <2>2. CASE ~completed \/ r # w
    <3>1. rules'[r] = rules[r] /\ served'[r] = served[r] /\ earned'[r] = earned[r]
      BY <1>1, <1>3, <1>5, <2>2 DEF Recorded
    <3>2. saved'.rules[r] = saved.rules[r] \/ saved'.rules[r] = rules[r]
      BY <1>1, <1>5, <3>1
    <3>3. Past(r)' /\ Behind(r)'
      BY <1>2, <2>0, <3>1 DEF Past, Behind
    <3>4. Agrees(r)'
      BY <2>0, <3>1, <3>2 DEF Agrees
    <3> QED BY <3>3, <3>4
  <2>3. CASE completed /\ r = w
    <3>1. served'[r] = served[r] \union {worker.slot} /\ earned'[r] = now
      BY <1>1, <1>3, <1>5, <2>3
    <3>2. /\ rules'[r].present = rules[r].present /\ rules'[r].enabled = rules[r].enabled
          /\ rules'[r].created = rules[r].created
          /\ IF rules[r].present THEN rules'[r].lastRun = now ELSE rules'[r] = rules[r]
      BY <1>1, <1>3, <1>5, <2>3 DEF Recorded, Rule
    <3>3. saved'.rules[r] = saved.rules[r] \/ saved'.rules[r] = rules'[r]
      BY <1>1, <1>5
    <3>4. rules'[r].lastRun >= rules[r].lastRun /\ rules'[r].lastRun <= now
          /\ rules'[r].lastRun \in Nat
      BY <2>0, <3>2 DEF Past
    <3>5. Past(r)'
      BY <1>2, <1>3, <2>0, <3>1, <3>2, <3>4 DEF Past
    <3>6. Behind(r)'
      BY <1>2, <1>3, <2>0, <2>1, <3>1, <3>2 DEF Past, Behind
    <3>7. Agrees(r)'
      BY <2>0, <3>2, <3>3, <3>4 DEF Agrees
    <3> QED BY <3>5, <3>6, <3>7
  <2> QED BY <2>2, <2>3
<1>11. WorkerOK'
  BY <1>4, WorkerAway
<1> QED BY <1>9, <1>10, <1>11 DEF SchedulerInv

\* A submitted form: what a present rule keeps, and what a new one starts with.
LEMMA SubmitFormKeepsInv ==
  ASSUME SchedulerInv, SubmitForm
  PROVE  SchedulerInv'
<1> USE DEF clock, scheduler, history
<1>1. PICK present \in SUBSET Rules, enabled \in SUBSET Rules :
        rules' = [r \in Rules |->
                    IF r \in present
                    THEN [present |-> TRUE, enabled |-> r \in enabled,
                          lastRun |-> IF rules[r].present THEN rules[r].lastRun ELSE 0,
                          created |-> IF rules[r].present THEN rules[r].created ELSE now]
                    ELSE NoRule]
  BY Zenon DEF SubmitForm, LastRun, Creation
<1>2. /\ saved' = [saved EXCEPT !.rules = rules']
      /\ added' = [r \in Rules |-> IF rules'[r].present /\ ~rules[r].present THEN now ELSE added[r]]
      /\ UNCHANGED <<clock, scheduler, worker, cooling, auto, served, earned>>
  BY DEF SubmitForm
<1>3. /\ saved \in [auto : AutoScan, rules : [Rules -> Rule]] /\ now \in Instants
      /\ added \in [Rules -> Instants] /\ 0 \in Instants
  BY SchedulerAssumption DEF SchedulerInv, SchedulerTypeOK, Instants
<1>4. rules' \in [Rules -> Rule]
  <2> SUFFICES ASSUME NEW r \in Rules PROVE rules'[r] \in Rule
    BY <1>1
  <2>1. rules[r] \in Rule
    BY RuleFacts
  <2>2. CASE r \in present
    <3>1. (r \in enabled) \in BOOLEAN
      OBVIOUS
    <3>2. /\ (IF rules[r].present THEN rules[r].lastRun ELSE 0) \in Instants
          /\ (IF rules[r].present THEN rules[r].created ELSE now) \in Instants
      BY <1>3, <2>1 DEF Rule
    <3> QED BY <1>1, <2>2, <3>1, <3>2 DEF Rule
  <2>3. CASE r \notin present
    BY <1>1, <1>3, <2>3 DEF NoRule, Rule
  <2> QED BY <2>2, <2>3
<1>5. saved' \in [auto : AutoScan, rules : [Rules -> Rule]] /\ added' \in [Rules -> Instants]
  BY <1>2, <1>3, <1>4
<1>6. SchedulerTypeOK'
  BY <1>2, <1>4, <1>5 DEF SchedulerInv, SchedulerTypeOK
<1>7. RulesOK'
  <2> SUFFICES ASSUME NEW r \in Rules PROVE (Past(r) /\ Agrees(r) /\ Behind(r))'
    BY DEF RulesOK
  <2>0. /\ rules[r].lastRun \in Nat /\ rules[r].created \in Nat
        /\ now \in Nat /\ earned[r] \in Nat /\ added[r] \in Nat /\ served[r] \subseteq Nat
        /\ Past(r) /\ Behind(r)
    BY RuleFacts
  <2>1. saved'.rules[r] = rules'[r] /\ rules'[r].lastRun \in Nat
    <3>1. rules'[r].lastRun \in Nat
      BY <1>4, SchedulerAssumption DEF Rule, Instants
    <3> QED BY <1>2, <1>3, <3>1
  <2>2. Agrees(r)'
    BY <2>1 DEF Agrees
  <2>3. CASE r \in present /\ rules[r].present
    <3>1. rules'[r].lastRun = rules[r].lastRun /\ rules'[r].created = rules[r].created
          /\ added'[r] = added[r]
      BY <1>1, <1>2, <2>3
    <3> QED BY <1>2, <2>0, <2>2, <2>3, <3>1 DEF Past, Behind
  <2>4. CASE r \in present /\ ~rules[r].present
    <3>1. rules'[r].lastRun = 0 /\ rules'[r].created = now /\ rules'[r].present /\ added'[r] = now
      BY <1>1, <1>2, <2>4
    <3> QED BY <1>2, <2>0, <2>2, <3>1 DEF Past, Behind
  <2>5. CASE r \notin present
    <3>1. rules'[r].lastRun = 0 /\ rules'[r].created = 0 /\ ~rules'[r].present
      BY <1>1, <2>5 DEF NoRule
    <3> QED BY <1>2, <2>0, <2>2, <3>1 DEF Past, Behind
  <2> QED BY <2>3, <2>4, <2>5
<1>8. WorkerOK'
  BY <1>2 DEF SchedulerInv, WorkerOK
<1> QED BY <1>6, <1>7, <1>8 DEF SchedulerInv

\* A restart: the rules on disk agree with those in memory but for progress not saved.
LEMMA RestartsKeepsInv ==
  ASSUME SchedulerInv, Restarts
  PROVE  SchedulerInv'
<1>1. /\ restarts' = restarts + 1 /\ restarts < MaxRestarts
      /\ startedAt' = now /\ minute' = TRUE /\ tick' = NoTick
      /\ working' = FALSE /\ worker' = NoWorker /\ cooling' = FALSE
      /\ auto' = saved.auto /\ rules' = saved.rules
      /\ served' = [r \in Rules |-> {s \in served[r] : s <= saved.rules[r].lastRun}]
      /\ earned' = [r \in Rules |-> saved.rules[r].lastRun]
      /\ UNCHANGED <<now, saved, added>>
  BY DEF Restarts
<1>2. SchedulerTypeOK'
  <2>1. /\ saved \in [auto : AutoScan, rules : [Rules -> Rule]] /\ now \in Instants
        /\ added \in [Rules -> Instants] /\ served \in [Rules -> SUBSET Slots]
        /\ 0 \in Instants /\ restarts \in 0..MaxRestarts
    BY SchedulerAssumption DEF SchedulerInv, SchedulerTypeOK, Instants
  <2>2. now' \in Instants /\ startedAt' \in 0..now' /\ restarts' \in 0..MaxRestarts
    BY <1>1, <2>1, SchedulerAssumption DEF Instants
  <2>3. minute' \in BOOLEAN /\ working' \in BOOLEAN /\ cooling' \in BOOLEAN
    BY <1>1, Zenon
  <2>4. tick' \in Tick /\ worker' \in Worker /\ (working' <=> worker'.pc # "idle")
    BY <1>1, <2>1 DEF NoTick, Tick, NoWorker, Worker
  <2>5. /\ auto' \in AutoScan /\ rules' \in [Rules -> Rule]
        /\ saved' \in [auto : AutoScan, rules : [Rules -> Rule]]
        /\ added' \in [Rules -> Instants]
    BY <1>1, <2>1
  <2>6. served' \in [Rules -> SUBSET Slots] /\ earned' \in [Rules -> Instants]
    <3>1. \A r \in Rules : saved.rules[r].lastRun \in Instants
      BY <2>1 DEF Rule
    <3> QED BY <1>1, <2>1, <3>1
  <2> QED BY <2>2, <2>3, <2>4, <2>5, <2>6 DEF SchedulerTypeOK
<1>3. RulesOK'
  <2> SUFFICES ASSUME NEW r \in Rules PROVE (Past(r) /\ Agrees(r) /\ Behind(r))'
    BY DEF RulesOK
  <2>0. /\ rules[r].lastRun \in Nat /\ rules[r].created \in Nat /\ saved.rules[r].lastRun \in Nat
        /\ now \in Nat /\ earned[r] \in Nat /\ added[r] \in Nat /\ served[r] \subseteq Nat
        /\ Past(r) /\ Agrees(r) /\ Behind(r)
    BY RuleFacts
  <2>1. served'[r] = {s \in served[r] : s <= saved.rules[r].lastRun}
        /\ earned'[r] = saved.rules[r].lastRun
    BY <1>1
  <2>2. Past(r)'
    BY <1>1, <2>0, <2>1 DEF Past, Agrees
  <2>3. Behind(r)'
    BY <1>1, <2>0, <2>1 DEF Behind, Agrees
  <2>4. Agrees(r)'
    BY <1>1, <2>0 DEF Agrees
  <2> QED BY <2>2, <2>3, <2>4
<1>4. WorkerOK'
  BY <1>1, WorkerAway DEF NoWorker
<1> QED BY <1>2, <1>3, <1>4 DEF SchedulerInv

\* The remaining steps.
LEMMA OthersKeepInv ==
  ASSUME SchedulerInv, UpdateAutoScan \/ TimePasses \/ CooldownEnds \/ UNCHANGED vars
  PROVE  SchedulerInv'
<1> USE DEF vars, clock, scheduler, settings, history
<1>1. UNCHANGED <<startedAt, restarts, scheduler, worker, rules, history>>
  BY DEF UpdateAutoScan, TimePasses, CooldownEnds
<1>2. /\ now' \in Instants /\ now' >= now /\ startedAt' \in 0..now'
  <2>1. now \in Instants /\ startedAt \in 0..now
    BY DEF SchedulerInv, SchedulerTypeOK
  <2>2. now' = now \/ (now < MaxTime /\ now' = now + 1)
    BY DEF UpdateAutoScan, TimePasses, CooldownEnds
  <2> QED BY <1>1, <2>1, <2>2, SchedulerAssumption DEF Instants
<1>3. cooling' \in BOOLEAN
  BY Zenon DEF UpdateAutoScan, TimePasses, CooldownEnds, SchedulerInv, SchedulerTypeOK
<1>4. /\ auto' \in AutoScan /\ saved' \in [auto : AutoScan, rules : [Rules -> Rule]]
      /\ saved'.rules = saved.rules
  <2>0. auto \in AutoScan /\ saved \in [auto : AutoScan, rules : [Rules -> Rule]]
    BY DEF SchedulerInv, SchedulerTypeOK
  <2>1. CASE UpdateAutoScan
    <3>1. auto' \in AutoScan
      BY <2>0, <2>1 DEF UpdateAutoScan, AutoScan
    <3> QED BY <2>0, <2>1, <3>1 DEF UpdateAutoScan
  <2>2. CASE UNCHANGED settings
    BY <2>0, <2>2
  <2> QED BY <2>1, <2>2 DEF TimePasses, CooldownEnds
<1>5. SchedulerTypeOK'
  BY <1>1, <1>2, <1>3, <1>4 DEF SchedulerInv, SchedulerTypeOK
<1>6. RulesOK'
  BY <1>1, <1>2, <1>4, RulesOKFrame DEF ruleVars
<1>7. WorkerOK'
  <2>1. now \in Int /\ now' \in Int /\ Slots \subseteq Int
    BY <1>2, SchedulerAssumption DEF SchedulerInv, SchedulerTypeOK, Instants
  <2>2. worker' = worker /\ served' = served
    BY <1>1
  <2> SUFFICES ASSUME worker.pc \in {"starting", "report"}
               PROVE  /\ worker.rule \in Rules /\ worker.slot \in Slots /\ worker.slot <= now'
                      /\ worker.slot \notin served[worker.rule]
    BY <2>2 DEF WorkerOK
  <2>3. /\ worker.rule \in Rules /\ worker.slot \in Slots /\ worker.slot <= now
        /\ worker.slot \notin served[worker.rule]
    BY DEF SchedulerInv, WorkerOK
  <2>4. worker.slot \in Int /\ now' >= now
    BY <1>2, <2>1, <2>3
  <2>5. worker.slot <= now'
    BY <2>1, <2>3, <2>4
  <2> QED BY <2>3, <2>5
<1> QED BY <1>5, <1>6, <1>7 DEF SchedulerInv

LEMMA NextKeepsInv == SchedulerInv /\ [Next]_vars => SchedulerInv'
<1> SUFFICES ASSUME SchedulerInv, [Next]_vars PROVE SchedulerInv'
  OBVIOUS
<1>1. CASE MinutePasses \/ TickStep
  BY <1>1, TickKeepsInv
<1>2. CASE WorkerStep
  BY <1>2, QuietWorkerKeepsInv, RuleWorkerKeepsInv, RuleEndsKeepsInv DEF WorkerStep
<1>3. CASE SubmitForm
  BY <1>3, SubmitFormKeepsInv
<1>4. CASE Restarts
  BY <1>4, RestartsKeepsInv
<1>5. CASE UpdateAutoScan \/ TimePasses \/ CooldownEnds \/ UNCHANGED vars
  BY <1>5, OthersKeepInv
<1> QED BY <1>1, <1>2, <1>3, <1>4, <1>5 DEF Next

\* The invariant holds of every behaviour.
LEMMA InvHolds == Spec => []SchedulerInv
<1> QED BY InitInv, NextKeepsInv, PTL DEF Spec

-----------------------------------------------------------------------------
\* auto_scan_loop and run_due_work: every field keeps its type, and worker_running is set
\* exactly while the worker is at work.
THEOREM SchedulerTypeCorrect == Spec => []SchedulerTypeOK
<1>1. SchedulerInv => SchedulerTypeOK
  BY DEF SchedulerInv
<1> QED BY <1>1, InvHolds, PTL

\* run_due_work, get_due_auto_monitor_rules: no slot is reported twice, for any number of
\* rules queued, edited, removed and added again, and any number of restarts.
THEOREM NoDuplicateReports == Spec => []SlotsRunOnce
<1>1. SchedulerInv => SlotsRunOnce
  BY DEF SchedulerInv, WorkerOK, SlotsRunOnce
<1> QED BY <1>1, InvHolds, PTL

\* get_due_auto_monitor_rules: what no completed report has served is still due.
THEOREM FailedReportsAreRetried == Spec => []UnservedSlotsStayDue
<1>1. SchedulerInv => UnservedSlotsStayDue
  <2> SUFFICES ASSUME SchedulerInv, NEW r \in Rules,
                      rules[r].present, rules[r].enabled, Warm(now),
                      Slot(now) > rules[r].created, earned[r] < Slot(now)
               PROVE  Due(rules, r, now)
    BY DEF UnservedSlotsStayDue
  <2>1. now \in Instants
    BY DEF SchedulerInv, SchedulerTypeOK
  <2>2. Slot(now) \in 0..now
    BY <2>1, SlotIsPast
  <2>3. rules[r].lastRun \in Nat /\ earned[r] \in Nat /\ rules[r].lastRun <= earned[r]
    BY RuleFacts DEF Past
  <2> QED BY <2>2, <2>3 DEF Due
<1> QED BY <1>1, InvHolds, PTL

\* preserve_auto_monitor_progress and execute_auto_monitor_rule: last_run never goes back
\* while the rule and the process live.
THEOREM ProgressIsServerOwned == Spec => ProgressIsKept
<1> DEFINE Kept == restarts' = restarts =>
       \A r \in Rules :
         /\ rules[r].present /\ rules'[r].present => rules'[r].lastRun >= rules[r].lastRun
         /\ saved.rules[r].present /\ saved'.rules[r].present =>
              saved'.rules[r].lastRun >= saved.rules[r].lastRun
<1>1. SchedulerInv /\ [Next]_vars => [Kept]_vars
  <2> SUFFICES ASSUME SchedulerInv, Next, restarts' = restarts, NEW r \in Rules
               PROVE  /\ rules[r].present /\ rules'[r].present =>
                           rules'[r].lastRun >= rules[r].lastRun
                      /\ saved.rules[r].present /\ saved'.rules[r].present =>
                           saved'.rules[r].lastRun >= saved.rules[r].lastRun
    OBVIOUS
  <2>0. /\ rules[r].lastRun \in Nat /\ saved.rules[r].lastRun \in Nat /\ now \in Nat
        /\ rules[r].lastRun <= now /\ Agrees(r)
    BY RuleFacts DEF Past
  <2>1. rules \in [Rules -> Rule] /\ saved \in [auto : AutoScan, rules : [Rules -> Rule]]
        /\ restarts \in Nat
    BY SchedulerAssumption DEF SchedulerInv, SchedulerTypeOK
  <2>2. CASE SubmitForm
    <3>1. rules'[r].present => rules'[r] = NoRule \/ rules'[r].lastRun = LastRun(r, 0)
      BY <2>2 DEF SubmitForm, LastRun
    <3>2. rules[r].present /\ rules'[r].present => rules'[r].lastRun = rules[r].lastRun
      BY <3>1 DEF NoRule, LastRun
    <3>3. saved'.rules[r] = rules'[r]
      BY <2>1, <2>2 DEF SubmitForm
    <3> QED BY <2>0, <3>2, <3>3 DEF Agrees
  <2>3. CASE RuleEnds
    <3>1. PICK completed \in BOOLEAN, written \in BOOLEAN :
            /\ rules' = Recorded(worker.rule, completed)
            /\ saved' = IF completed /\ written THEN [saved EXCEPT !.rules = rules'] ELSE saved
      BY <2>3 DEF RuleEnds
    <3>2. rules'[r] = rules[r] \/ rules'[r].lastRun = now
      BY <2>1, <3>1 DEF Recorded, Rule
    <3>3. saved'.rules[r] = saved.rules[r] \/ saved'.rules[r] = rules'[r]
      BY <2>1, <3>1
    <3> QED BY <2>0, <3>2, <3>3 DEF Agrees
  <2>4. CASE Restarts
    BY <2>1, <2>4 DEF Restarts
  <2>5. CASE UNCHANGED rules /\ saved'.rules = saved.rules
    BY <2>0, <2>5
  <2>6. CASE AutoCompletes \/ UpdateAutoScan
    <3>1. UNCHANGED rules /\ saved'.rules = saved.rules
      BY <2>1, <2>6 DEF AutoCompletes, UpdateAutoScan
    <3> QED BY <2>5, <3>1
  <2>7. \/ SubmitForm \/ RuleEnds \/ Restarts \/ AutoCompletes \/ UpdateAutoScan
        \/ UNCHANGED settings
    BY DEF Next, MinutePasses, TickStep, TickReadsAuto, TickReadsRules, TickLaunches, WorkerStep,
           WorkerRechecksAuto, AutoRefused, AutoStarts, AutoFails, WorkerRechecksRule, RuleRefused,
           RuleStarts, WorkerEnds, TimePasses, CooldownEnds
  <2> QED BY <2>2, <2>3, <2>4, <2>5, <2>6, <2>7 DEF settings
<1>2. Spec => [][Kept]_vars
  BY <1>1, InvHolds, PTL DEF Spec
<1> QED BY <1>2 DEF ProgressIsKept

\* get_previous_auto_monitor_run: the slot a report starts for lies after the moment its
\* rule was added.
THEOREM NoCatchUpBeforeCreation == Spec => NewRulesDoNotCatchUp
<1> DEFINE Later == worker.pc = "rules" /\ worker'.pc = "starting" =>
                      worker'.slot > added[worker'.rule]
<1>1. SchedulerInv /\ [Next]_vars => [Later]_vars
  <2> SUFFICES ASSUME SchedulerInv, Next, worker.pc = "rules", worker'.pc = "starting"
               PROVE  worker'.slot > added[worker'.rule]
    OBVIOUS
  <2>1. worker \in Worker
    BY DEF SchedulerInv, SchedulerTypeOK
  <2>2. WorkerRechecksRule
    <3>1. ~WorkerEnds /\ ~Restarts /\ ~TickLaunches
      <4>1. worker' # worker /\ worker' # NoWorker
        BY DEF NoWorker
      <4>2. worker' # [NoWorker EXCEPT !.pc = "auto", !.auto = tick.auto, !.due = tick.due]
        BY DEF NoWorker
      <4> QED BY <4>1, <4>2 DEF WorkerEnds, Restarts, TickLaunches
    <3>2. worker' # worker
      OBVIOUS
    <3> QED
      BY <3>1, <3>2 DEF Next, TickStep, WorkerStep, MinutePasses, TickReadsAuto, TickReadsRules,
         WorkerRechecksAuto, AutoRefused, AutoStarts, AutoFails, AutoCompletes, RuleRefused,
         RuleStarts, RuleEnds, UpdateAutoScan, SubmitForm, TimePasses, CooldownEnds
  <2>3. PICK r \in worker.due :
          worker' = IF StillDue(r)
                    THEN [worker EXCEPT !.pc = "starting", !.due = @ \ {r}, !.rule = r,
                                        !.slot = Slot(now)]
                    ELSE [worker EXCEPT !.due = @ \ {r}]
    BY <2>2 DEF WorkerRechecksRule
  <2>4. r \in Rules
    BY <2>1 DEF Worker
  <2>5. StillDue(r)
    BY <2>1, <2>3 DEF Worker
  <2>6. worker'.slot = Slot(now) /\ worker'.rule = r
    BY <2>1, <2>3, <2>5 DEF Worker
  <2> QED BY <2>4, <2>5, <2>6, DueIsNew DEF StillDue
<1>2. Spec => [][Later]_vars
  BY <1>1, InvHolds, PTL DEF Spec
<1> QED BY <1>2 DEF NewRulesDoNotCatchUp
=============================================================================
