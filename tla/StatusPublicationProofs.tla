------------------------ MODULE StatusPublicationProofs ------------------------
(***************************************************************************)
(* Proofs about what clients are told, for every set of clients, every     *)
(* number of runs and every bound on their records.                        *)
(*                                                                         *)
(* A status never goes back: only the holder of status_publication_lock    *)
(* tells anybody anything, so between its look at the registry and its     *)
(* send nobody is told something newer; and the registry itself never goes *)
(* back, because a run is admitted after every run anybody was told of.    *)
(*                                                                         *)
(* A working run is broadcast: the first publication of its start makes    *)
(* the owner's slot its own, and while it is at work everybody who is      *)
(* inside the section read that very run, so nobody opens the slot for     *)
(* another or ends it.  Then every event is recorded and reaches whoever   *)
(* is subscribed, and everybody connected is subscribed to the open slot   *)
(* or is still connecting, under the lock.                                 *)
(*                                                                         *)
(* Tabs converge: whenever a client is behind an active job's record,      *)
(* or believes in one that ended, a publication that will tell it waits,   *)
(* is inside the section, or the client is still connecting.               *)
(***************************************************************************)
EXTENDS StatusPublication, SequenceTheorems, TLAPS

\* The types of what the argument reads: of a task its owner and how far it is, of a
\* connecting client how far it is, and nothing of the broadcaster.  A task and a
\* publication at work have an owner.
Holds(records, domain, fields) ==
  \A x \in domain : x \in DOMAIN records /\ fields \subseteq DOMAIN records[x]

RecordsOK ==
  /\ job \in [Owners -> Job]
  /\ Holds(task, Runs, {"owner", "pc"})
  /\ pub \in [Threads -> Pub]
  /\ last \in [Tabs -> [Owners -> Status]]
  /\ \A r \in Runs : task[r].pc # "none" => OwnerOf(r) \in Owners
  /\ \A th \in Threads : pub[th].pc # "idle" => pub[th].owner \in Owners
  /\ Holds(conn, Tabs, {"pc"})

\* Nobody has heard of a run that was not admitted.
Admitted(run) == run = 0 \/ task[run].pc # "none"

RunsAreAdmitted ==
  /\ \A r \in Runs : task[r].pc # "none" => \A q \in 1..(r - 1) : task[q].pc # "none"
  /\ \A o \in Owners : Admitted(job[o].run)
  /\ \A th \in Threads : Admitted(pub[th].snap.run)
  /\ \A t \in Tabs, o \in Owners : Admitted(last[t][o].run)

\* Serialized threads and connecting clients hold the publication lock.
Serialized(th) == pub[th].pc \in {"judging", "reopening", "sending"}
Connecting(t) ==
  conn[t].pc \in {"registered", "looked", "ending", "copying", "joining", "replaying"}

SectionsExclude ==
  /\ \A th \in Threads : Serialized(th) => lock = th
  /\ \A t \in Tabs : Connecting(t) => lock = t

\* The registry is not behind what a client was told, nor behind what the thread in
\* the section read, and that is not behind what a client was told.
RegistryIsAhead ==
  \A o \in Owners :
    /\ \A t \in Tabs : NotOlder(Snapshot(o), last[t][o])
    /\ \A th \in Threads :
         Serialized(th) /\ pub[th].owner = o =>
           /\ NotOlder(Snapshot(o), pub[th].snap)
           /\ \A t \in Tabs : NotOlder(pub[th].snap, last[t][o])

OrderInv == RecordsOK /\ RunsAreAdmitted /\ SectionsExclude /\ RegistryIsAhead

\* What a step may tell a client: nothing older than what it was told before.
Forward == \A t \in Tabs, o \in Owners : NotOlder(last'[t][o], last[t][o])

\* How the record of an owner changes: it is gone, it ages, or it is of a new run.
JobMoves(o) ==
  \/ job'[o].run = 0
  \/ job'[o].run = job[o].run /\ job'[o].version >= job[o].version
  \/ job'[o].run \in Runs /\ task[job'[o].run].pc = "none"

-----------------------------------------------------------------------------
LEMMA Constants ==
  /\ MaxRuns \in Nat /\ MaxVersion \in Nat /\ MaxEvents \in Nat
  /\ Runs \subseteq Nat \ {0} /\ 0 \in Threads /\ Runs \subseteq Threads /\ Owners \subseteq Tabs
  /\ Free \notin Owners /\ Free \notin Tabs /\ Free \notin Threads
  /\ Tabs \intersect Threads = {}
  /\ 1 \in 0..MaxVersion /\ 0 \in 0..MaxVersion /\ MaxVersion \in 0..MaxVersion
  /\ 0 \in 0..MaxEvents /\ Handler = 0
  /\ NoJob \in Job /\ NoTask \in Task /\ Idle \in Status /\ NotPublishing \in Pub
<1>1. /\ MaxRuns \in Nat /\ MaxVersion \in Nat /\ MaxEvents \in Nat
      /\ Runs \subseteq Nat \ {0} /\ 0 \in Threads /\ Runs \subseteq Threads
      /\ 1 \in 0..MaxVersion /\ 0 \in 0..MaxVersion /\ MaxVersion \in 0..MaxVersion
      /\ 0 \in 0..MaxEvents /\ Handler = 0
  BY PublicationAssumption DEF Runs, Threads, Handler
<1>2. Owners \subseteq Tabs /\ Free \notin Owners /\ Free \notin Tabs /\ Tabs \intersect Threads = {}
  BY PublicationAssumption DEF Tabs
<1>3. Free \notin Threads
  BY PublicationAssumption DEF Threads, Runs, Free, Handler
<1>4. NoJob \in Job /\ NoTask \in Task /\ Idle \in Status
  BY <1>1 DEF NoJob, Job, NoTask, Task, TaskPCs, Idle, Status
<1>5. NotPublishing \in Pub
  BY <1>4 DEF NotPublishing, Pub, PubPCs
<1>. QED
  BY <1>1, <1>2, <1>3, <1>4, <1>5

LEMMA NotOlderThanItself ==
  ASSUME NEW s \in Status
  PROVE  NotOlder(s, s)
BY Constants DEF NotOlder, Status

LEMMA SnapshotIsTyped ==
  ASSUME RecordsOK, NEW o \in Owners
  PROVE  /\ Snapshot(o) \in Status
         /\ Snapshot(o).run \in Nat /\ Snapshot(o).version \in Nat
<1>1. Snapshot(o) \in Status
  BY DEF RecordsOK, Snapshot, Status, Job
<1>2. job[o].run \in {0} \union Runs /\ job[o].version \in 0..MaxVersion
  BY DEF RecordsOK, Job
<1>3. Snapshot(o).run = job[o].run /\ Snapshot(o).version = job[o].version
  BY DEF Snapshot
<1>4. (\A r \in Runs : r \in Nat) /\ MaxVersion \in Nat
  BY Constants
<1>5. job[o].run \in Nat /\ job[o].version \in Nat
  BY <1>2, <1>4
<1>. QED
  BY <1>1, <1>3, <1>5

\* Whatever a client was told of a record stays behind it when the record changes: a
\* new run was admitted by nobody, and those before it were.
LEMMA AheadStays ==
  ASSUME RecordsOK, RunsAreAdmitted, NEW o \in Owners, JobMoves(o), job' \in [Owners -> Job],
         NEW b \in Status, Admitted(b.run), NotOlder(Snapshot(o), b)
  PROVE  NotOlder(Snapshot(o)', b)
<1>. /\ b.run \in {0} \union Runs /\ b.version \in Nat
     /\ job[o].run \in {0} \union Runs /\ job[o].version \in Nat
     /\ job'[o].run \in {0} \union Runs /\ job'[o].version \in Nat
     /\ \A r \in Runs : r \in Nat /\ r > 0
  BY Constants DEF Status, Job, RecordsOK
<1>1. CASE job'[o].run = 0
  BY <1>1 DEF NotOlder, Snapshot
<1>2. CASE job'[o].run = job[o].run /\ job'[o].version >= job[o].version
  BY <1>2 DEF NotOlder, Snapshot
<1>3. CASE job'[o].run \in Runs /\ task[job'[o].run].pc = "none"
  <2>1. CASE b.run = 0
    BY <1>3, <2>1 DEF NotOlder, Snapshot
  <2>2. CASE b.run # 0
    <3>1. b.run \in Runs /\ task[b.run].pc # "none"
      BY <2>2 DEF Admitted
    <3>2. job'[o].run \notin 1..(b.run - 1)
      BY <1>3, <3>1 DEF RunsAreAdmitted
    <3>3. job'[o].run > b.run
      BY <1>3, <3>1, <3>2
    <3>. QED
      BY <3>3 DEF NotOlder, Snapshot
  <2>. QED
    BY <2>1, <2>2
<1>. QED
  BY <1>1, <1>2, <1>3 DEF JobMoves

\* A step that tells nobody anything and enters the section with nothing keeps the
\* registry ahead.
LEMMA UntoldKeeps ==
  ASSUME OrderInv, job' \in [Owners -> Job], last' = last, \A o \in Owners : JobMoves(o),
         \A th \in Threads : Serialized(th)' =>
            /\ Serialized(th)
            /\ pub'[th].snap = pub[th].snap /\ pub'[th].owner = pub[th].owner
  PROVE  RegistryIsAhead' /\ Forward
<1>. USE DEF OrderInv
<1>1. \A t \in Tabs, o \in Owners : last[t][o] \in Status /\ Admitted(last[t][o].run)
  BY DEF RecordsOK, RunsAreAdmitted
<1>2. \A th \in Threads : pub[th].snap \in Status /\ Admitted(pub[th].snap.run)
  BY DEF RecordsOK, RunsAreAdmitted, Pub
<1>3. \A t \in Tabs, o \in Owners : NotOlder(Snapshot(o)', last[t][o])
  BY <1>1, AheadStays DEF RegistryIsAhead
<1>4. ASSUME NEW o \in Owners, NEW th \in Threads, Serialized(th)', pub'[th].owner = o
      PROVE  /\ NotOlder(Snapshot(o)', pub'[th].snap)
             /\ \A t \in Tabs : NotOlder(pub'[th].snap, last[t][o])
  BY <1>2, <1>4, AheadStays DEF RegistryIsAhead
<1>5. RegistryIsAhead'
  BY <1>3, <1>4 DEF RegistryIsAhead
<1>6. Forward
  BY <1>1, NotOlderThanItself DEF Forward
<1>. QED
  BY <1>5, <1>6

\* A step of the holder of the lock, other than a publishing thread, that tells some
\* clients what the registry holds, or that there is nothing.
LEMMA ToldKeeps ==
  ASSUME OrderInv, job' = job, task' = task, pub' = pub,
         \A th \in Threads : ~Serialized(th),
         last' \in [Tabs -> [Owners -> Status]],
         \A t \in Tabs, o \in Owners : last'[t][o] \in {last[t][o], Snapshot(o), Idle}
  PROVE  RunsAreAdmitted' /\ RegistryIsAhead' /\ Forward
<1>. USE DEF OrderInv
<1>1. \A o \in Owners : Snapshot(o) \in Status /\ Admitted(Snapshot(o).run) /\ Admitted(Idle.run)
  BY SnapshotIsTyped DEF RunsAreAdmitted, Snapshot, Idle, Admitted
<1>2. RunsAreAdmitted'
  BY <1>1 DEF RunsAreAdmitted, Admitted
<1>3. ASSUME NEW t \in Tabs, NEW o \in Owners
      PROVE  NotOlder(Snapshot(o), last'[t][o]) /\ NotOlder(last'[t][o], last[t][o])
  <2>1. CASE last'[t][o] = last[t][o]
    BY <2>1, NotOlderThanItself DEF RegistryIsAhead, RecordsOK
  <2>2. CASE last'[t][o] = Snapshot(o)
    BY <2>2, <1>1, NotOlderThanItself DEF RegistryIsAhead
  <2>3. CASE last'[t][o] = Idle
    <3>1. Snapshot(o).run \in Nat /\ Snapshot(o).version \in Nat
      BY SnapshotIsTyped
    <3>2. Idle.run = 0 /\ Idle.version = 0
      BY DEF Idle
    <3>. QED
      BY <2>3, <3>1, <3>2 DEF NotOlder
  <2>. QED
    BY <2>1, <2>2, <2>3
<1>4. RegistryIsAhead'
  BY <1>3 DEF RegistryIsAhead, Serialized, Snapshot
<1>5. Forward
  BY <1>3 DEF Forward
<1>. QED
  BY <1>2, <1>4, <1>5

\* Telling one owner's status changes nothing else.
LEMMA TellTells ==
  ASSUME RecordsOK, NEW ts, NEW o, NEW s \in Status, Tell(ts, o, s)
  PROVE  /\ last' \in [Tabs -> [Owners -> Status]]
         /\ \A t \in Tabs, x \in Owners :
              last'[t][x] = IF t \in ts /\ x = o THEN s ELSE last[t][x]
BY DEF Tell, RecordsOK

-----------------------------------------------------------------------------
LEMMA InitOrder == Init => OrderInv
<1>. SUFFICES ASSUME Init PROVE OrderInv
  OBVIOUS
<1>1. RecordsOK
  <2>1. /\ job \in [Owners -> Job] /\ pub \in [Threads -> Pub]
        /\ last \in [Tabs -> [Owners -> Status]]
    BY Constants DEF Init
  <2>2. Holds(task, Runs, {"owner", "pc"}) /\ \A r \in Runs : task[r].pc = "none"
    BY DEF Init, NoTask, Holds
  <2>3. \A th \in Threads : pub[th].pc = "idle"
    BY DEF Init, NotPublishing
  <2>4. Holds(conn, Tabs, {"pc"})
    BY DEF Init, NotConnected, Holds
  <2>. QED
    BY <2>1, <2>2, <2>3, <2>4 DEF RecordsOK
<1>2. RunsAreAdmitted
  BY DEF RunsAreAdmitted, Admitted, Init, NoTask, NoJob, NotPublishing, Idle
<1>3. SectionsExclude
  BY DEF SectionsExclude, Serialized, Connecting, Init, NotPublishing, NotConnected
<1>4. RegistryIsAhead
  BY DEF RegistryIsAhead, Serialized, NotOlder, Snapshot, Init, NotPublishing, NoJob
<1>. QED
  BY <1>1, <1>2, <1>3, <1>4 DEF OrderInv

\* A thread enters the section with the registry's record and leaves it by telling it.
LEMMA PublishKeeps ==
  ASSUME OrderInv, NEW th \in Threads, PublishStep(th)
  PROVE  OrderInv' /\ Forward
<1>. USE Constants DEF OrderInv
<1>0. pub[th].pc # "idle" /\ pub[th].owner \in Owners
  BY DEF PublishStep, PublishReads, PublishJudges, PublishReopens, PublishSends, RecordsOK
<1>. DEFINE o == pub[th].owner
<1>1. CASE PublishReads(th)
  <2>. USE <1>1 DEF PublishReads, registry, received, clients
  <2>0. /\ Snapshot(o) \in Status /\ job' = job /\ last' = last /\ task' = task
        /\ lock = Free /\ lock' = th /\ conn' = conn
    BY <1>0, SnapshotIsTyped DEF MayEnter
  <2>1. pub' = [pub EXCEPT ![th] = [pub[th] EXCEPT !.snap = Snapshot(o),
                  !.pc = IF Snapshot(o).run = 0 THEN "sending" ELSE "judging"]]
    BY DEF RecordsOK, Pub
  <2>2. /\ pub' \in [Threads -> Pub]
        /\ \A x \in Threads : x # th => pub'[x] = pub[x]
        /\ pub'[th].snap = Snapshot(o) /\ pub'[th].owner = o
        /\ pub'[th].pc \in {"sending", "judging"}
    BY <2>0, <2>1, <1>0 DEF RecordsOK, Pub, PubPCs
  <2>3. \A x \in Threads : ~Serialized(x)
    BY <2>0 DEF SectionsExclude
  <2>4. RecordsOK'
    BY <2>0, <2>2, <1>0 DEF RecordsOK, OwnerOf, Holds
  <2>5. RunsAreAdmitted'
    <3>1. Snapshot(o).run = job[o].run
      BY DEF Snapshot
    <3>2. Admitted(Snapshot(o).run)
      BY <3>1, <1>0 DEF RunsAreAdmitted
    <3>. QED
      BY <2>0, <2>2, <3>2 DEF RunsAreAdmitted, Admitted
  <2>6. SectionsExclude'
    BY <2>0, <2>2, <2>3 DEF SectionsExclude, Serialized, Connecting
  <2>7. RegistryIsAhead'
    <3>1. \A x \in Owners : Snapshot(x)' = Snapshot(x)
      BY <2>0 DEF Snapshot
    <3>2. \A x \in Threads : Serialized(x)' => x = th
      BY <2>2, <2>3 DEF Serialized
    <3>. HIDE DEF o
    <3>. QED
      BY <2>0, <2>2, <3>1, <3>2, NotOlderThanItself DEF RegistryIsAhead
  <2>8. Forward
    BY <2>0, NotOlderThanItself DEF Forward, RecordsOK
  <2>. QED
    BY <2>4, <2>5, <2>6, <2>7, <2>8
<1>2. CASE PublishJudges(th) \/ PublishReopens(th)
  <2>1. /\ job' = job /\ last' = last /\ task' = task /\ conn' = conn /\ lock' = lock
        /\ pub' \in [Threads -> Pub]
        /\ \A x \in Threads : x # th => pub'[x] = pub[x]
        /\ pub'[th].snap = pub[th].snap /\ pub'[th].owner = o
        /\ pub'[th].pc \in {"reopening", "sending"} /\ Serialized(th)
    BY <1>2 DEF PublishJudges, PublishReopens, registry, clients, received, RecordsOK, Pub, PubPCs,
       Serialized
  <2>2. RecordsOK'
    BY <2>1, <1>0 DEF RecordsOK, OwnerOf, Holds
  <2>3. RunsAreAdmitted'
    BY <2>1 DEF RunsAreAdmitted, Admitted
  <2>4. SectionsExclude'
    BY <2>1 DEF SectionsExclude, Serialized, Connecting
  <2>5. RegistryIsAhead' /\ Forward
    <3>1. \A x \in Threads : Serialized(x)' =>
            Serialized(x) /\ pub'[x].snap = pub[x].snap /\ pub'[x].owner = pub[x].owner
      BY <2>1 DEF Serialized
    <3>2. \A x \in Owners : JobMoves(x)
      BY <2>1 DEF JobMoves, RecordsOK, Job
    <3>. QED
      BY <2>1, <2>2, <3>1, <3>2, UntoldKeeps DEF RecordsOK
  <2>. QED
    BY <2>2, <2>3, <2>4, <2>5
<1>3. CASE PublishSends(th)
  <2>0. /\ job' = job /\ task' = task /\ conn' = conn /\ lock' = Free /\ lock = th
        /\ Serialized(th)
    BY <1>3 DEF PublishSends, registry, clients, SectionsExclude, Serialized
  <2>1. /\ pub' \in [Threads -> Pub]
        /\ \A x \in Threads : x # th => pub'[x] = pub[x]
        /\ pub'[th] = NotPublishing
    BY <1>3 DEF PublishSends, RecordsOK
  <2>2. /\ NotPublishing.pc = "idle" /\ NotPublishing.snap.run = 0
        /\ pub[th].snap \in Status
    BY DEF NotPublishing, Idle, RecordsOK, Pub
  <2>3. PICK ts : Tell(ts, o, pub[th].snap)
    BY <1>3 DEF PublishSends
  <2>4. /\ last' \in [Tabs -> [Owners -> Status]]
        /\ \A t \in Tabs, x \in Owners :
             last'[t][x] = IF t \in ts /\ x = o THEN pub[th].snap ELSE last[t][x]
    BY <2>2, <2>3, TellTells
  <2>5. \A x \in Threads : ~Serialized(x)'
    BY <2>0, <2>1, <2>2 DEF SectionsExclude, Serialized
  <2>6. RecordsOK'
    BY <2>0, <2>1, <2>2, <2>4 DEF RecordsOK, OwnerOf, Holds
  <2>7. RunsAreAdmitted'
    BY <2>0, <2>1, <2>2, <2>4 DEF RunsAreAdmitted, Admitted
  <2>8. SectionsExclude'
    BY <2>0, <2>5 DEF SectionsExclude, Connecting
  <2>9. RegistryIsAhead'
    BY <2>0, <2>4, <2>5 DEF RegistryIsAhead, Snapshot
  <2>10. Forward
    BY <2>0, <2>4, NotOlderThanItself DEF Forward, RegistryIsAhead, RecordsOK
  <2>. QED
    BY <2>6, <2>7, <2>8, <2>9, <2>10
<1>. QED
  BY <1>1, <1>2, <1>3 DEF PublishStep

-----------------------------------------------------------------------------
\* A thread that wants to publish waits with nothing read.
LEMMA PublishingWaits ==
  ASSUME RecordsOK, NEW th \in Threads, NEW o \in Owners, Publishing(th, o)
  PROVE  /\ pub' \in [Threads -> Pub]
         /\ \A x \in Threads : x # th => pub'[x] = pub[x]
         /\ pub'[th].pc = "waiting" /\ pub'[th].owner = o /\ pub'[th].snap = Idle
<1>. DEFINE p == [NotPublishing EXCEPT !.pc = "waiting", !.owner = o]
<1>1. NotPublishing = [pc |-> "idle", owner |-> Free, snap |-> Idle]
  BY DEF NotPublishing
<1>2. p \in Pub
  BY <1>1, Constants DEF Pub, PubPCs
<1>3. p.pc = "waiting" /\ p.owner = o /\ p.snap = Idle
  BY <1>1
<1>4. pub' = [pub EXCEPT ![th] = p]
  BY DEF Publishing
<1>. HIDE DEF p
<1>. QED
  BY <1>2, <1>3, <1>4 DEF RecordsOK

\* Steps that tell nobody anything: they may change the registry, move tasks and
\* make a thread wait for the section.
LEMMA QuietKeeps ==
  ASSUME OrderInv,
         job' \in [Owners -> Job], \A o \in Owners : JobMoves(o),
         Holds(task, Runs, {"owner", "pc"})',
         \A r \in Runs : task[r].pc # "none" => task'[r].pc # "none",
         \A r \in Runs : task'[r].pc # "none" =>
            task'[r].owner \in Owners /\ \A q \in 1..(r - 1) : task'[q].pc # "none",
         \A o \in Owners : job'[o].run \in {0, job[o].run} \/ task'[job'[o].run].pc # "none",
         pub' = pub \/ \E th \in Threads, o \in Owners : Publishing(th, o),
         lock' = lock, last' = last,
         Holds(conn, Tabs, {"pc"})', \A t \in Tabs : Connecting(t)' => Connecting(t)
  PROVE  OrderInv' /\ Forward
<1>. USE DEF OrderInv
<1>1. /\ pub' \in [Threads -> Pub]
      /\ \A x \in Threads :
           \/ pub'[x] = pub[x]
           \/ pub'[x].pc = "waiting" /\ pub'[x].owner \in Owners /\ pub'[x].snap = Idle
  <2>1. CASE pub' = pub
    BY <2>1 DEF RecordsOK
  <2>2. CASE \E th \in Threads, o \in Owners : Publishing(th, o)
    BY <2>2, PublishingWaits
  <2>. QED
    BY <2>1, <2>2
<1>2. RecordsOK'
  BY <1>1 DEF RecordsOK, OwnerOf, Holds
<1>3. RunsAreAdmitted'
  <2>1. ASSUME NEW run \in {0} \union Runs, Admitted(run)
        PROVE  Admitted(run)'
    BY <2>1 DEF Admitted
  <2>2. ASSUME NEW o \in Owners
        PROVE  Admitted(job[o].run)'
    <3>1. job[o].run \in {0} \union Runs /\ Admitted(job[o].run)
      BY DEF RecordsOK, Job, RunsAreAdmitted
    <3>2. job'[o].run \in {0, job[o].run} \/ task'[job'[o].run].pc # "none"
      OBVIOUS
    <3>. QED
      BY <3>1, <3>2 DEF Admitted
  <2>3. ASSUME NEW x \in Threads
        PROVE  Admitted(pub[x].snap.run)'
    <3>1. pub[x].snap.run \in {0} \union Runs /\ Admitted(pub[x].snap.run)
      BY DEF RecordsOK, Pub, Status, RunsAreAdmitted
    <3>2. pub'[x].snap.run \in {0, pub[x].snap.run}
      BY <1>1 DEF Idle
    <3>. QED
      BY <2>1, <3>1, <3>2 DEF Admitted
  <2>4. \A t \in Tabs, o \in Owners : Admitted(last[t][o].run)'
    BY <2>1 DEF RunsAreAdmitted, RecordsOK, Status, Admitted
  <2>. QED
    BY <2>2, <2>3, <2>4 DEF RunsAreAdmitted, Admitted
<1>4. SectionsExclude'
  BY <1>1 DEF SectionsExclude, Serialized
<1>5. \A x \in Threads : Serialized(x)' =>
        Serialized(x) /\ pub'[x].snap = pub[x].snap /\ pub'[x].owner = pub[x].owner
  BY <1>1 DEF Serialized
<1>6. RegistryIsAhead' /\ Forward
  BY <1>5, UntoldKeeps
<1>. QED
  BY <1>2, <1>3, <1>4, <1>6

\* Steps of a client's handler, with the section for itself.
LEMMA HandlerKeeps ==
  ASSUME OrderInv, job' = job, task' = task, pub' = pub,
         \A th \in Threads : ~Serialized(th),
         last' \in [Tabs -> [Owners -> Status]],
         \A t \in Tabs, o \in Owners : last'[t][o] \in {last[t][o], Snapshot(o), Idle},
         Holds(conn, Tabs, {"pc"})', \A t \in Tabs : Connecting(t)' => lock' = t
  PROVE  OrderInv' /\ Forward
<1>. USE DEF OrderInv
<1>1. RunsAreAdmitted' /\ RegistryIsAhead' /\ Forward
  BY ToldKeeps
<1>2. RecordsOK'
  BY DEF RecordsOK, OwnerOf, Holds
<1>3. SectionsExclude'
  BY DEF SectionsExclude, Serialized
<1>. QED
  BY <1>1, <1>2, <1>3

\* Telling the registry's record of an owner, whoever that is.
LEMMA TellSnapshot ==
  ASSUME RecordsOK, NEW ts, NEW o, Tell(ts, o, Snapshot(o))
  PROVE  /\ last' \in [Tabs -> [Owners -> Status]]
         /\ \A t \in Tabs, x \in Owners : last'[t][x] \in {last[t][x], Snapshot(x)}
<1>1. CASE o \in Owners
  BY <1>1, SnapshotIsTyped, TellTells
<1>2. CASE o \notin Owners
  BY <1>2 DEF Tell, RecordsOK
<1>. QED
  BY <1>1, <1>2

\* Writing one record of the registry: it is erased, or of the same run and not younger.
LEMMA RecordMoves ==
  ASSUME job \in [Owners -> Job], NEW o \in Owners, NEW j \in Job,
         job' = [job EXCEPT ![o] = j],
         j.run = 0 \/ (j.run = job[o].run /\ j.version >= job[o].version)
  PROVE  /\ job' \in [Owners -> Job] /\ \A x \in Owners : JobMoves(x)
         /\ \A x \in Owners : job'[x].run \in {0, job[x].run}
<1>1. \A x \in Owners : job[x].version \in Nat
  BY Constants DEF Job
<1>2. /\ job' \in [Owners -> Job] /\ job'[o] = j
      /\ \A x \in Owners : x # o => job'[x] = job[x]
  OBVIOUS
<1>3. ASSUME NEW x \in Owners
      PROVE  JobMoves(x) /\ job'[x].run \in {0, job[x].run}
  <2>1. CASE x = o
    BY <1>2, <2>1 DEF JobMoves
  <2>2. CASE x # o
    BY <1>1, <1>2, <2>2 DEF JobMoves
  <2>. QED
    BY <2>1, <2>2
<1>. QED
  BY <1>2, <1>3

LEMMA NothingMoves ==
  ASSUME job \in [Owners -> Job], job' = job
  PROVE  /\ job' \in [Owners -> Job] /\ \A x \in Owners : JobMoves(x)
         /\ \A x \in Owners : job'[x].run \in {0, job[x].run}
<1>1. \A x \in Owners : job[x].version \in Nat
  BY Constants DEF Job
<1>. QED
  BY <1>1 DEF JobMoves

\* The writes that make no new run.
LEMMA ErasedMoves ==
  ASSUME job \in [Owners -> Job], NEW o \in Owners, job' = [job EXCEPT ![o] = NoJob]
  PROVE  /\ job' \in [Owners -> Job] /\ \A x \in Owners : JobMoves(x)
         /\ \A x \in Owners : job'[x].run \in {0, job[x].run}
<1>. DEFINE j == NoJob
<1>1. j \in Job /\ j.run = 0
  BY Constants DEF NoJob
<1>2. job' = [job EXCEPT ![o] = j]
  OBVIOUS
<1>. HIDE DEF j
<1>. QED
  BY <1>1, <1>2, RecordMoves

LEMMA DisconnectedMoves ==
  ASSUME job \in [Owners -> Job], NEW o \in Owners,
         job' = [job EXCEPT ![o].disconnected = TRUE]
  PROVE  /\ job' \in [Owners -> Job] /\ \A x \in Owners : JobMoves(x)
         /\ \A x \in Owners : job'[x].run \in {0, job[x].run}
<1>. DEFINE j == [job[o] EXCEPT !.disconnected = TRUE]
<1>1. job[o] \in Job /\ job[o].version \in Nat
  BY Constants DEF Job
<1>2. j \in Job /\ j.run = job[o].run /\ j.version = job[o].version
  BY <1>1 DEF Job
<1>3. job' = [job EXCEPT ![o] = j]
  OBVIOUS
<1>. HIDE DEF j
<1>4. j.version >= job[o].version
  BY <1>1, <1>2
<1>. QED
  BY <1>2, <1>3, <1>4, RecordMoves

LEMMA TouchedMoves ==
  ASSUME job \in [Owners -> Job], NEW o \in Owners, job[o].version + 1 < MaxVersion,
         job' = Touched(o)
  PROVE  /\ job' \in [Owners -> Job] /\ \A x \in Owners : JobMoves(x)
         /\ \A x \in Owners : job'[x].run \in {0, job[x].run}
<1>. DEFINE j == [job[o] EXCEPT !.version = job[o].version + 1]
<1>1. job[o] \in Job /\ job[o].version \in Nat /\ MaxVersion \in Nat
  BY Constants DEF Job
<1>2. job[o].version + 1 \in 0..MaxVersion /\ job[o].version + 1 >= job[o].version
  BY <1>1
<1>3. j \in Job /\ j.run = job[o].run /\ j.version = job[o].version + 1
  BY <1>1, <1>2 DEF Job
<1>4. job' = [job EXCEPT ![o] = j]
  BY DEF Touched
<1>. HIDE DEF j
<1>. QED
  BY <1>2, <1>3, <1>4, RecordMoves

LEMMA EndedMoves ==
  ASSUME job \in [Owners -> Job], NEW o \in Owners, NEW s \in {"ended", "failed"},
         job' = Ended(o, s)
  PROVE  /\ job' \in [Owners -> Job] /\ \A x \in Owners : JobMoves(x)
         /\ \A x \in Owners : job'[x].run \in {0, job[x].run}
<1>. DEFINE j == [job[o] EXCEPT !.status = s, !.version = MaxVersion]
<1>1. CASE job[o].run = 0
  BY <1>1, NothingMoves DEF Ended
<1>2. CASE job[o].run # 0
  <2>1. job[o] \in Job /\ MaxVersion \in 0..MaxVersion /\ MaxVersion >= job[o].version
    BY Constants DEF Job
  <2>2. j \in Job /\ j.run = job[o].run /\ j.version = MaxVersion
    BY <2>1 DEF Job
  <2>3. job' = [job EXCEPT ![o] = j]
    BY <1>2 DEF Ended
  <2>. HIDE DEF j
  <2>. QED
    BY <2>1, <2>2, <2>3, RecordMoves
<1>. QED
  BY <1>1, <1>2

-----------------------------------------------------------------------------
\* A new run's record: nobody was told of it.
LEMMA AdmitKeeps ==
  ASSUME OrderInv, NEW o \in Owners, NEW r \in Runs, Admit(o, r)
  PROVE  OrderInv' /\ Forward
<1>. USE Constants DEF OrderInv
<1>. DEFINE j == [run |-> r, status |-> "active", version |-> 1, disconnected |-> FALSE]
            k == [NoTask EXCEPT !.owner = o, !.pc = "admitted"]
<1>1. /\ task[r].pc = "none" /\ \A q \in 1..(r - 1) : task[q].pc # "none"
      /\ job' = [job EXCEPT ![o] = j] /\ task' = [task EXCEPT ![r] = k]
      /\ pub' = pub /\ lock' = lock /\ last' = last /\ conn' = conn
  BY DEF Admit, clients, received
<1>2. j \in Job /\ j.run = r
  BY DEF Job
<1>3. {"owner", "pc"} \subseteq DOMAIN k /\ k.pc = "admitted" /\ k.owner = o
  BY DEF NoTask
<1>. HIDE DEF j, k
<1>4. /\ job' \in [Owners -> Job] /\ job'[o] = j /\ \A x \in Owners : x # o => job'[x] = job[x]
      /\ task'[r] = k /\ \A x \in Runs : x # r => task'[x] = task[x]
      /\ Holds(task, Runs, {"owner", "pc"})'
  BY <1>1, <1>2, <1>3 DEF RecordsOK, Holds
<1>5. \A x \in Owners : JobMoves(x) /\ (job'[x].run = job[x].run \/ task'[job'[x].run].pc # "none")
  <2>1. \A x \in Owners : job[x].version \in Nat
    BY DEF RecordsOK, Job
  <2>. QED
    BY <1>1, <1>2, <1>3, <1>4, <2>1 DEF JobMoves
<1>6. \A x \in Runs : task[x].pc # "none" => task'[x].pc # "none"
  BY <1>3, <1>4
<1>7. \A x \in Runs : task'[x].pc # "none" =>
        task'[x].owner \in Owners /\ \A q \in 1..(x - 1) : task'[q].pc # "none"
  <2>1. \A x \in Runs : \A q \in 1..(x - 1) : q \in Runs
    BY DEF Runs
  <2>2. \A x \in Runs : task'[x].pc # "none" => \A q \in 1..(x - 1) : task[q].pc # "none"
    BY <1>1, <1>4 DEF RunsAreAdmitted
  <2>. QED
    BY <1>3, <1>4, <1>6, <2>1, <2>2 DEF RecordsOK, OwnerOf, Holds
<1>. QED
  BY <1>1, <1>4, <1>5, <1>6, <1>7, QuietKeeps DEF RecordsOK, Connecting

\* What moving one admitted task needs.
LEMMA TaskMoves ==
  ASSUME OrderInv, NEW r \in Runs, task[r].pc # "none",
         Holds(task, Runs, {"owner", "pc"})', \A x \in Runs : x # r => task'[x] = task[x],
         task'[r].pc # "none", task'[r].owner = task[r].owner
  PROVE  /\ \A x \in Runs : task[x].pc # "none" => task'[x].pc # "none"
         /\ \A x \in Runs : task'[x].pc # "none" =>
              task'[x].owner \in Owners /\ \A q \in 1..(x - 1) : task'[q].pc # "none"
<1>. USE DEF OrderInv
<1>1. \A x \in Runs : task[x].pc # "none" <=> task'[x].pc # "none"
  OBVIOUS
<1>2. \A x \in Runs : \A q \in 1..(x - 1) : q \in Runs
  BY PublicationAssumption DEF Runs
<1>. QED
  BY <1>1, <1>2 DEF RecordsOK, RunsAreAdmitted, OwnerOf

\* A task's step tells nobody a status itself.
LEMMA TaskKeeps ==
  ASSUME OrderInv, NEW r \in Runs, TaskStep(r)
  PROVE  OrderInv' /\ Forward
<1>. USE DEF OrderInv
<1>. DEFINE o == task[r].owner
<1>1. task[r].pc # "none" /\ o \in Owners /\ r \in Threads
  <2>1. task[r].pc # "none"
    BY DEF TaskStep, OpenSlot, PublishStart, ScheduleFails, TaskBegins, TaskProgresses, TaskRecords,
       TaskDelivers, TaskEnds, TaskClears, TaskCloses
  <2>. QED
    BY <2>1, Constants DEF RecordsOK, OwnerOf, Holds
<1>2. lock' = lock /\ last' = last /\ conn' = conn
  BY DEF TaskStep, OpenSlot, PublishStart, ScheduleFails, TaskBegins, TaskProgresses, TaskRecords,
     TaskDelivers, TaskEnds, TaskClears, TaskCloses, clients, received
<1>3. pub' = pub \/ Publishing(r, o)
  BY DEF TaskStep, OpenSlot, PublishStart, ScheduleFails, TaskBegins, TaskProgresses, TaskRecords,
     TaskDelivers, TaskEnds, TaskClears, TaskCloses, OwnerOf
<1>4. /\ job' \in [Owners -> Job] /\ \A x \in Owners : JobMoves(x)
      /\ \A x \in Owners : job'[x].run \in {0, job[x].run}
  <2>1. \/ job' = job \/ job' = [job EXCEPT ![o] = NoJob]
        \/ job[o].version + 1 < MaxVersion /\ job' = Touched(o)
        \/ job' = Ended(o, "ended") \/ job' = Ended(o, "failed")
    BY DEF TaskStep, OpenSlot, PublishStart, ScheduleFails, TaskBegins, TaskProgresses, TaskRecords,
       TaskDelivers, TaskEnds, TaskClears, TaskCloses, OwnerOf, registry
  <2>2. job \in [Owners -> Job]
    BY DEF RecordsOK
  <2>. HIDE DEF o
  <2>. QED
    BY <1>1, <2>1, <2>2, NothingMoves, ErasedMoves, TouchedMoves, EndedMoves
<1>5. /\ Holds(task, Runs, {"owner", "pc"})' /\ \A x \in Runs : x # r => task'[x] = task[x]
      /\ task'[r].pc # "none" /\ task'[r].owner = task[r].owner
  <2>. USE DEF RecordsOK, Holds
  <2>1. CASE OpenSlot(r) \/ PublishStart(r) \/ ScheduleFails(r) \/ TaskRecords(r)
    BY <2>1 DEF OpenSlot, PublishStart, ScheduleFails, TaskRecords
  <2>2. CASE TaskEnds(r) \/ TaskClears(r) \/ TaskCloses(r)
    BY <2>2 DEF TaskEnds, TaskClears, TaskCloses
  <2>3. CASE TaskBegins(r)
    BY <2>3 DEF TaskBegins
  <2>4. CASE TaskDelivers(r)
    BY <2>4 DEF TaskDelivers
  <2>5. CASE TaskProgresses(r)
    BY <1>1, <2>5 DEF TaskProgresses
  <2>. QED
    BY <2>1, <2>2, <2>3, <2>4, <2>5 DEF TaskStep
<1>. HIDE DEF o
<1>. QED
  BY <1>1, <1>2, <1>3, <1>4, <1>5, TaskMoves, QuietKeeps DEF RecordsOK, Connecting

-----------------------------------------------------------------------------
\* cancel_job, pause_job, resume_job and get_job_status.
LEMMA RequestKeeps ==
  ASSUME OrderInv, NEW o \in Owners, RequestChanges(o) \/ RequestPublishes(o)
  PROVE  OrderInv' /\ Forward
<1>. USE DEF OrderInv
<1>1. /\ task' = task /\ lock' = lock /\ last' = last /\ conn' = conn
      /\ Publishing(Handler, o) /\ Handler \in Threads
  BY Constants DEF RequestChanges, RequestPublishes, clients, received
<1>2. /\ job' \in [Owners -> Job] /\ \A x \in Owners : JobMoves(x)
      /\ \A x \in Owners : job'[x].run \in {0, job[x].run}
  <2>1. job' = job \/ (job[o].version + 1 < MaxVersion /\ job' = Touched(o))
    BY DEF RequestChanges, RequestPublishes, registry
  <2>2. job \in [Owners -> Job]
    BY DEF RecordsOK
  <2>. QED
    BY <2>1, <2>2, NothingMoves, TouchedMoves
<1>. QED
  BY <1>1, <1>2, QuietKeeps DEF RecordsOK, RunsAreAdmitted, Holds, Connecting, OwnerOf

\* A disconnection erases the record of an owner at most.
LEMMA DisconnectKeeps ==
  ASSUME OrderInv, NEW t \in Tabs, Disconnect(t)
  PROVE  OrderInv' /\ Forward
<1>. USE DEF OrderInv
<1>1. task' = task /\ lock' = lock /\ last' = last /\ pub' = pub
  BY DEF Disconnect, received
<1>2. /\ job' \in [Owners -> Job] /\ \A x \in Owners : JobMoves(x)
      /\ \A x \in Owners : job'[x].run \in {0, job[x].run}
  <2>1. \/ job' = job
        \/ t \in Owners /\ job' = [job EXCEPT ![t].disconnected = TRUE]
        \/ t \in Owners /\ job' = [job EXCEPT ![t] = NoJob]
    BY DEF Disconnect
  <2>2. job \in [Owners -> Job]
    BY DEF RecordsOK
  <2>. QED
    BY <2>1, <2>2, NothingMoves, DisconnectedMoves, ErasedMoves
<1>3. Holds(conn, Tabs, {"pc"})' /\ \A x \in Tabs : Connecting(x)' => Connecting(x)
  <2>. DEFINE c == [NotConnected EXCEPT !.pc = "gone"]
  <2>1. "pc" \in DOMAIN c /\ c.pc = "gone"
    BY DEF NotConnected
  <2>2. conn' = [conn EXCEPT ![t] = c]
    BY DEF Disconnect
  <2>. HIDE DEF c
  <2>3. conn'[t] = c /\ \A x \in Tabs : x \in DOMAIN conn' /\ (x # t => conn'[x] = conn[x])
    BY <2>2 DEF RecordsOK, Holds
  <2>. QED
    BY <2>1, <2>3 DEF RecordsOK, Holds, Connecting
<1>. QED
  BY <1>1, <1>2, <1>3, QuietKeeps DEF RecordsOK, RunsAreAdmitted, Holds, OwnerOf

\* emit_preferred_job_status and get_initial_data, with nobody in the section.
LEMMA AnswerKeeps ==
  ASSUME OrderInv, NEW t \in Tabs, RequestPreferred(t) \/ RequestInitial(t)
  PROVE  OrderInv' /\ Forward
<1>. USE DEF OrderInv
<1>1. /\ job' = job /\ task' = task /\ pub' = pub /\ conn' = conn
      /\ lock = Free /\ lock' = lock
  BY DEF RequestPreferred, RequestInitial, registry, clients
<1>2. (\A th \in Threads : ~Serialized(th)) /\ \A x \in Tabs : ~Connecting(x)
  BY <1>1, Constants DEF SectionsExclude
<1>3. /\ last' \in [Tabs -> [Owners -> Status]]
      /\ \A x \in Tabs, o \in Owners : last'[x][o] \in {last[x][o], Snapshot(o), Idle}
  <2>1. CASE \E o : Tell({t}, o, Snapshot(o))
    BY <2>1, TellSnapshot
  <2>2. CASE last' = [last EXCEPT ![t] = [x \in Owners |-> Idle]]
    BY <2>2, Constants DEF RecordsOK
  <2>. QED
    BY <2>1, <2>2 DEF RequestPreferred, RequestInitial
<1>. QED
  BY <1>1, <1>2, <1>3, HandlerKeeps DEF RecordsOK, Holds, Connecting

\* on_connect holds the section from its first step to its last.
LEMMA ConnectKeeps ==
  ASSUME OrderInv, NEW t \in Tabs, ConnectStep(t)
  PROVE  OrderInv' /\ Forward
<1>. USE DEF OrderInv
<1>1. job' = job /\ task' = task /\ pub' = pub
  BY DEF ConnectStep, ConnectRegisters, ConnectFindsNone, ConnectLooks, ConnectDecides,
     ConnectEndsSlot, ConnectCopies, ConnectJoins, ConnectReplays, registry
<1>2. lock \in {t, Free}
  BY DEF ConnectStep, ConnectRegisters, ConnectFindsNone, ConnectLooks, ConnectDecides,
     ConnectEndsSlot, ConnectCopies, ConnectJoins, ConnectReplays, MayEnter, SectionsExclude,
     Connecting
<1>3. (\A th \in Threads : ~Serialized(th)) /\ \A x \in Tabs : x # t => ~Connecting(x)
  BY <1>2, Constants DEF SectionsExclude
<1>4. /\ last' \in [Tabs -> [Owners -> Status]]
      /\ \A x \in Tabs, o \in Owners : last'[x][o] \in {last[x][o], Snapshot(o), Idle}
  <2>1. last' = last \/ \E o : Tell({t}, o, Snapshot(o))
    BY DEF ConnectStep, ConnectRegisters, ConnectFindsNone, ConnectLooks, ConnectDecides,
       ConnectEndsSlot, ConnectCopies, ConnectJoins, ConnectReplays, received
  <2>. QED
    BY <2>1, TellSnapshot DEF RecordsOK
<1>5. /\ Holds(conn, Tabs, {"pc"})' /\ \A x \in Tabs : x # t => conn'[x] = conn[x]
      /\ conn'[t].pc = "in" \/ lock' = t
  <2>. USE DEF RecordsOK, Holds
  <2>1. CASE ConnectRegisters(t)
    BY <2>1 DEF ConnectRegisters
  <2>2. CASE ConnectFindsNone(t) \/ ConnectEndsSlot(t)
    BY <2>2 DEF ConnectFindsNone, ConnectEndsSlot
  <2>3. CASE ConnectLooks(t) \/ ConnectDecides(t) \/ ConnectCopies(t) \/ ConnectJoins(t)
    <3>1. lock' = t
      BY <2>3 DEF ConnectLooks, ConnectDecides, ConnectCopies, ConnectJoins, SectionsExclude,
         Connecting
    <3>. QED
      BY <2>3, <3>1 DEF ConnectLooks, ConnectDecides, ConnectCopies, ConnectJoins
  <2>4. CASE ConnectReplays(t)
    BY <2>4 DEF ConnectReplays, NotConnected
  <2>. QED
    BY <2>1, <2>2, <2>3, <2>4 DEF ConnectStep
<1>6. \A x \in Tabs : Connecting(x)' => lock' = t /\ x = t
  BY <1>3, <1>5 DEF Connecting
<1>. QED
  BY <1>1, <1>3, <1>4, <1>5, <1>6, HandlerKeeps

LEMMA StepKeepsOrder ==
  ASSUME OrderInv, [Next]_vars
  PROVE  OrderInv' /\ Forward
<1>1. CASE UNCHANGED vars
  <2>1. \A t \in Tabs, o \in Owners : last[t][o] \in Status
    BY DEF OrderInv, RecordsOK
  <2>2. Forward
    BY <1>1, <2>1, NotOlderThanItself DEF Forward, vars
  <2>. QED
    BY <1>1, <2>2 DEF vars, OrderInv, RecordsOK, Holds, RunsAreAdmitted, Admitted, SectionsExclude,
       Serialized, Connecting, RegistryIsAhead, Snapshot, OwnerOf
<1>2. CASE Next
  BY <1>2, AdmitKeeps, RequestKeeps, ConnectKeeps, AnswerKeeps, DisconnectKeeps, TaskKeeps,
     PublishKeeps DEF Next
<1>. QED
  BY <1>1, <1>2

\* The inductive invariant behind the order of the statuses a client is told.
THEOREM RegistryLeads == Spec => []OrderInv
<1>1. OrderInv /\ [Next]_vars => OrderInv'
  BY StepKeepsOrder
<1>. QED
  BY InitOrder, <1>1, PTL DEF Spec

\* events.py: "Order snapshot selection, replay and enqueue across status producers."
\* Whoever publishes, connects or asks, and however many do at once, no client is told a
\* status of a job that is older than the one it was told before.
THEOREM StatusesInOrder == Spec => StatusesNeverGoBack
<1>1. OrderInv /\ [Next]_vars => [\A t \in Tabs, o \in Owners : NotOlder(last'[t][o], last[t][o])]_vars
  BY StepKeepsOrder DEF Forward
<1>. QED
  BY <1>1, RegistryLeads, PTL DEF Spec, StatusesNeverGoBack
-----------------------------------------------------------------------------
(* The dict of open slots.                                                  *)

\* Removing the one place an owner has.
LEMMA RemovingAPlace ==
  ASSUME NEW S, NEW s \in Seq(S), NEW i \in 1..Len(s)
  PROVE  /\ RemoveAt(s, i) \in Seq(S)
         /\ Len(RemoveAt(s, i)) = Len(s) - 1
         /\ \A k \in 1..(Len(s) - 1) : RemoveAt(s, i)[k] = IF k < i THEN s[k] ELSE s[k + 1]
<1>. DEFINE a == SubSeq(s, 1, i - 1)
            b == SubSeq(s, i + 1, Len(s))
<1>0. Len(s) \in Nat /\ \A k \in 1..Len(s) : s[k] \in S
  BY LenProperties, ElementOfSeq
<1>1. /\ a \in Seq(S) /\ Len(a) = i - 1
      /\ \A k \in 1..(i - 1) : a[k] = s[k]
  <2>1. \A k \in 1..(i - 1) : s[k] \in S
    BY <1>0
  <2>. QED
    BY <1>0, <2>1, SubSeqProperties
<1>2. /\ b \in Seq(S) /\ Len(b) = Len(s) - i
      /\ \A k \in 1..(Len(s) - i) : b[k] = s[i + k]
  <2>1. \A k \in (i + 1)..Len(s) : s[k] \in S
    BY <1>0
  <2>2. /\ b \in Seq(S) /\ Len(b) = IF i + 1 <= Len(s) THEN Len(s) - (i + 1) + 1 ELSE 0
        /\ \A k \in 1..(Len(s) - (i + 1) + 1) : b[k] = s[i + 1 + k - 1]
    BY <1>0, <2>1, SubSeqProperties
  <2>. QED
    BY <1>0, <2>2
<1>. HIDE DEF a, b
<1>3. /\ a \o b \in Seq(S) /\ Len(a \o b) = Len(s) - 1
      /\ \A k \in 1..(Len(s) - 1) : (a \o b)[k] = IF k <= i - 1 THEN a[k] ELSE b[k - (i - 1)]
  <2>1. /\ a \o b \in Seq(S) /\ Len(a \o b) = Len(a) + Len(b)
        /\ \A k \in 1..(Len(a) + Len(b)) : (a \o b)[k] = IF k <= Len(a) THEN a[k] ELSE b[k - Len(a)]
    BY <1>1, <1>2, ConcatProperties
  <2>2. Len(a) + Len(b) = Len(s) - 1
    BY <1>0, <1>1, <1>2
  <2>. QED
    BY <1>1, <2>1, <2>2
<1>4. \A k \in 1..(Len(s) - 1) : (a \o b)[k] = IF k < i THEN s[k] ELSE s[k + 1]
  <2>. SUFFICES ASSUME NEW k \in 1..(Len(s) - 1)
                PROVE  (a \o b)[k] = IF k < i THEN s[k] ELSE s[k + 1]
    OBVIOUS
  <2>1. CASE k < i
    BY <2>1, <1>0, <1>1, <1>3
  <2>2. CASE ~(k < i)
    <3>1. k - (i - 1) \in 1..(Len(s) - i) /\ i + (k - (i - 1)) = k + 1
      BY <2>2, <1>0
    <3>. QED
      BY <2>2, <3>1, <1>0, <1>2, <1>3
  <2>. QED
    BY <2>1, <2>2
<1>. QED
  BY <1>3, <1>4 DEF RemoveAt, a, b

LEMMA Removing ==
  ASSUME NEW S, NEW s \in Seq(S), IsInjective(s), NEW e
  PROVE  /\ RemoveFirst(s, e) \in Seq(S) /\ IsInjective(RemoveFirst(s, e))
         /\ ToSet(RemoveFirst(s, e)) = ToSet(s) \ {e}
<1>0. Len(s) \in Nat /\ DOMAIN s = 1..Len(s)
  BY LenProperties
<1>1. CASE ~\E i \in 1..Len(s) : s[i] = e
  BY <1>0, <1>1 DEF RemoveFirst, ToSet
<1>2. CASE \E i \in 1..Len(s) : s[i] = e
  <2>1. PICK i \in 1..Len(s) : s[i] = e
    BY <1>2
  <2>. DEFINE I == {k \in 1..Len(s) : s[k] = e}
  <2>2. I = {i}
    BY <1>0, <2>1 DEF IsInjective
  <2>3. Min(I) = i
    BY <2>2 DEF Min
  <2>4. SelectInSeq(s, LAMBDA v : v = e) = i
    BY <2>2, <2>3 DEF SelectInSeq
  <2>5. RemoveFirst(s, e) = RemoveAt(s, i)
    BY <2>1, <2>4 DEF RemoveFirst
  <2>. DEFINE u == RemoveAt(s, i)
  <2>6. /\ u \in Seq(S) /\ Len(u) = Len(s) - 1
        /\ \A k \in 1..(Len(s) - 1) : u[k] = IF k < i THEN s[k] ELSE s[k + 1]
    BY RemovingAPlace
  <2>. HIDE DEF u
  <2>7. DOMAIN u = 1..(Len(s) - 1)
    BY <2>6, LenProperties
  <2>8. IsInjective(u)
    <3>. SUFFICES ASSUME NEW j \in DOMAIN u, NEW k \in DOMAIN u, u[j] = u[k]
                  PROVE  j = k
      BY DEF IsInjective
    <3>1. /\ j \in 1..Len(s) /\ k \in 1..Len(s) /\ j + 1 \in 1..Len(s) /\ k + 1 \in 1..Len(s)
          /\ u[j] = (IF j < i THEN s[j] ELSE s[j + 1])
          /\ u[k] = (IF k < i THEN s[k] ELSE s[k + 1])
      BY <1>0, <2>6, <2>7
    <3>2. \A x, y \in 1..Len(s) : s[x] = s[y] => x = y
      BY <1>0 DEF IsInjective
    <3>3. CASE j < i /\ k < i
      BY <3>1, <3>2, <3>3
    <3>4. CASE j < i /\ ~(k < i)
      <4>1. s[j] = s[k + 1]
        BY <3>1, <3>4
      <4>2. j = k + 1
        BY <3>1, <3>2, <4>1
      <4>. QED
        BY <3>4, <4>2, <2>7, <1>0
    <3>5. CASE ~(j < i) /\ k < i
      <4>1. s[j + 1] = s[k]
        BY <3>1, <3>5
      <4>2. j + 1 = k
        BY <3>1, <3>2, <4>1
      <4>. QED
        BY <3>5, <4>2, <2>7, <1>0
    <3>6. CASE ~(j < i) /\ ~(k < i)
      <4>1. s[j + 1] = s[k + 1]
        BY <3>1, <3>6
      <4>2. j + 1 = k + 1
        BY <3>1, <3>2, <4>1
      <4>. QED
        BY <4>2, <2>7, <1>0
    <3>. QED
      BY <3>3, <3>4, <3>5, <3>6
  <2>9. ToSet(u) = ToSet(s) \ {e}
    <3>1. ASSUME NEW x \in ToSet(u)
          PROVE  x \in ToSet(s) \ {e}
      <4>1. PICK k \in 1..(Len(s) - 1) : x = u[k]
        BY <2>7 DEF ToSet
      <4>2. PICK j \in 1..Len(s) : j # i /\ x = s[j]
        BY <4>1, <1>0, <2>6
      <4>3. x # e
        BY <4>2, <2>1, <1>0 DEF IsInjective
      <4>. QED
        BY <4>2, <4>3, <1>0 DEF ToSet
    <3>2. ASSUME NEW x \in ToSet(s) \ {e}
          PROVE  x \in ToSet(u)
      <4>1. PICK j \in 1..Len(s) : x = s[j] /\ j # i
        BY <2>1, <1>0 DEF ToSet
      <4>2. CASE j < i
        <5>1. j \in 1..(Len(s) - 1) /\ u[j] = s[j]
          BY <4>2, <1>0, <2>6
        <5>. QED
          BY <5>1, <4>1, <2>7 DEF ToSet
      <4>3. CASE j > i
        <5>1. j - 1 \in 1..(Len(s) - 1) /\ u[j - 1] = s[j]
          BY <4>3, <1>0, <2>6
        <5>. QED
          BY <5>1, <4>1, <2>7 DEF ToSet
      <4>. QED
        BY <4>1, <4>2, <4>3, <1>0
    <3>. QED
      BY <3>1, <3>2
  <2>. QED
    BY <2>5, <2>6, <2>8, <2>9 DEF u
<1>. QED
  BY <1>1, <1>2

LEMMA Appending ==
  ASSUME NEW S, NEW s \in Seq(S), IsInjective(s), NEW e \in S, ~Contains(s, e)
  PROVE  /\ Append(s, e) \in Seq(S) /\ IsInjective(Append(s, e))
         /\ ToSet(Append(s, e)) = ToSet(s) \union {e}
<1>. DEFINE u == Append(s, e)
<1>1. Len(s) \in Nat /\ DOMAIN s = 1..Len(s)
  BY LenProperties
<1>2. /\ u \in Seq(S) /\ Len(u) = Len(s) + 1
      /\ \A i \in 1..Len(s) : u[i] = s[i]
      /\ u[Len(s) + 1] = e
  BY AppendProperties
<1>. HIDE DEF u
<1>3. DOMAIN u = 1..(Len(s) + 1)
  BY <1>2, LenProperties
<1>4. IsInjective(u)
  <2>1. \A i \in 1..Len(s) : s[i] # e
    BY DEF Contains
  <2>. QED
    BY <1>1, <1>2, <1>3, <2>1 DEF IsInjective
<1>5. ToSet(u) = ToSet(s) \union {e}
  <2>1. \A i \in 1..(Len(s) + 1) : i \in 1..Len(s) \/ i = Len(s) + 1
    BY <1>1
  <2>2. Len(s) + 1 \in 1..(Len(s) + 1) /\ \A i \in 1..Len(s) : i \in 1..(Len(s) + 1)
    BY <1>1
  <2>. QED
    BY <1>1, <1>2, <1>3, <2>1, <2>2 DEF ToSet
<1>. QED
  BY <1>2, <1>4, <1>5 DEF u

LEMMA FirstIsOpen ==
  ASSUME NEW S, NEW s \in Seq(S), s # <<>>
  PROVE  Head(s) \in ToSet(s)
<1>1. Len(s) \in Nat \ {0} /\ DOMAIN s = 1..Len(s)
  BY LenProperties, EmptySeq
<1>2. 1 \in DOMAIN s /\ Head(s) = s[1]
  BY <1>1
<1>. QED
  BY <1>2 DEF ToSet

\* How far tasks, publications and clients are.
AtWork(r) == task[r].pc \in {"body", "emitting"}
Alive(r) == AtWork(r) \/ task[r].pc \in {"admitted", "opened", "scheduled"}
Waiting(th) == pub[th].pc = "waiting"
Replaying(t) == conn[t].pc \in {"looked", "ending", "copying", "joining", "replaying"}

\* Types, and what goes with them: the two sets of clients are read off their progress,
\* a publication that judges its slot has read a run, a task emits within its bound.
WiringInv ==
  /\ PublicationTypeOK
  /\ \A t \in Tabs : t \in connected <=> conn[t].pc \notin {"out", "gone"}
  /\ \A t \in Tabs : Replaying(t) => conn[t].owner \in Owners
  /\ \A t \in synced : conn[t].pc = "in"
  /\ \A th \in Threads : pub[th].pc \in {"judging", "reopening"} => pub[th].snap.run # 0
  /\ \A r \in Runs : task[r].pc = "emitting" => task[r].sent < MaxEvents

SlotsOK ==
  /\ slot \in [Owners -> {0} \union Runs]
  /\ order \in Seq(Owners) /\ IsInjective(order)
  /\ ToSet(order) = {o \in Owners : slot[o] # 0}
  /\ subs \in [Owners -> SUBSET Tabs]
  /\ buffer \in [Owners -> SUBSET Events]

ClientsOK ==
  /\ connected \subseteq Tabs
  /\ synced \subseteq connected
  /\ conn \in [Tabs -> Conn]
  /\ \A t \in Tabs : t \in connected <=> conn[t].pc \notin {"out", "gone"}
  /\ \A t \in Tabs : Replaying(t) => conn[t].owner \in Owners
  /\ \A t \in synced : conn[t].pc = "in"

TasksOK ==
  /\ task \in [Runs -> Task]
  /\ \A r \in Runs : task[r].pc = "emitting" => task[r].sent < MaxEvents

PublishingOK ==
  /\ \A th \in Threads : pub[th].pc \in {"judging", "reopening"} => pub[th].snap.run # 0
  /\ lock \in Threads \union Tabs \union {Free}
  /\ got \in [Tabs -> SUBSET Events]

\* WiringInv by its parts; the rest of it is in RecordsOK.
LEMMA WiringParts ==
  ASSUME WiringInv
  PROVE  SlotsOK /\ ClientsOK /\ TasksOK /\ PublishingOK
BY DEF WiringInv, PublicationTypeOK, SlotsOK, ClientsOK, TasksOK, PublishingOK

LEMMA WiringOfParts ==
  ASSUME OrderInv, SlotsOK, ClientsOK, TasksOK, PublishingOK
  PROVE  WiringInv
BY DEF OrderInv, RecordsOK, WiringInv, PublicationTypeOK, SlotsOK, ClientsOK, TasksOK, PublishingOK

LEMMA NextWiringOfParts ==
  ASSUME OrderInv', SlotsOK', ClientsOK', TasksOK', PublishingOK'
  PROVE  WiringInv'
BY DEF OrderInv, RecordsOK, WiringInv, PublicationTypeOK, SlotsOK, ClientsOK, TasksOK, PublishingOK

LEMMA OpeningKeepsSlots ==
  ASSUME SlotsOK, connected \subseteq Tabs, NEW o \in Owners, NEW r \in Runs, StartJob(o, r)
  PROVE  SlotsOK'
<1>1. /\ slot' \in [Owners -> {0} \union Runs]
      /\ subs' \in [Owners -> SUBSET Tabs]
      /\ buffer' \in [Owners -> SUBSET Events]
  BY Constants DEF SlotsOK, StartJob, Audience
<1>2. {x \in Owners : slot'[x] # 0} = {x \in Owners : slot[x] # 0} \union {o}
  BY Constants DEF SlotsOK, StartJob
<1>3. /\ order' \in Seq(Owners) /\ IsInjective(order')
      /\ ToSet(order') = ToSet(order) \union {o}
  <2>1. CASE Contains(order, o)
    <3>1. o \in ToSet(order)
      BY <2>1, LenProperties DEF Contains, ToSet, SlotsOK
    <3>. QED
      BY <2>1, <3>1 DEF StartJob, SlotsOK
  <2>2. CASE ~Contains(order, o)
    BY <2>2, Appending DEF StartJob, SlotsOK
  <2>. QED
    BY <2>1, <2>2
<1>. QED
  BY <1>1, <1>2, <1>3 DEF SlotsOK

LEMMA ClosingKeepsSlots ==
  ASSUME SlotsOK, NEW o \in Owners, EndJob(o)
  PROVE  SlotsOK'
<1>1. /\ slot' \in [Owners -> {0} \union Runs]
      /\ subs' \in [Owners -> SUBSET Tabs]
      /\ buffer' \in [Owners -> SUBSET Events]
  BY DEF SlotsOK, EndJob
<1>2. {x \in Owners : slot'[x] # 0} = {x \in Owners : slot[x] # 0} \ {o}
  BY DEF SlotsOK, EndJob
<1>3. /\ order' \in Seq(Owners) /\ IsInjective(order')
      /\ ToSet(order') = ToSet(order) \ {o}
  BY Removing DEF EndJob, SlotsOK
<1>. QED
  BY <1>1, <1>2, <1>3 DEF SlotsOK

\* The owner find_active_owner finds has an open slot.
LEMMA FirstOwnerIsOpen ==
  ASSUME SlotsOK
  PROVE  /\ FindActiveOwner \in Owners \union {Free}
         /\ FindActiveOwner # Free => slot[FindActiveOwner] # 0
         /\ FindActiveOwner = Free => \A o \in Owners : slot[o] = 0
<1>1. CASE order = <<>>
  <2>1. ToSet(order) = {}
    BY <1>1 DEF ToSet
  <2>. QED
    BY <1>1, <2>1, Constants DEF FindActiveOwner, SlotsOK
<1>2. CASE order # <<>>
  <2>1. Head(order) \in ToSet(order)
    BY <1>2, FirstIsOpen DEF SlotsOK
  <2>. QED
    BY <1>2, <2>1, Constants DEF FindActiveOwner, SlotsOK
<1>. QED
  BY <1>1, <1>2

\* How one task moves while the others stay.
Moves(r, from, to) ==
  /\ task[r].pc = from /\ task'[r].pc = to
  /\ task'[r].owner = task[r].owner
  /\ \A x \in Runs : x # r => task'[x] = task[x]
Counts(r, sent, source) == task'[r].sent = sent /\ task'[r].source = source

LEMMA TaskStepMoves ==
  ASSUME TasksOK, SlotsOK, NEW r \in Runs, OwnerOf(r) \in Owners
  PROVE  LET Same == Counts(r, task[r].sent, task[r].source) IN
         /\ TaskStep(r) => TasksOK'
         /\ OpenSlot(r) => /\ Same
                           /\ Moves(r, "admitted", IF job[OwnerOf(r)].run = 0 THEN "done" ELSE "opened")
         /\ PublishStart(r) => Same /\ Moves(r, "opened", "scheduled")
         /\ ScheduleFails(r) => Same /\ Moves(r, "scheduled", "closing")
         /\ TaskBegins(r) => Counts(r, task[r].sent, slot[OwnerOf(r)]) /\ Moves(r, "scheduled", "body")
         /\ TaskProgresses(r) => Same /\ Moves(r, "body", "body")
         /\ TaskRecords(r) => Same /\ Moves(r, "body", "emitting")
         /\ TaskDelivers(r) => Counts(r, task[r].sent + 1, task[r].source) /\ Moves(r, "emitting", "body")
         /\ TaskEnds(r) => Same /\ Moves(r, "body", "ended")
         /\ TaskClears(r) => Same /\ Moves(r, "ended", "closing")
         /\ TaskCloses(r) => Same /\ Moves(r, "closing", "done")
<1>. DEFINE Same == Counts(r, task[r].sent, task[r].source)
<1>0. /\ task[r] \in Task /\ task \in [Runs -> Task]
      /\ MaxEvents \in Nat
      /\ slot[OwnerOf(r)] \in {0} \union Runs
  BY Constants DEF TasksOK, SlotsOK
<1>. USE DEF Moves, Counts
<1>1. OpenSlot(r) => /\ Same /\ TasksOK'
                     /\ Moves(r, "admitted", IF job[OwnerOf(r)].run = 0 THEN "done" ELSE "opened")
  BY <1>0 DEF OpenSlot, Task, TaskPCs, TasksOK
<1>2. PublishStart(r) => TasksOK' /\ Same /\ Moves(r, "opened", "scheduled")
  BY <1>0 DEF PublishStart, Task, TaskPCs, TasksOK
<1>3. ScheduleFails(r) => TasksOK' /\ Same /\ Moves(r, "scheduled", "closing")
  BY <1>0 DEF ScheduleFails, Task, TaskPCs, TasksOK
<1>4. TaskBegins(r) =>
        TasksOK' /\ Counts(r, task[r].sent, slot[OwnerOf(r)]) /\ Moves(r, "scheduled", "body")
  <2>. SUFFICES ASSUME TaskBegins(r)
                PROVE  TasksOK' /\ Counts(r, task[r].sent, slot[OwnerOf(r)]) /\ Moves(r, "scheduled", "body")
    OBVIOUS
  <2>. DEFINE k == [task[r] EXCEPT !.pc = "body", !.source = slot[OwnerOf(r)]]
  <2>1. /\ k \in Task /\ k.pc = "body" /\ k.owner = task[r].owner /\ k.sent = task[r].sent
        /\ k.source = slot[OwnerOf(r)]
    BY <1>0 DEF Task, TaskPCs
  <2>2. task[r].pc = "scheduled" /\ task' = [task EXCEPT ![r] = k]
    BY <1>0 DEF TaskBegins
  <2>. HIDE DEF k
  <2>. QED
    BY <1>0, <2>1, <2>2 DEF TasksOK
<1>5. TaskProgresses(r) => TasksOK' /\ Same /\ Moves(r, "body", "body")
  BY <1>0 DEF TaskProgresses, TasksOK
<1>6. TaskRecords(r) => TasksOK' /\ Same /\ Moves(r, "body", "emitting")
  BY <1>0 DEF TaskRecords, Task, TaskPCs, TasksOK
<1>7. TaskDelivers(r) =>
        TasksOK' /\ Counts(r, task[r].sent + 1, task[r].source) /\ Moves(r, "emitting", "body")
  <2>1. TaskDelivers(r) => task[r].sent + 1 \in 0..MaxEvents
    BY <1>0 DEF TaskDelivers, TasksOK, Task
  <2>. QED
    BY <1>0, <2>1 DEF TaskDelivers, Task, TaskPCs, TasksOK
<1>8. TaskEnds(r) => TasksOK' /\ Same /\ Moves(r, "body", "ended")
  BY <1>0 DEF TaskEnds, Task, TaskPCs, TasksOK
<1>9. TaskClears(r) => TasksOK' /\ Same /\ Moves(r, "ended", "closing")
  BY <1>0 DEF TaskClears, Task, TaskPCs, TasksOK
<1>10. TaskCloses(r) => TasksOK' /\ Same /\ Moves(r, "closing", "done")
  BY <1>0 DEF TaskCloses, Task, TaskPCs, TasksOK
<1>. HIDE DEF Moves, Counts
<1>. QED
  BY <1>1, <1>2, <1>3, <1>4, <1>5, <1>6, <1>7, <1>8, <1>9, <1>10 DEF TaskStep

\* However it goes, a task keeps its owner and moves forward.
LEMMA TaskStepMovesOne ==
  ASSUME TasksOK, SlotsOK, NEW r \in Runs, OwnerOf(r) \in Owners, TaskStep(r)
  PROVE  /\ task[r].pc \notin {"none", "done"} /\ task'[r].pc \notin {"none", "admitted"}
         /\ task'[r].owner = task[r].owner
         /\ \A x \in Runs : x # r => task'[x] = task[x]
<1>1. PICK from \in TaskPCs \ {"none", "done"}, to \in TaskPCs \ {"none", "admitted"} : Moves(r, from, to)
  BY TaskStepMoves DEF TaskStep, TaskPCs
<1>. QED
  BY <1>1 DEF Moves

-----------------------------------------------------------------------------
(* Wiring: types, and how each kind of step moves tasks, threads and clients. *)

LEMMA InitWiring == Init => WiringInv
<1>. SUFFICES ASSUME Init PROVE WiringInv
  OBVIOUS
<1>0. OrderInv
  BY InitOrder
<1>1. SlotsOK
  <2>1. <<>> \in Seq(Owners) /\ IsInjective(<<>>) /\ ToSet(<<>>) = {}
    BY EmptySeq DEF IsInjective, ToSet
  <2>. QED
    BY <2>1 DEF Init, SlotsOK
<1>2. ClientsOK
  <2>1. NotConnected \in Conn /\ NotConnected.pc = "out"
    BY DEF NotConnected, Conn, ConnPCs
  <2>. HIDE DEF NotConnected
  <2>. QED
    BY <2>1 DEF Init, ClientsOK, Replaying
<1>3. TasksOK
  BY Constants DEF Init, TasksOK, NoTask
<1>4. \A th \in Threads : pub[th].pc = "idle"
  BY DEF Init, NotPublishing
<1>5. lock = Free /\ got \in [Tabs -> SUBSET Events]
  BY DEF Init
<1>. QED
  BY <1>0, <1>1, <1>2, <1>3, <1>4, <1>5, WiringOfParts DEF PublishingOK

\* A thread that starts to wait judges nothing.
LEMMA WaitingJudgesNothing ==
  ASSUME OrderInv, WiringInv, pub' = pub \/ \E th \in Threads, o \in Owners : Publishing(th, o)
  PROVE  \A th \in Threads : pub'[th].pc \in {"judging", "reopening"} => pub'[th].snap.run # 0
<1>1. CASE pub' = pub
  BY <1>1 DEF WiringInv
<1>2. ASSUME NEW th \in Threads, NEW o \in Owners, Publishing(th, o)
      PROVE  \A x \in Threads : pub'[x].pc \in {"judging", "reopening"} => pub'[x].snap.run # 0
  BY <1>2, PublishingWaits DEF OrderInv, WiringInv
<1>. QED
  BY <1>1, <1>2

LEMMA TaskKeepsWiring ==
  ASSUME OrderInv, OrderInv', WiringInv, NEW r \in Runs, TaskStep(r)
  PROVE  WiringInv'
<1>0. /\ SlotsOK /\ ClientsOK /\ TasksOK /\ got \in [Tabs -> SUBSET Events]
      /\ OwnerOf(r) \in Owners /\ job \in [Owners -> Job] /\ r \in Threads
      /\ lock \in Threads \union Tabs \union {Free}
  <2>1. task[r].pc # "none"
    BY DEF TaskStep, OpenSlot, PublishStart, ScheduleFails, TaskBegins, TaskProgresses, TaskRecords,
       TaskDelivers, TaskEnds, TaskClears, TaskCloses
  <2>. QED
    BY <2>1, WiringParts, Constants DEF OrderInv, RecordsOK, PublishingOK
<1>1. TasksOK'
  BY <1>0, TaskStepMoves
<1>2. SlotsOK'
  <2>1. CASE UNCHANGED broadcaster
    BY <2>1, <1>0 DEF broadcaster, SlotsOK
  <2>2. CASE OpenSlot(r) /\ job[OwnerOf(r)].run # 0
    <3>1. StartJob(OwnerOf(r), job[OwnerOf(r)].run)
      BY <2>2 DEF OpenSlot
    <3>2. job[OwnerOf(r)].run \in Runs
      BY <2>2, <1>0 DEF Job
    <3>. QED
      BY <3>1, <3>2, <1>0, OpeningKeepsSlots DEF ClientsOK
  <2>3. CASE TaskCloses(r)
    BY <2>3, <1>0, ClosingKeepsSlots DEF TaskCloses
  <2>4. CASE TaskRecords(r)
    <3>1. <<r, task[r].sent + 1>> \in Events
      BY <2>4, <1>0, Constants DEF TaskRecords, TasksOK, Task, Events
    <3>2. slot' = slot /\ order' = order /\ subs' = subs /\ buffer' \in [Owners -> SUBSET Events]
      BY <2>4, <3>1, <1>0 DEF TaskRecords, SlotsOK
    <3>. QED
      BY <3>2, <1>0 DEF SlotsOK
  <2>. QED
    BY <2>1, <2>2, <2>3, <2>4 DEF TaskStep, OpenSlot, PublishStart, ScheduleFails, TaskBegins,
       TaskProgresses, TaskDelivers, TaskEnds, TaskClears
<1>3. ClientsOK' /\ lock' = lock
  <2>1. UNCHANGED <<connected, synced, conn, lock>>
    BY DEF TaskStep, OpenSlot, PublishStart, ScheduleFails, TaskBegins, TaskProgresses, TaskRecords,
       TaskDelivers, TaskEnds, TaskClears, TaskCloses, clients
  <2>. QED
    BY <2>1, <1>0 DEF ClientsOK, Replaying
<1>4. \A th \in Threads : pub'[th].pc \in {"judging", "reopening"} => pub'[th].snap.run # 0
  <2>1. pub' = pub \/ Publishing(r, OwnerOf(r))
    BY DEF TaskStep, OpenSlot, PublishStart, ScheduleFails, TaskBegins, TaskProgresses, TaskRecords,
       TaskDelivers, TaskEnds, TaskClears, TaskCloses
  <2>. QED
    BY <2>1, <1>0, WaitingJudgesNothing
<1>5. got' \in [Tabs -> SUBSET Events]
  <2>1. CASE got' = got
    BY <2>1, <1>0
  <2>2. CASE TaskDelivers(r)
    <3>1. <<r, task[r].sent + 1>> \in Events
      BY <2>2, <1>0, Constants DEF TaskDelivers, TasksOK, Task, Events
    <3>. QED
      BY <2>2, <3>1, <1>0 DEF TaskDelivers
  <2>. QED
    BY <2>1, <2>2 DEF TaskStep, OpenSlot, PublishStart, ScheduleFails, TaskBegins, TaskProgresses,
       TaskRecords, TaskEnds, TaskClears, TaskCloses, received
<1>. QED
  BY <1>0, <1>1, <1>2, <1>3, <1>4, <1>5, NextWiringOfParts DEF PublishingOK

\* A publication moves itself, and nothing of clients and tasks.
LEMMA PublishStepMoves ==
  ASSUME RecordsOK, NEW th \in Threads, PublishStep(th)
  PROVE  /\ pub[th].owner \in Owners
         /\ \A x \in Threads : x # th => pub'[x] = pub[x]
         /\ UNCHANGED <<job, task, connected, synced, conn, got>>
         /\ \/ /\ pub[th].pc = "waiting" /\ lock = Free /\ lock' = th
               /\ UNCHANGED <<broadcaster, last>>
               /\ pub'[th].snap = Snapshot(pub[th].owner) /\ pub'[th].owner = pub[th].owner
               /\ pub'[th].pc = IF Snapshot(pub[th].owner).run = 0 THEN "sending" ELSE "judging"
            \/ /\ pub[th].pc = "judging" /\ lock' = lock
               /\ UNCHANGED <<broadcaster, last>>
               /\ pub'[th].snap = pub[th].snap /\ pub'[th].owner = pub[th].owner
               /\ pub'[th].pc = IF slot[pub[th].owner] # pub[th].snap.run THEN "reopening" ELSE "sending"
            \/ /\ pub[th].pc = "reopening" /\ lock' = lock
               /\ StartJob(pub[th].owner, pub[th].snap.run) /\ last' = last
               /\ pub'[th].snap = pub[th].snap /\ pub'[th].owner = pub[th].owner
               /\ pub'[th].pc = "sending"
            \/ /\ pub[th].pc = "sending" /\ lock' = Free /\ pub'[th].pc = "idle"
               /\ UNCHANGED broadcaster
               /\ LET o == pub[th].owner IN
                  Tell((subs[o] \union (IF pub[th].snap.run = 0 THEN {o} ELSE {})) \intersect connected,
                       o, pub[th].snap)
<1>0. /\ pub[th].pc # "idle" /\ pub[th].owner \in Owners
      /\ pub \in [Threads -> Pub] /\ pub[th] \in Pub
  BY DEF PublishStep, PublishReads, PublishJudges, PublishReopens, PublishSends, RecordsOK
<1>1. CASE PublishReads(th)
  <2>1. pub' = [pub EXCEPT ![th] = [pub[th] EXCEPT !.snap = Snapshot(pub[th].owner),
                  !.pc = IF Snapshot(pub[th].owner).run = 0 THEN "sending" ELSE "judging"]]
    BY <1>0, <1>1 DEF PublishReads, Pub
  <2>2. /\ \A x \in Threads : x # th => pub'[x] = pub[x]
        /\ pub'[th].snap = Snapshot(pub[th].owner) /\ pub'[th].owner = pub[th].owner
        /\ pub'[th].pc = IF Snapshot(pub[th].owner).run = 0 THEN "sending" ELSE "judging"
    BY <2>1, <1>0 DEF Pub
  <2>. QED
    BY <1>0, <1>1, <2>2 DEF PublishReads, MayEnter, registry, broadcaster, clients, received
<1>2. CASE PublishJudges(th)
  BY <1>0, <1>2 DEF PublishJudges, SlotDiffers, registry, broadcaster, clients, received, Pub
<1>3. CASE PublishReopens(th)
  BY <1>0, <1>3 DEF PublishReopens, registry, clients, received, Pub
<1>4. CASE PublishSends(th)
  BY <1>0, <1>4 DEF PublishSends, registry, broadcaster, clients, NotPublishing
<1>. QED
  BY <1>1, <1>2, <1>3, <1>4 DEF PublishStep

LEMMA PublishKeepsWiring ==
  ASSUME OrderInv, OrderInv', WiringInv, NEW th \in Threads, PublishStep(th)
  PROVE  WiringInv'
<1>. DEFINE o == pub[th].owner
<1>0. /\ SlotsOK /\ ClientsOK /\ TasksOK /\ got \in [Tabs -> SUBSET Events]
      /\ lock \in Threads \union Tabs \union {Free} /\ RecordsOK
      /\ pub[th].pc \in {"judging", "reopening"} => pub[th].snap.run \in Runs
      /\ \A x \in Threads : pub[x].pc \in {"judging", "reopening"} => pub[x].snap.run # 0
  BY WiringParts DEF OrderInv, RecordsOK, Pub, Status, PublishingOK
<1>1. /\ UNCHANGED <<job, task, connected, synced, conn, got>>
      /\ \A x \in Threads : x # th => pub'[x] = pub[x]
      /\ o \in Owners /\ lock' \in {lock, th, Free}
  BY <1>0, PublishStepMoves
<1>2. SlotsOK'
  <2>1. CASE UNCHANGED broadcaster
    BY <2>1, <1>0 DEF broadcaster, SlotsOK
  <2>2. CASE StartJob(o, pub[th].snap.run) /\ pub[th].pc = "reopening"
    <3>1. pub[th].snap.run \in Runs
      BY <2>2, <1>0
    <3>. QED
      BY <2>2, <3>1, <1>0, <1>1, OpeningKeepsSlots DEF ClientsOK
  <2>. QED
    BY <2>1, <2>2, <1>0, PublishStepMoves
<1>3. pub'[th].pc \in {"judging", "reopening"} => pub'[th].snap.run # 0
  BY <1>0, PublishStepMoves
<1>4. ClientsOK' /\ TasksOK'
  BY <1>0, <1>1 DEF ClientsOK, TasksOK, Replaying
<1>. QED
  BY <1>0, <1>1, <1>2, <1>3, <1>4, NextWiringOfParts DEF PublishingOK

\* A connecting client: what it does to itself and to the slots.
LEMMA ConnectStepMoves ==
  ASSUME WiringInv, NEW t \in Tabs, ConnectStep(t)
  PROVE  /\ UNCHANGED <<job, task, pub, synced>>
         /\ \A x \in Tabs : x # t => conn'[x] = conn[x]
         /\ conn' \in [Tabs -> Conn]
         /\ \/ /\ ConnectRegisters(t) /\ conn[t].pc = "out" /\ conn'[t].pc = "registered"
               /\ connected' = connected \union {t}
            \/ /\ connected' = connected
               /\ \/ /\ ConnectFindsNone(t) /\ conn[t].pc = "registered" /\ conn'[t].pc = "in"
                  \/ /\ ConnectLooks(t) /\ conn[t].pc = "registered" /\ conn'[t].pc = "looked"
                     /\ conn'[t].owner = FindActiveOwner /\ FindActiveOwner # Free
                  \/ /\ ConnectDecides(t) /\ conn[t].pc = "looked"
                     /\ conn'[t].pc \in {"ending", "copying", "joining"}
                     /\ conn'[t].pc = "ending" <=> job[conn[t].owner].status # "active"
                     /\ conn'[t].owner = conn[t].owner
                     /\ conn'[t].pc = "joining" => t \in Bridges
                  \/ /\ ConnectEndsSlot(t) /\ conn[t].pc = "ending" /\ conn'[t].pc = "in"
                  \/ /\ ConnectCopies(t) /\ conn[t].pc = "copying" /\ conn'[t].pc = "joining"
                     /\ conn'[t].owner = conn[t].owner
                  \/ /\ ConnectJoins(t) /\ conn[t].pc = "joining" /\ conn'[t].pc = "replaying"
                     /\ conn'[t].owner = conn[t].owner
                  \/ /\ ConnectReplays(t) /\ conn[t].pc = "replaying" /\ conn'[t].pc = "in"
<1>0. /\ conn \in [Tabs -> Conn] /\ conn[t] \in Conn /\ SlotsOK /\ ClientsOK
      /\ \A o \in Owners : buffer[o] \in SUBSET Events
      /\ conn[t].pc \in {"copying", "joining", "replaying"} => conn[t].owner \in Owners
  BY WiringParts DEF ClientsOK, SlotsOK, Replaying
<1>1. CASE ConnectRegisters(t)
  BY <1>0, <1>1 DEF ConnectRegisters, registry, Conn, ConnPCs
<1>2. CASE ConnectFindsNone(t)
  BY <1>0, <1>2 DEF ConnectFindsNone, registry, Conn, ConnPCs
<1>3. CASE ConnectLooks(t)
  <2>1. FindActiveOwner \in Owners \union {Free}
    BY <1>0, FirstOwnerIsOpen
  <2>2. conn' = [conn EXCEPT ![t] = [conn[t] EXCEPT !.pc = "looked", !.owner = FindActiveOwner]]
    BY <1>0, <1>3 DEF ConnectLooks
  <2>. QED
    BY <1>0, <1>3, <2>1, <2>2 DEF ConnectLooks, registry, Conn, ConnPCs
<1>4. CASE ConnectDecides(t)
  BY <1>0, <1>4 DEF ConnectDecides, registry, Conn, ConnPCs, CopiesBeforeJoining
<1>5. CASE ConnectEndsSlot(t)
  <2>1. conn' = [conn EXCEPT ![t] = [conn[t] EXCEPT !.pc = "in", !.owner = Free]]
    BY <1>0, <1>5 DEF ConnectEndsSlot
  <2>. QED
    BY <1>0, <1>5, <2>1 DEF ConnectEndsSlot, registry, Conn, ConnPCs
<1>6. CASE ConnectCopies(t)
  <2>1. conn' = [conn EXCEPT ![t] = [conn[t] EXCEPT !.pc = "joining", !.replay = buffer[conn[t].owner]]]
    BY <1>0, <1>6 DEF ConnectCopies
  <2>2. buffer[conn[t].owner] \in SUBSET Events
    BY <1>0, <1>6 DEF ConnectCopies
  <2>. QED
    BY <1>0, <1>6, <2>1, <2>2 DEF ConnectCopies, registry, Conn, ConnPCs
<1>7. CASE ConnectJoins(t)
  BY <1>0, <1>7 DEF ConnectJoins, registry, Conn, ConnPCs
<1>8. CASE ConnectReplays(t)
  <2>. DEFINE c == [NotConnected EXCEPT !.pc = "in"]
  <2>1. c \in Conn /\ c.pc = "in"
    BY DEF NotConnected, Conn, ConnPCs
  <2>2. conn' = [conn EXCEPT ![t] = c]
    BY <1>8 DEF ConnectReplays
  <2>. HIDE DEF c
  <2>. QED
    BY <1>0, <1>8, <2>1, <2>2 DEF ConnectReplays, registry
<1>. QED
  BY <1>1, <1>2, <1>3, <1>4, <1>5, <1>6, <1>7, <1>8 DEF ConnectStep

LEMMA ConnectKeepsWiring ==
  ASSUME OrderInv, OrderInv', WiringInv, NEW t \in Tabs, ConnectStep(t)
  PROVE  WiringInv'
<1>0. /\ SlotsOK /\ ClientsOK /\ TasksOK /\ PublishingOK
      /\ conn[t] \in Conn
      /\ Replaying(t) => conn[t].owner \in Owners
  BY WiringParts DEF ClientsOK
<1>1. SlotsOK'
  <2>1. CASE UNCHANGED broadcaster
    BY <2>1, <1>0 DEF broadcaster, SlotsOK
  <2>2. CASE ConnectEndsSlot(t)
    <3>1. conn[t].owner \in Owners
      BY <2>2, <1>0 DEF ConnectEndsSlot, Replaying
    <3>. QED
      BY <2>2, <3>1, <1>0, ClosingKeepsSlots DEF ConnectEndsSlot
  <2>3. CASE ConnectJoins(t)
    BY <2>3, <1>0 DEF ConnectJoins, SlotsOK
  <2>. QED
    BY <2>1, <2>2, <2>3 DEF ConnectStep, ConnectRegisters, ConnectFindsNone, ConnectLooks,
       ConnectDecides, ConnectCopies, ConnectReplays
<1>2. ClientsOK'
  <2>1. /\ conn' \in [Tabs -> Conn] /\ synced' = synced
        /\ \A x \in Tabs : x # t => conn'[x] = conn[x]
    BY ConnectStepMoves
  <2>2. /\ Replaying(t)' => conn'[t].owner \in Owners
        /\ t \in connected' /\ connected' = connected \union {t}
        /\ conn'[t].pc \notin {"out", "gone"} /\ conn[t].pc # "in"
    BY <1>0, FirstOwnerIsOpen, ConnectStepMoves DEF Replaying, ClientsOK
  <2>. QED
    BY <1>0, <2>1, <2>2 DEF ClientsOK, Replaying
<1>3. TasksOK'
  BY <1>0, ConnectStepMoves DEF TasksOK
<1>4. PublishingOK'
  <2>1. lock' \in {t, Free, lock}
    BY DEF ConnectStep, ConnectRegisters, ConnectFindsNone, ConnectLooks, ConnectDecides,
       ConnectEndsSlot, ConnectCopies, ConnectJoins, ConnectReplays
  <2>2. got' \in [Tabs -> SUBSET Events]
    <3>1. CASE got' = got
      BY <3>1, <1>0 DEF PublishingOK
    <3>2. CASE ConnectReplays(t)
      <4>1. conn[t].replay \in SUBSET Events /\ buffer[conn[t].owner] \in SUBSET Events
        BY <3>2, <1>0 DEF ConnectReplays, Conn, SlotsOK, Replaying
      <4>. QED
        BY <3>2, <4>1, <1>0 DEF ConnectReplays, PublishingOK
    <3>. QED
      BY <3>1, <3>2 DEF ConnectStep, ConnectRegisters, ConnectFindsNone, ConnectLooks, ConnectDecides,
         ConnectEndsSlot, ConnectCopies, ConnectJoins, received
  <2>. QED
    BY <1>0, <2>1, <2>2, ConnectStepMoves DEF PublishingOK
<1>. QED
  BY <1>1, <1>2, <1>3, <1>4, NextWiringOfParts

LEMMA AdmitMoves ==
  ASSUME TasksOK, job \in [Owners -> Job], NEW o \in Owners, NEW r \in Runs, Admit(o, r)
  PROVE  /\ TasksOK'
         /\ task'[r].owner = o /\ task'[r].pc = "admitted"
         /\ task'[r].sent = 0 /\ task'[r].source = 0
         /\ \A x \in Runs : x # r => task'[x] = task[x]
         /\ job'[o].run = r /\ job'[o].status = "active" /\ ~job'[o].disconnected
         /\ \A x \in Owners : x # o => job'[x] = job[x]
<1>. DEFINE k == [NoTask EXCEPT !.owner = o, !.pc = "admitted"]
            j == [run |-> r, status |-> "active", version |-> 1, disconnected |-> FALSE]
<1>1. k \in Task /\ k.owner = o /\ k.pc = "admitted" /\ k.sent = 0 /\ k.source = 0
  BY Constants DEF NoTask, Task, TaskPCs
<1>2. j.run = r /\ j.status = "active" /\ ~j.disconnected
  OBVIOUS
<1>3. task' = [task EXCEPT ![r] = k] /\ job' = [job EXCEPT ![o] = j]
  BY DEF Admit
<1>. HIDE DEF k, j
<1>. QED
  BY <1>1, <1>2, <1>3 DEF TasksOK

LEMMA RequestKeepsWiring ==
  ASSUME OrderInv, OrderInv', WiringInv,
         \/ \E o \in Owners, r \in Runs : Admit(o, r)
         \/ \E o \in Owners : RequestChanges(o) \/ RequestPublishes(o)
  PROVE  WiringInv'
<1>0. SlotsOK /\ ClientsOK /\ TasksOK /\ PublishingOK /\ job \in [Owners -> Job]
  BY WiringParts DEF OrderInv, RecordsOK
<1>1. UNCHANGED <<broadcaster, clients, lock, received>>
  BY DEF Admit, RequestChanges, RequestPublishes
<1>2. TasksOK'
  <2>1. CASE task' = task
    BY <2>1, <1>0 DEF TasksOK
  <2>2. CASE \E o \in Owners, r \in Runs : Admit(o, r)
    BY <2>2, <1>0, AdmitMoves
  <2>. QED
    BY <2>1, <2>2 DEF RequestChanges, RequestPublishes
<1>3. SlotsOK' /\ ClientsOK'
  BY <1>0, <1>1 DEF broadcaster, clients, SlotsOK, ClientsOK, Replaying
<1>4. PublishingOK'
  <2>1. pub' = pub \/ \E th \in Threads, o \in Owners : Publishing(th, o)
    BY Constants DEF Admit, RequestChanges, RequestPublishes
  <2>. QED
    BY <1>0, <1>1, <2>1, WaitingJudgesNothing DEF PublishingOK, received
<1>. QED
  BY <1>2, <1>3, <1>4, NextWiringOfParts

LEMMA ClientKeepsWiring ==
  ASSUME OrderInv, OrderInv', WiringInv, NEW t \in Tabs,
         RequestPreferred(t) \/ RequestInitial(t) \/ Disconnect(t)
  PROVE  WiringInv'
<1>0. /\ SlotsOK /\ ClientsOK /\ TasksOK /\ PublishingOK
      /\ conn \in [Tabs -> Conn]
  BY WiringParts DEF ClientsOK
<1>1. TasksOK' /\ pub' = pub /\ lock' = lock
  BY <1>0 DEF RequestPreferred, RequestInitial, Disconnect, TasksOK
<1>2. SlotsOK'
  <2>1. CASE UNCHANGED broadcaster
    BY <2>1, <1>0 DEF broadcaster, SlotsOK
  <2>2. CASE Disconnect(t)
    BY <2>2, <1>0 DEF Disconnect, SlotsOK
  <2>. QED
    BY <2>1, <2>2 DEF RequestPreferred, RequestInitial
<1>3. ClientsOK'
  <2>1. CASE RequestPreferred(t)
    BY <2>1, <1>0 DEF RequestPreferred, clients, ClientsOK, Replaying
  <2>2. CASE RequestInitial(t)
    BY <2>2, <1>0 DEF RequestInitial, ClientsOK, Replaying
  <2>3. CASE Disconnect(t)
    <3>. DEFINE c == [NotConnected EXCEPT !.pc = "gone"]
    <3>1. c \in Conn /\ c.pc = "gone"
      BY DEF NotConnected, Conn, ConnPCs
    <3>2. conn' = [conn EXCEPT ![t] = c]
      BY <2>3 DEF Disconnect
    <3>. HIDE DEF c
    <3>. QED
      BY <2>3, <3>1, <3>2, <1>0 DEF Disconnect, ClientsOK, Replaying
  <2>. QED
    BY <2>1, <2>2, <2>3
<1>4. got' \in [Tabs -> SUBSET Events]
  <2>1. CASE got' = got
    BY <2>1, <1>0 DEF PublishingOK
  <2>2. CASE got' = [got EXCEPT ![t] = @ \union InitialReplay(FindActiveOwner)] /\ FindActiveOwner # Free
    <3>1. InitialReplay(FindActiveOwner) \in SUBSET Events
      BY <2>2, <1>0, FirstOwnerIsOpen DEF SlotsOK, InitialReplay
    <3>. QED
      BY <2>2, <3>1, <1>0 DEF PublishingOK
  <2>. QED
    BY <2>1, <2>2 DEF RequestPreferred, RequestInitial, Disconnect, received
<1>. QED
  BY <1>0, <1>1, <1>2, <1>3, <1>4, NextWiringOfParts DEF PublishingOK

LEMMA StepKeepsWiring ==
  ASSUME OrderInv, OrderInv', WiringInv, [Next]_vars
  PROVE  WiringInv'
<1>1. CASE UNCHANGED vars
  BY <1>1 DEF vars, WiringInv, PublicationTypeOK, Replaying
<1>2. CASE Next
  BY <1>2, TaskKeepsWiring, PublishKeepsWiring, ConnectKeepsWiring, RequestKeepsWiring,
     ClientKeepsWiring DEF Next
<1>. QED
  BY <1>1, <1>2

\* Every variable keeps its type, the dict of open slots lists each open slot once, and
\* a client that asked for its initial data is connected.
THEOREM PublicationTypesHold == Spec => []PublicationTypeOK
<1>1. OrderInv /\ OrderInv' /\ WiringInv /\ [Next]_vars => WiringInv'
  BY StepKeepsWiring
<1>2. WiringInv => PublicationTypeOK
  BY DEF WiringInv
<1>. QED
  BY InitWiring, RegistryLeads, <1>1, <1>2, PTL DEF Spec

-----------------------------------------------------------------------------
(* Runs and records.                                                        *)

\* A run publishes its owner's status, between two of its other steps.
PublishesItsOwner ==
  \A r \in Runs : pub[r].pc # "idle" =>
     task[r].pc \in {"scheduled", "body", "ended"} /\ pub[r].owner = OwnerOf(r)

OneRunPerOwner ==
  \A q, r \in Runs : ~Done(q) /\ ~Done(r) /\ OwnerOf(q) = OwnerOf(r) => q = r

\* The registry has a job as active exactly while its run is alive.
AliveHasRecord ==
  \A r \in Runs : Alive(r) => job[OwnerOf(r)].run = r /\ job[OwnerOf(r)].status = "active"
ActiveIsAlive ==
  \A o \in Owners : job[o].status = "active" =>
     \E r \in Runs : job[o].run = r /\ OwnerOf(r) = o /\ Alive(r)

RunsInv == PublishesItsOwner /\ OneRunPerOwner /\ AliveHasRecord /\ ActiveIsAlive

-----------------------------------------------------------------------------
\* What the writes of a record do to its fields.
LEMMA TouchedFields ==
  ASSUME job \in [Owners -> Job], NEW o \in Owners, job' = Touched(o)
  PROVE  /\ job'[o].run = job[o].run /\ job'[o].status = job[o].status
         /\ job'[o].disconnected = job[o].disconnected /\ job'[o].version = job[o].version + 1
         /\ \A x \in Owners : x # o => job'[x] = job[x]
BY DEF Touched, Job

LEMMA EndedFields ==
  ASSUME job \in [Owners -> Job], NEW o \in Owners, NEW s, job' = Ended(o, s), job[o].run # 0
  PROVE  /\ job'[o].run = job[o].run /\ job'[o].status = s
         /\ job'[o].disconnected = job[o].disconnected
         /\ \A x \in Owners : x # o => job'[x] = job[x]
<1>. DEFINE j == [job[o] EXCEPT !.status = s, !.version = MaxVersion]
<1>1. j.run = job[o].run /\ j.status = s /\ j.disconnected = job[o].disconnected
  BY DEF Job
<1>2. job' = [job EXCEPT ![o] = j]
  BY DEF Ended, Job
<1>. HIDE DEF j
<1>. QED
  BY <1>1, <1>2

\* A client's disconnection marks an active record and erases any other.
LEMMA DisconnectFields ==
  ASSUME job \in [Owners -> Job], NEW t \in Tabs, Disconnect(t)
  PROVE  /\ \A x \in Owners : x # t => job'[x] = job[x]
         /\ t \in Owners =>
              \/ /\ job[t].status = "active" /\ job'[t].status = "active"
                 /\ job'[t].run = job[t].run /\ job'[t].version = job[t].version
              \/ job[t].status # "active" /\ job'[t] = NoJob
BY DEF Disconnect, Job

\* What a task's step does to the record of its owner.
Writes(o, run, status) ==
  /\ job'[o].run = run /\ job'[o].status = status
  /\ job'[o].disconnected => job[o].disconnected

LEMMA TaskStepRecords ==
  ASSUME RecordsOK, RunsInv, NEW r \in Runs, TaskStep(r), NEW o, o = task[r].owner
  PROVE  /\ o \in Owners /\ ~Done(r)
         /\ \A x \in Owners : x # o => job'[x] = job[x]
         /\ TaskEnds(r) => job[o].run = r /\ Writes(o, r, "ended")
         /\ ScheduleFails(r) => job[o].run = r /\ Writes(o, r, "failed")
         /\ TaskClears(r) => IF job[o].disconnected THEN job'[o] = NoJob ELSE job' = job
         /\ TaskProgresses(r) => Writes(o, job[o].run, job[o].status)
         /\ TaskEnds(r) \/ ScheduleFails(r) \/ TaskClears(r) \/ TaskProgresses(r) \/ job' = job
<1>0. /\ o \in Owners /\ job \in [Owners -> Job] /\ OwnerOf(r) = o
      /\ task[r].pc \notin {"none", "done"}
      /\ Alive(r) => job[o].run = r /\ r # 0
  <2>1. task[r].pc \notin {"none", "done"}
    BY DEF TaskStep, OpenSlot, PublishStart, ScheduleFails, TaskBegins, TaskProgresses, TaskRecords,
       TaskDelivers, TaskEnds, TaskClears, TaskCloses
  <2>. QED
    BY <2>1, Constants DEF RecordsOK, OwnerOf, Holds, RunsInv, AliveHasRecord
<1>1. TaskEnds(r) => /\ job[o].run = r /\ Writes(o, r, "ended")
                     /\ \A x \in Owners : x # o => job'[x] = job[x]
  <2>1. TaskEnds(r) => job[o].run = r /\ r # 0 /\ job' = Ended(o, "ended")
    BY <1>0 DEF TaskEnds, Alive, AtWork
  <2>. QED
    BY <1>0, <2>1, EndedFields DEF Writes
<1>2. ScheduleFails(r) => /\ job[o].run = r /\ Writes(o, r, "failed")
                          /\ \A x \in Owners : x # o => job'[x] = job[x]
  <2>1. ScheduleFails(r) => job[o].run = r /\ r # 0 /\ job' = Ended(o, "failed")
    BY <1>0 DEF ScheduleFails, Alive
  <2>. QED
    BY <1>0, <2>1, EndedFields DEF Writes
<1>3. TaskClears(r) => /\ IF job[o].disconnected THEN job'[o] = NoJob ELSE job' = job
                       /\ \A x \in Owners : x # o => job'[x] = job[x]
  BY <1>0 DEF TaskClears
<1>4. TaskProgresses(r) => /\ Writes(o, job[o].run, job[o].status)
                           /\ \A x \in Owners : x # o => job'[x] = job[x]
  <2>1. TaskProgresses(r) => job' = Touched(o)
    BY <1>0 DEF TaskProgresses
  <2>. QED
    BY <1>0, <2>1, TouchedFields DEF Writes
<1>5. TaskEnds(r) \/ ScheduleFails(r) \/ TaskClears(r) \/ TaskProgresses(r) \/ job' = job
  BY DEF TaskStep, OpenSlot, PublishStart, TaskBegins, TaskRecords, TaskDelivers, TaskCloses, registry
<1>6. ~Done(r)
  BY <1>0 DEF Done
<1>. QED
  BY <1>0, <1>1, <1>2, <1>3, <1>4, <1>5, <1>6

\* ... and to the publications.
LEMMA TaskStepPublishes ==
  ASSUME RecordsOK, NEW r \in Runs, TaskStep(r), OwnerOf(r) \in Owners
  PROVE  \/ /\ PublishStart(r) \/ TaskProgresses(r) \/ TaskEnds(r)
            /\ pub'[r].pc = "waiting" /\ pub'[r].owner = OwnerOf(r)
            /\ \A x \in Threads : x # r => pub'[x] = pub[x]
         \/ /\ ~(PublishStart(r) \/ TaskProgresses(r) \/ TaskEnds(r)) /\ pub' = pub
            /\ (OpenSlot(r) \/ TaskDelivers(r) \/ TaskCloses(r) \/ pub[r].pc = "idle")
<1>1. CASE PublishStart(r) \/ TaskProgresses(r) \/ TaskEnds(r)
  <2>1. Publishing(r, OwnerOf(r)) /\ r \in Threads
    BY <1>1, Constants DEF PublishStart, TaskProgresses, TaskEnds
  <2>. QED
    BY <1>1, <2>1, PublishingWaits
<1>2. CASE ~(PublishStart(r) \/ TaskProgresses(r) \/ TaskEnds(r))
  BY <1>2 DEF TaskStep, OpenSlot, ScheduleFails, TaskBegins, TaskRecords, TaskDelivers, TaskClears,
     TaskCloses, clients
<1>. QED
  BY <1>1, <1>2

-----------------------------------------------------------------------------
LEMMA InitRuns == Init => RunsInv
BY Constants DEF Init, RunsInv, PublishesItsOwner, OneRunPerOwner, AliveHasRecord, ActiveIsAlive, Alive, AtWork,
   Done, NotPublishing, NoTask, NoJob

LEMMA AdmitKeepsRuns ==
  ASSUME ~Overlap, OrderInv, WiringInv, RunsInv, NEW o \in Owners, NEW r \in Runs, Admit(o, r)
  PROVE  RunsInv'
<1>0. TasksOK /\ job \in [Owners -> Job] /\ \A x \in Runs : ~Done(x) => OwnerOf(x) \in Owners
  BY WiringParts DEF OrderInv, RecordsOK, Done
<1>1. /\ task[r].pc = "none" /\ pub' = pub /\ \A q \in Runs : OwnerOf(q) = o => Done(q)
  BY DEF Admit
<1>2. /\ task'[r].owner = o /\ task'[r].pc = "admitted"
      /\ \A x \in Runs : x # r => task'[x] = task[x]
      /\ job'[o].run = r /\ job'[o].status = "active"
      /\ \A x \in Owners : x # o => job'[x] = job[x]
  BY <1>0, AdmitMoves
<1>. USE DEF RunsInv
<1>3. PublishesItsOwner'
  BY <1>1, <1>2 DEF PublishesItsOwner, OwnerOf
<1>4. OneRunPerOwner'
  BY <1>1, <1>2 DEF OneRunPerOwner, OwnerOf, Done
<1>5. AliveHasRecord'
  BY <1>0, <1>1, <1>2 DEF AliveHasRecord, OwnerOf, Done, Alive, AtWork
<1>6. ActiveIsAlive'
  BY <1>1, <1>2 DEF ActiveIsAlive, OwnerOf, Done, Alive, AtWork
<1>. QED
  BY <1>3, <1>4, <1>5, <1>6

LEMMA TaskKeepsRuns ==
  ASSUME OrderInv, WiringInv, RunsInv, NEW r \in Runs, TaskStep(r)
  PROVE  RunsInv'
<1>. DEFINE o == task[r].owner
<1>0. /\ TasksOK /\ SlotsOK /\ RecordsOK /\ OwnerOf(r) = o
  BY WiringParts DEF OrderInv, OwnerOf
<1>1. /\ o \in Owners /\ task[r].pc \notin {"none", "done"}
      /\ \A x \in Owners : x # o => job'[x] = job[x]
  BY <1>0, TaskStepRecords DEF Done
<1>2. /\ task'[r].owner = o /\ \A x \in Runs : x # r => task'[x] = task[x]
      /\ task'[r].pc # "none"
  BY <1>0, <1>1, TaskStepMovesOne
<1>. USE DEF RunsInv
<1>3. OneRunPerOwner'
  BY <1>1, <1>2 DEF OneRunPerOwner, OwnerOf, Done
<1>4. \A x \in Runs : x # r /\ task[x].pc \notin {"none", "done"} => task[x].owner # o
  BY <1>1 DEF OneRunPerOwner, OwnerOf, Done
<1>5. PublishesItsOwner'
  <2>1. \A x \in Runs : x # r => pub'[x] = pub[x]
    BY <1>0, <1>1, TaskStepPublishes, Constants
  <2>2. pub'[r].pc # "idle" => task'[r].pc \in {"scheduled", "body", "ended"} /\ pub'[r].owner = o
    <3>1. CASE PublishStart(r) \/ TaskProgresses(r) \/ TaskEnds(r)
      <4>1. pub'[r].owner = o
        BY <3>1, <1>0, <1>1, TaskStepPublishes
      <4>2. CASE PublishStart(r)
        BY <4>1, <4>2, <1>0, <1>1, TaskStepMoves DEF Moves
      <4>3. CASE TaskProgresses(r)
        BY <4>1, <4>3, <1>0, <1>1, TaskStepMoves DEF Moves
      <4>4. CASE TaskEnds(r)
        BY <4>1, <4>4, <1>0, <1>1, TaskStepMoves DEF Moves
      <4>. QED
        BY <3>1, <4>2, <4>3, <4>4
    <3>2. CASE ~(PublishStart(r) \/ TaskProgresses(r) \/ TaskEnds(r))
      <4>1. pub' = pub /\ (OpenSlot(r) \/ TaskDelivers(r) \/ TaskCloses(r) \/ pub[r].pc = "idle")
        BY <3>2, <1>0, <1>1, TaskStepPublishes
      <4>2. pub[r].pc = "idle"
        BY <4>1 DEF PublishesItsOwner, OpenSlot, TaskDelivers, TaskCloses
      <4>. QED
        BY <4>1, <4>2
    <3>. QED
      BY <3>1, <3>2
  <2>. HIDE DEF o
  <2>. QED
    BY <2>1, <2>2, <1>2 DEF PublishesItsOwner, OwnerOf
<1>6. AliveHasRecord'
  <2>1. ASSUME NEW x \in Runs, x # r, Alive(x)'
        PROVE  job'[OwnerOf(x)'].run = x /\ job'[OwnerOf(x)'].status = "active"
    <3>1. Alive(x) /\ OwnerOf(x)' = OwnerOf(x) /\ OwnerOf(x) # o /\ OwnerOf(x) \in Owners
      BY <2>1, <1>0, <1>2, <1>4 DEF Alive, AtWork, OwnerOf, RecordsOK
    <3>. QED
      BY <3>1, <1>1 DEF AliveHasRecord
  <2>2. ASSUME Alive(r)'
        PROVE  job'[o].run = r /\ job'[o].status = "active"
    <3>1. Alive(r) /\ ~TaskEnds(r) /\ ~ScheduleFails(r) /\ ~TaskClears(r)
      <4>1. (TaskEnds(r) \/ ScheduleFails(r) \/ TaskClears(r) \/ TaskCloses(r)) => ~Alive(r)'
        BY <1>0, <1>1, TaskStepMoves DEF Moves, Alive, AtWork
      <4>2. ~(TaskEnds(r) \/ ScheduleFails(r) \/ TaskClears(r) \/ TaskCloses(r)) => Alive(r)
        BY <1>0, <1>1, TaskStepMoves DEF TaskStep, Moves, Alive, AtWork
      <4>. QED
        BY <2>2, <4>1, <4>2
    <3>2. job'[o].run = job[o].run /\ job'[o].status = job[o].status
      BY <3>1, <1>0, TaskStepRecords DEF Writes
    <3>. QED
      BY <3>1, <3>2, <1>0 DEF AliveHasRecord
  <2>. QED
    <3>. HIDE DEF o
    <3>. QED
      BY <2>1, <2>2, <1>2 DEF AliveHasRecord, OwnerOf
<1>7. ActiveIsAlive'
  <2>1. ASSUME NEW x \in Owners, x # o, job'[x].status = "active"
        PROVE  \E q \in Runs : job'[x].run = q /\ OwnerOf(q)' = x /\ Alive(q)'
    <3>1. PICK q \in Runs : job[x].run = q /\ OwnerOf(q) = x /\ Alive(q)
      BY <2>1, <1>1 DEF ActiveIsAlive
    <3>2. q # r /\ job'[x] = job[x]
      BY <3>1, <2>1, <1>1 DEF OwnerOf
    <3>. QED
      BY <3>1, <3>2, <1>2 DEF OwnerOf, Alive, AtWork
  <2>2. ASSUME job'[o].status = "active"
        PROVE  job'[o].run = r /\ Alive(r)'
    <3>1. job'[o].run = job[o].run /\ job'[o].status = job[o].status
      <4>1. job'[o].status \notin {"ended", "failed"} /\ job'[o] # NoJob
        BY <2>2 DEF NoJob
      <4>. QED
        BY <4>1, <1>0, TaskStepRecords DEF Writes
    <3>0. ~TaskEnds(r) /\ ~ScheduleFails(r)
      <4>1. TaskEnds(r) \/ ScheduleFails(r) => job[o].run # 0 /\ (job' = Ended(o, "ended") \/ job' = Ended(o, "failed"))
        BY <1>0, Constants DEF TaskEnds, ScheduleFails, AliveHasRecord, Alive, AtWork
      <4>. QED
        BY <4>1, <2>2, <1>0, <1>1, EndedFields DEF RecordsOK
    <3>2. PICK q \in Runs : job[o].run = q /\ OwnerOf(q) = o /\ Alive(q)
      BY <3>1, <2>2, <1>1 DEF ActiveIsAlive
    <3>3. job[o].run = r /\ q = r
      BY <3>2, <1>4 DEF OwnerOf, Alive, AtWork
    <3>4. Alive(r) /\ r # 0
      BY <3>2, <3>3, Constants
    <3>5. ~TaskClears(r) /\ ~TaskCloses(r)
      BY <3>4, <1>0, <1>1, TaskStepMoves DEF Moves, Alive, AtWork
    <3>6. Alive(r)'
      BY <3>0, <3>3, <3>4, <3>5, <1>0, <1>1, TaskStepMoves DEF TaskStep, Moves, Alive, AtWork
    <3>. QED
      BY <3>1, <3>3, <3>6
  <2>3. OwnerOf(r)' = o
    BY <1>2 DEF OwnerOf
  <2>. HIDE DEF o
  <2>. QED
    BY <2>1, <2>2, <2>3 DEF ActiveIsAlive
<1>. QED
  BY <1>3, <1>5, <1>6, <1>7

LEMMA OthersKeepRuns ==
  ASSUME OrderInv, WiringInv, RunsInv,
         \/ UNCHANGED vars
         \/ \E o \in Owners : RequestChanges(o) \/ RequestPublishes(o)
         \/ \E t \in Tabs : ConnectStep(t) \/ RequestPreferred(t) \/ RequestInitial(t) \/ Disconnect(t)
         \/ \E th \in Threads : PublishStep(th)
  PROVE  RunsInv'
<1>0. RecordsOK /\ job \in [Owners -> Job]
  BY DEF OrderInv, RecordsOK
<1>1. task' = task
  BY <1>0, PublishStepMoves, ConnectStepMoves DEF vars, RequestChanges, RequestPublishes,
     RequestPreferred, RequestInitial, Disconnect
<1>2. \A r \in Runs : pub'[r] = pub[r] \/ (pub[r].pc # "idle" /\ (pub'[r].pc = "idle" \/ pub'[r].owner = pub[r].owner))
  <2>1. CASE pub' = pub
    BY <2>1
  <2>2. ASSUME NEW o \in Owners, RequestChanges(o) \/ RequestPublishes(o)
        PROVE  \A r \in Runs : pub'[r] = pub[r]
    <3>1. Publishing(Handler, o) /\ Handler \in Threads /\ Runs \subseteq Threads /\ Handler \notin Runs
      BY <2>2, Constants DEF RequestChanges, RequestPublishes
    <3>. QED
      BY <3>1, <1>0, PublishingWaits
  <2>3. ASSUME NEW th \in Threads, PublishStep(th)
        PROVE  \A r \in Runs : pub'[r] = pub[r] \/ (pub[r].pc # "idle" /\ (pub'[r].pc = "idle" \/ pub'[r].owner = pub[r].owner))
    BY <2>3, <1>0, PublishStepMoves, Constants
  <2>. QED
    BY <2>1, <2>2, <2>3, ConnectStepMoves DEF vars, RequestPreferred, RequestInitial, Disconnect
<1>3. \A o \in Owners :
        /\ job[o].status = "active" <=> job'[o].status = "active"
        /\ job[o].status = "active" => job'[o].run = job[o].run
  <2>1. CASE job' = job
    BY <2>1
  <2>2. ASSUME NEW o \in Owners, RequestChanges(o)
        PROVE  job' = Touched(o)
    BY <2>2 DEF RequestChanges
  <2>3. ASSUME NEW t \in Tabs, Disconnect(t)
        PROVE  \A o \in Owners :
                /\ job[o].status = "active" <=> job'[o].status = "active"
                /\ job[o].status = "active" => job'[o].run = job[o].run
    BY <2>3, <1>0, DisconnectFields DEF NoJob
  <2>. QED
    BY <2>1, <2>2, <2>3, <1>0, TouchedFields, PublishStepMoves, ConnectStepMoves DEF vars, RequestPublishes,
       RequestPreferred, RequestInitial, registry
<1>4. \A r \in Runs : Alive(r) => OwnerOf(r) \in Owners
  BY <1>0 DEF RecordsOK, Alive, AtWork
<1>. QED
  BY <1>1, <1>2, <1>3, <1>4 DEF RunsInv, PublishesItsOwner, OneRunPerOwner, AliveHasRecord, ActiveIsAlive,
     OwnerOf, Done, Alive, AtWork

LEMMA StepKeepsRuns ==
  ASSUME ~Overlap, OrderInv, WiringInv, RunsInv, [Next]_vars
  PROVE  RunsInv'
BY AdmitKeepsRuns, TaskKeepsRuns, OthersKeepRuns DEF Next

-----------------------------------------------------------------------------
(* The slot of a run at work is its own.                                    *)

\* A run is announced once its first status is sent.
Announced(r) == AtWork(r) \/ (task[r].pc = "scheduled" /\ pub[r].pc = "idle")

\* The publication of a start makes the slot its run's ...
StartIsPublished ==
  \A r \in Runs : task[r].pc = "scheduled" /\ Serialized(r) =>
     pub[r].snap.run = r /\ (pub[r].pc = "sending" => slot[OwnerOf(r)] = r)

\* ... and then nobody is about to open it for another or to end it.
AnnouncedHoldsSlot ==
  \A r \in Runs : Announced(r) =>
     /\ slot[OwnerOf(r)] = r
     /\ \A th \in Threads : Serialized(th) /\ pub[th].owner = OwnerOf(r) =>
           pub[th].snap.run = r /\ pub[th].pc # "reopening"
EndingIsOver ==
  \A t \in Tabs, r \in Runs : conn[t].pc = "ending" /\ conn[t].owner = OwnerOf(r) => ~Announced(r)

SlotInv == StartIsPublished /\ AnnouncedHoldsSlot /\ EndingIsOver

\* Which slots a task's step may change: its owner's, and none of a run at work.
LEMMA TaskStepSlots ==
  ASSUME SlotsOK, NEW r \in Runs, TaskStep(r), NEW o \in Owners, o = task[r].owner
  PROVE  /\ \A x \in Owners : x # o => slot'[x] = slot[x]
         /\ OpenSlot(r) \/ TaskCloses(r) \/ slot' = slot
<1>1. CASE OpenSlot(r)
  BY <1>1 DEF OpenSlot, StartJob, SlotsOK, OwnerOf, broadcaster
<1>2. CASE TaskCloses(r)
  BY <1>2 DEF TaskCloses, EndJob, SlotsOK, OwnerOf
<1>3. CASE ~OpenSlot(r) /\ ~TaskCloses(r)
  BY <1>3 DEF TaskStep, PublishStart, ScheduleFails, TaskBegins, TaskProgresses, TaskRecords,
     TaskDelivers, TaskEnds, TaskClears, broadcaster
<1>. QED
  BY <1>1, <1>2, <1>3

\* A task's step announces no run.
LEMMA TaskStepAnnounces ==
  ASSUME OrderInv, WiringInv, RunsInv, NEW r \in Runs, TaskStep(r)
  PROVE  /\ \A x \in Runs : Announced(x)' => Announced(x) /\ OwnerOf(x)' = OwnerOf(x)
         /\ Announced(r)' => slot' = slot
         /\ \A x \in Runs : x # r /\ ~Done(x) => OwnerOf(x) # OwnerOf(r)
         /\ \A th \in Threads : Serialized(th)' =>
              Serialized(th) /\ pub'[th] = pub[th] /\ ~(th = r /\ task'[r].pc = "scheduled")
         /\ task'[r].pc \in {"ended", "closing", "done"} => ~Announced(r)'
<1>. DEFINE o == task[r].owner
<1>0. /\ TasksOK /\ SlotsOK /\ RecordsOK /\ OwnerOf(r) = o /\ o \in Owners
      /\ task[r].pc \notin {"none", "done"}
  BY WiringParts, TaskStepRecords DEF OrderInv, OwnerOf, Done
<1>1. task'[r].owner = o /\ \A x \in Runs : x # r => task'[x] = task[x]
  BY <1>0, TaskStepMovesOne
<1>2. /\ \A x \in Threads : x # r => pub'[x] = pub[x]
      /\ pub'[r] = pub[r] \/ pub'[r].pc = "waiting"
      /\ PublishStart(r) => pub'[r].pc = "waiting"
  BY <1>0, TaskStepPublishes
<1>3. Announced(r)' => Announced(r)
  <2>1. CASE TaskBegins(r)
    BY <2>1 DEF TaskBegins, Announced
  <2>2. CASE PublishStart(r)
    BY <2>2, <1>0, <1>2, TaskStepMoves DEF Moves, Announced, AtWork
  <2>3. CASE ~TaskBegins(r) /\ ~PublishStart(r)
    BY <2>3, <1>0, TaskStepMoves DEF TaskStep, Moves, Announced, AtWork
  <2>. QED
    BY <2>1, <2>2, <2>3
<1>4. Announced(r)' => slot' = slot
  <2>1. OpenSlot(r) \/ TaskCloses(r) => ~Announced(r)'
    BY <1>0, TaskStepMoves DEF Moves, Announced, AtWork
  <2>. QED
    BY <2>1, <1>0, TaskStepSlots
<1>5. \A x \in Runs : x # r => (Announced(x)' => Announced(x)) /\ OwnerOf(x)' = OwnerOf(x)
  BY <1>1, <1>2, Constants DEF Announced, AtWork, OwnerOf
<1>6. \A x \in Runs : x # r /\ ~Done(x) => OwnerOf(x) # OwnerOf(r)
  BY <1>0 DEF RunsInv, OneRunPerOwner, Done
<1>7. \A th \in Threads : Serialized(th)' => Serialized(th) /\ pub'[th] = pub[th]
  BY <1>2 DEF Serialized
<1>8. task'[r].pc = "scheduled" => ~Serialized(r)'
  <2>1. task'[r].pc = "scheduled" => PublishStart(r)
    BY <1>0, TaskStepMoves DEF TaskStep, Moves
  <2>. QED
    BY <2>1, <1>2 DEF Serialized
<1>9. task'[r].pc \in {"ended", "closing", "done"} => ~Announced(r)'
  BY DEF Announced, AtWork
<1>10. OwnerOf(r)' = OwnerOf(r)
  BY <1>1 DEF OwnerOf
<1>. HIDE DEF o
<1>. QED
  BY <1>3, <1>4, <1>5, <1>6, <1>7, <1>8, <1>9, <1>10

LEMMA TaskKeepsSlots ==
  ASSUME OrderInv, WiringInv, RunsInv, SlotInv, NEW r \in Runs, TaskStep(r)
  PROVE  SlotInv'
<1>0. /\ TasksOK /\ SlotsOK /\ RecordsOK /\ OwnerOf(r) \in Owners
      /\ \A x \in Runs : ~Done(x) => OwnerOf(x) \in Owners
  BY WiringParts, TaskStepRecords DEF OrderInv, OwnerOf, RecordsOK, Done
<1>1. /\ \A x \in Runs : Announced(x)' => Announced(x) /\ OwnerOf(x)' = OwnerOf(x)
      /\ Announced(r)' => slot' = slot
      /\ \A x \in Runs : x # r /\ ~Done(x) => OwnerOf(x) # OwnerOf(r)
      /\ \A th \in Threads : Serialized(th)' =>
           Serialized(th) /\ pub'[th] = pub[th] /\ ~(th = r /\ task'[r].pc = "scheduled")
  BY TaskStepAnnounces
<1>2. \A x \in Owners : x # OwnerOf(r) => slot'[x] = slot[x]
  BY <1>0, TaskStepSlots DEF OwnerOf
<1>3. \A x \in Runs : x # r => task'[x] = task[x]
  BY <1>0, TaskStepMovesOne
<1>. USE DEF SlotInv
<1>4. StartIsPublished'
  <2>. SUFFICES ASSUME NEW x \in Runs, task'[x].pc = "scheduled", Serialized(x)'
                PROVE  pub'[x].snap.run = x /\ (pub'[x].pc = "sending" => slot'[OwnerOf(x)'] = x)
    BY DEF StartIsPublished
  <2>1. x # r /\ pub'[x] = pub[x] /\ Serialized(x)
    BY <1>1, Constants
  <2>2. task[x].pc = "scheduled" /\ OwnerOf(x)' = OwnerOf(x)
    BY <2>1, <1>3 DEF OwnerOf
  <2>3. slot'[OwnerOf(x)] = slot[OwnerOf(x)]
    BY <2>1, <2>2, <1>0, <1>1, <1>2 DEF Done
  <2>. QED
    BY <2>1, <2>2, <2>3 DEF StartIsPublished
<1>5. AnnouncedHoldsSlot'
  <2>. SUFFICES ASSUME NEW x \in Runs, Announced(x)'
                PROVE  /\ slot'[OwnerOf(x)'] = x
                       /\ \A th \in Threads : Serialized(th)' /\ pub'[th].owner = OwnerOf(x)' =>
                            pub'[th].snap.run = x /\ pub'[th].pc # "reopening"
    BY DEF AnnouncedHoldsSlot
  <2>1. Announced(x) /\ OwnerOf(x)' = OwnerOf(x) /\ OwnerOf(x) \in Owners
    BY <1>0, <1>1 DEF Announced, AtWork, Done
  <2>2. slot'[OwnerOf(x)] = slot[OwnerOf(x)]
    BY <2>1, <1>1, <1>2 DEF Announced, AtWork, Done
  <2>. QED
    BY <2>1, <2>2, <1>1 DEF AnnouncedHoldsSlot
<1>6. EndingIsOver'
  <2>1. conn' = conn
    BY DEF TaskStep, OpenSlot, PublishStart, ScheduleFails, TaskBegins, TaskProgresses, TaskRecords,
       TaskDelivers, TaskEnds, TaskClears, TaskCloses, clients
  <2>. QED
    BY <2>1, <1>1 DEF EndingIsOver
<1>. QED
  BY <1>4, <1>5, <1>6

LEMMA PublishKeepsSlots ==
  ASSUME OrderInv, WiringInv, RunsInv, SlotInv, NEW th \in Threads, PublishStep(th)
  PROVE  SlotInv'
<1>. DEFINE o == pub[th].owner
<1>0. /\ SlotsOK /\ RecordsOK /\ SectionsExclude /\ ClientsOK
      /\ \A x \in Runs : Alive(x) => OwnerOf(x) \in Owners /\ Snapshot(OwnerOf(x)).run = x /\ x # 0
      /\ pub[th].pc \in {"judging", "reopening"} => pub[th].snap.run # 0
      /\ Runs \subseteq Threads /\ Tabs \intersect Threads = {} /\ Free \notin Threads /\ Free \notin Tabs
  BY WiringParts, Constants DEF OrderInv, RunsInv, AliveHasRecord, Snapshot, RecordsOK, Alive, AtWork,
     PublishingOK
<1>1. /\ o \in Owners /\ task' = task /\ conn' = conn
      /\ \A x \in Threads : x # th => pub'[x] = pub[x]
  BY <1>0, PublishStepMoves
<1>2. /\ \A x \in Threads : x # th => ~Serialized(x)
      /\ \A t \in Tabs : ~Connecting(t)
  <2>1. lock \in {th, Free}
    BY <1>0, PublishStepMoves DEF SectionsExclude, Serialized
  <2>. QED
    BY <2>1, <1>0 DEF SectionsExclude
<1>. USE DEF SlotInv
<1>3. \A x \in Runs : OwnerOf(x)' = OwnerOf(x) /\ AtWork(x)' = AtWork(x) /\ task'[x].pc = task[x].pc
  BY <1>1 DEF OwnerOf, AtWork
<1>4. \A x \in Owners : x # o => slot'[x] = slot[x]
  BY <1>0, PublishStepMoves DEF StartJob, broadcaster, SlotsOK
<1>5. ASSUME NEW x \in Runs, Announced(x)
      PROVE  /\ slot'[OwnerOf(x)] = slot[OwnerOf(x)]
             /\ Serialized(th)' /\ o = OwnerOf(x) => pub'[th].snap.run = x /\ pub'[th].pc # "reopening"
  <2>1. /\ slot[OwnerOf(x)] = x /\ OwnerOf(x) \in Owners /\ Snapshot(OwnerOf(x)).run = x /\ x # 0
        /\ Serialized(th) /\ o = OwnerOf(x) => pub[th].snap.run = x /\ pub[th].pc # "reopening"
    BY <1>0, <1>5 DEF AnnouncedHoldsSlot, Announced, AtWork, Alive
  <2>2. CASE o = OwnerOf(x)
    BY <2>1, <2>2, <1>0, PublishStepMoves DEF broadcaster, Serialized
  <2>3. CASE o # OwnerOf(x)
    BY <2>1, <2>3, <1>4
  <2>. QED
    BY <2>2, <2>3
<1>6. ASSUME NEW x \in Runs, Announced(x)', ~Announced(x)
      PROVE  x = th /\ slot'[OwnerOf(x)] = x /\ ~Serialized(th)'
  <2>1. task[x].pc = "scheduled" /\ pub'[x].pc = "idle" /\ pub[x].pc # "idle" /\ x = th
    BY <1>0, <1>1, <1>3, <1>6 DEF Announced
  <2>2. pub[th].pc = "sending" /\ UNCHANGED broadcaster
    BY <2>1, <1>0, PublishStepMoves
  <2>. QED
    BY <2>1, <2>2, <1>0 DEF StartIsPublished, Serialized, broadcaster
<1>7. StartIsPublished'
  <2>. SUFFICES ASSUME NEW x \in Runs, task'[x].pc = "scheduled", Serialized(x)'
                PROVE  pub'[x].snap.run = x /\ (pub'[x].pc = "sending" => slot'[OwnerOf(x)] = x)
    BY <1>3 DEF StartIsPublished
  <2>1. x = th /\ task[x].pc = "scheduled"
    BY <1>0, <1>1, <1>2, <1>3 DEF Serialized
  <2>2. /\ o = OwnerOf(x) /\ Snapshot(o).run = x /\ x # 0 /\ slot \in [Owners -> {0} \union Runs]
    BY <2>1, <1>0, PublishStepMoves DEF RunsInv, PublishesItsOwner, Alive, SlotsOK
  <2>3. Serialized(x) => pub[x].snap.run = x /\ (pub[x].pc = "sending" => slot[o] = x)
    BY <2>1, <2>2 DEF StartIsPublished
  <2>4. CASE pub[th].pc = "reopening"
    <3>1. pub'[th].snap.run = pub[th].snap.run /\ StartJob(o, pub[th].snap.run)
      BY <2>4, <1>0, PublishStepMoves
    <3>2. slot' = [slot EXCEPT ![o] = pub[th].snap.run]
      BY <3>1 DEF StartJob
    <3>3. pub[th].snap.run = x
      BY <2>1, <2>3, <2>4 DEF Serialized
    <3>. QED
      BY <1>1, <2>1, <2>2, <3>1, <3>2, <3>3
  <2>5. CASE pub[th].pc # "reopening"
    <3>1. UNCHANGED broadcaster
      BY <2>5, <1>0, PublishStepMoves
    <3>2. slot' = slot
      BY <3>1 DEF broadcaster
    <3>3. CASE pub[th].pc = "waiting"
      BY <2>1, <2>2, <3>3, <1>0, PublishStepMoves
    <3>4. CASE pub[th].pc = "judging"
      BY <2>1, <2>2, <2>3, <3>2, <3>4, <1>0, PublishStepMoves DEF Serialized
    <3>5. CASE pub[th].pc = "sending"
      BY <2>1, <3>5, <1>0, PublishStepMoves DEF Serialized
    <3>. QED
      BY <2>5, <3>3, <3>4, <3>5, <1>0, PublishStepMoves
  <2>. QED
    BY <2>4, <2>5
<1>8. AnnouncedHoldsSlot'
  <2>1. ASSUME NEW x \in Runs, Announced(x)'
        PROVE  /\ slot'[OwnerOf(x)] = x
               /\ \A y \in Threads : Serialized(y)' /\ pub'[y].owner = OwnerOf(x) =>
                     pub'[y].snap.run = x /\ pub'[y].pc # "reopening"
    <3>1. \A y \in Threads : Serialized(y)' => y = th /\ pub'[th].owner = o
      BY <1>0, <1>1, <1>2, PublishStepMoves DEF Serialized
    <3>2. CASE Announced(x)
      BY <3>1, <3>2, <1>5 DEF AnnouncedHoldsSlot
    <3>3. CASE ~Announced(x)
      BY <2>1, <3>1, <3>3, <1>6
    <3>. QED
      BY <3>2, <3>3
  <2>. QED
    BY <2>1, <1>3 DEF AnnouncedHoldsSlot
<1>9. EndingIsOver'
  BY <1>1, <1>2 DEF EndingIsOver, Connecting
<1>. QED
  BY <1>7, <1>8, <1>9

LEMMA ConnectKeepsSlots ==
  ASSUME OrderInv, WiringInv, RunsInv, SlotInv, NEW t \in Tabs, ConnectStep(t)
  PROVE  SlotInv'
<1>0. /\ SlotsOK /\ RecordsOK /\ SectionsExclude /\ ClientsOK
      /\ Tabs \intersect Threads = {} /\ Free \notin Threads
      /\ \A x \in Runs : Announced(x) => job[OwnerOf(x)].status = "active" /\ OwnerOf(x) \in Owners
  BY WiringParts, Constants DEF OrderInv, RunsInv, AliveHasRecord, RecordsOK, Alive, AtWork, Announced
<1>1. pub' = pub /\ task' = task /\ \A x \in Tabs : x # t => conn'[x] = conn[x]
  BY ConnectStepMoves
<1>2. /\ ConnectEndsSlot(t) \/ slot' = slot
      /\ ConnectEndsSlot(t) => /\ \A x \in Threads : ~Serialized(x)
                               /\ \A x \in Owners : x # conn[t].owner => slot'[x] = slot[x]
  <2>1. CASE ConnectEndsSlot(t)
    BY <2>1, <1>0 DEF ConnectEndsSlot, EndJob, SlotsOK, SectionsExclude, Connecting
  <2>2. CASE ~ConnectEndsSlot(t)
    BY <2>2 DEF ConnectStep, ConnectRegisters, ConnectFindsNone, ConnectLooks, ConnectDecides,
       ConnectCopies, ConnectJoins, ConnectReplays, broadcaster
  <2>. QED
    BY <2>1, <2>2
<1>. USE DEF SlotInv
<1>3. \A x \in Runs : OwnerOf(x)' = OwnerOf(x) /\ Announced(x)' = Announced(x)
  BY <1>1 DEF OwnerOf, AtWork, Announced
<1>4. \A x \in Threads : Serialized(x)' = Serialized(x)
  BY <1>1 DEF Serialized
<1>5. StartIsPublished'
  BY <1>1, <1>2, <1>3, <1>4, Constants DEF StartIsPublished
<1>6. AnnouncedHoldsSlot'
  <2>1. \A x \in Runs : Announced(x) => slot'[OwnerOf(x)] = slot[OwnerOf(x)]
    BY <1>0, <1>2 DEF EndingIsOver, ConnectEndsSlot
  <2>. QED
    BY <2>1, <1>1, <1>3, <1>4 DEF AnnouncedHoldsSlot
<1>7. EndingIsOver'
  <2>1. ASSUME conn'[t].pc = "ending", NEW x \in Runs, conn'[t].owner = OwnerOf(x)
        PROVE  ~Announced(x)
    BY <2>1, <1>0, ConnectStepMoves
  <2>. QED
    BY <2>1, <1>1, <1>3 DEF EndingIsOver
<1>. QED
  BY <1>5, <1>6, <1>7

LEMMA OthersKeepSlots ==
  ASSUME OrderInv, WiringInv, RunsInv, SlotInv,
         \/ UNCHANGED vars
         \/ \E o \in Owners, r \in Runs : Admit(o, r)
         \/ \E o \in Owners : RequestChanges(o) \/ RequestPublishes(o)
         \/ \E t \in Tabs : RequestPreferred(t) \/ RequestInitial(t) \/ Disconnect(t)
  PROVE  SlotInv'
<1>0. RecordsOK /\ TasksOK /\ job \in [Owners -> Job]
  BY WiringParts DEF OrderInv, RecordsOK
<1>1. slot' = slot
  BY DEF vars, Admit, RequestChanges, RequestPublishes, RequestPreferred, RequestInitial, Disconnect,
     broadcaster
<1>2. \A x \in Threads : pub'[x] = pub[x] \/ (x = Handler /\ pub'[x].pc = "waiting")
  <2>1. CASE pub' = pub
    BY <2>1
  <2>2. ASSUME NEW o \in Owners, RequestChanges(o) \/ RequestPublishes(o)
        PROVE  \A x \in Threads : pub'[x] = pub[x] \/ (x = Handler /\ pub'[x].pc = "waiting")
    BY <2>2, <1>0, PublishingWaits, Constants DEF RequestChanges, RequestPublishes
  <2>. QED
    BY <2>1, <2>2 DEF vars, Admit, RequestPreferred, RequestInitial, Disconnect
<1>3. \A x \in Runs : task'[x] = task[x] \/ task'[x].pc = "admitted"
  <2>1. CASE task' = task
    BY <2>1
  <2>2. CASE \E o \in Owners, r \in Runs : Admit(o, r)
    BY <2>2, <1>0, AdmitMoves
  <2>. QED
    BY <2>1, <2>2 DEF vars, RequestChanges, RequestPublishes, RequestPreferred, RequestInitial, Disconnect
<1>4. \A x \in Tabs : conn'[x].pc = "ending" => conn'[x] = conn[x]
  <2>1. CASE conn' = conn
    BY <2>1
  <2>2. ASSUME NEW t \in Tabs, Disconnect(t)
        PROVE  \A x \in Tabs : conn'[x].pc = "ending" => conn'[x] = conn[x]
    <3>. DEFINE c == [NotConnected EXCEPT !.pc = "gone"]
    <3>1. c.pc = "gone"
      BY DEF NotConnected
    <3>2. conn' = [conn EXCEPT ![t] = c] /\ conn \in [Tabs -> Conn]
      BY <2>2, WiringParts DEF Disconnect, ClientsOK
    <3>. HIDE DEF c
    <3>. QED
      BY <3>1, <3>2
  <2>. QED
    BY <2>1, <2>2 DEF vars, Admit, RequestChanges, RequestPublishes, RequestPreferred, RequestInitial, clients
<1>5. \A x \in Runs : Announced(x)' => Announced(x) /\ OwnerOf(x)' = OwnerOf(x)
  BY <1>2, <1>3, Constants DEF Announced, AtWork, OwnerOf
<1>6. \A x \in Threads : Serialized(x)' => Serialized(x) /\ pub'[x] = pub[x]
  BY <1>2 DEF Serialized
<1>7. StartIsPublished'
  BY <1>1, <1>3, <1>6, Constants DEF SlotInv, StartIsPublished, OwnerOf
<1>8. AnnouncedHoldsSlot'
  BY <1>1, <1>5, <1>6 DEF SlotInv, AnnouncedHoldsSlot
<1>9. EndingIsOver'
  BY <1>4, <1>5 DEF SlotInv, EndingIsOver
<1>. QED
  BY <1>7, <1>8, <1>9 DEF SlotInv

LEMMA InitSlots == Init => SlotInv
BY Constants DEF Init, SlotInv, StartIsPublished, AnnouncedHoldsSlot, EndingIsOver, Announced, AtWork,
   Serialized, NotPublishing, NoTask, NotConnected

LEMMA StepKeepsSlots ==
  ASSUME OrderInv, WiringInv, RunsInv, SlotInv, [Next]_vars
  PROVE  SlotInv'
BY TaskKeepsSlots, PublishKeepsSlots, ConnectKeepsSlots, OthersKeepSlots DEF Next

-----------------------------------------------------------------------------
(* The replay buffer.                                                       *)

\* How many events of a run are recorded.
Recorded(r) == IF task[r].pc = "emitting" THEN task[r].sent + 1 ELSE task[r].sent

\* A run starts with nothing sent, its events name it, and they stay in its owner's buffer.
StartsFresh ==
  \A r \in Runs : task[r].pc \in {"admitted", "opened", "scheduled"} => task[r].sent = 0
EventsNameTheirRun == \A r \in Runs : AtWork(r) => task[r].source = r
EventsAreRetained ==
  \A r \in Runs : AtWork(r) =>
    \A i \in 1..MaxEvents : i <= Recorded(r) => <<r, i>> \in buffer[OwnerOf(r)]

BufferInv == StartsFresh /\ EventsNameTheirRun /\ EventsAreRetained

\* Nobody drops what an announced run recorded.
LEMMA BufferGrows ==
  ASSUME OrderInv, WiringInv, RunsInv, SlotInv, [Next]_vars, NEW r \in Runs, Announced(r)
  PROVE  buffer[OwnerOf(r)] \subseteq buffer'[OwnerOf(r)]
<1>0. /\ SlotsOK /\ RecordsOK /\ ClientsOK /\ OwnerOf(r) \in Owners
      /\ task[r].pc \notin {"none", "done", "admitted", "opened", "closing"}
      /\ buffer \in [Owners -> SUBSET Events]
  BY WiringParts DEF OrderInv, RecordsOK, Announced, AtWork, SlotsOK
<1>1. ASSUME NEW q \in Runs, TaskStep(q)
      PROVE  buffer[OwnerOf(r)] \subseteq buffer'[OwnerOf(r)]
  <2>1. CASE q = r
    BY <1>0, <1>1, <2>1 DEF TaskStep, OpenSlot, PublishStart, ScheduleFails, TaskBegins, TaskProgresses,
       TaskRecords, TaskDelivers, TaskEnds, TaskClears, TaskCloses, broadcaster
  <2>2. CASE q # r
    <3>1. OwnerOf(r) # OwnerOf(q) /\ OwnerOf(q) \in Owners
      BY <1>0, <1>1, <2>2, TaskStepAnnounces, TaskStepRecords DEF Done, OwnerOf
    <3>2. CASE OpenSlot(q) \/ TaskCloses(q) \/ TaskRecords(q)
      BY <3>1, <3>2, <1>0 DEF OpenSlot, TaskCloses, TaskRecords, StartJob, EndJob, broadcaster
    <3>3. CASE ~(OpenSlot(q) \/ TaskCloses(q) \/ TaskRecords(q))
      BY <1>1, <3>3 DEF TaskStep, PublishStart, ScheduleFails, TaskBegins, TaskProgresses, TaskDelivers,
         TaskEnds, TaskClears, broadcaster
    <3>. QED
      BY <3>2, <3>3
  <2>. QED
    BY <2>1, <2>2
<1>2. ASSUME NEW th \in Threads, PublishStep(th)
      PROVE  buffer[OwnerOf(r)] \subseteq buffer'[OwnerOf(r)]
  <2>1. CASE UNCHANGED broadcaster
    BY <2>1 DEF broadcaster
  <2>2. CASE pub[th].pc = "reopening" /\ StartJob(pub[th].owner, pub[th].snap.run)
    <3>1. pub[th].owner # OwnerOf(r)
      BY <2>2 DEF SlotInv, AnnouncedHoldsSlot, Serialized
    <3>. QED
      BY <2>2, <3>1, <1>0 DEF StartJob
  <2>. QED
    BY <1>0, <1>2, <2>1, <2>2, PublishStepMoves
<1>3. ASSUME NEW t \in Tabs, ConnectStep(t)
      PROVE  buffer[OwnerOf(r)] \subseteq buffer'[OwnerOf(r)]
  <2>1. CASE ConnectEndsSlot(t)
    <3>1. conn[t].owner # OwnerOf(r)
      BY <2>1 DEF SlotInv, EndingIsOver, ConnectEndsSlot
    <3>. QED
      BY <2>1, <3>1, <1>0 DEF ConnectEndsSlot, EndJob
  <2>2. CASE ~ConnectEndsSlot(t)
    BY <1>3, <2>2 DEF ConnectStep, ConnectRegisters, ConnectFindsNone, ConnectLooks, ConnectDecides,
       ConnectCopies, ConnectJoins, ConnectReplays, broadcaster
  <2>. QED
    BY <2>1, <2>2
<1>4. CASE \/ UNCHANGED vars
           \/ \E o \in Owners, q \in Runs : Admit(o, q)
           \/ \E o \in Owners : RequestChanges(o) \/ RequestPublishes(o)
           \/ \E t \in Tabs : RequestPreferred(t) \/ RequestInitial(t) \/ Disconnect(t)
  BY <1>4 DEF vars, Admit, RequestChanges, RequestPublishes, RequestPreferred, RequestInitial, Disconnect,
     broadcaster
<1>. QED
  BY <1>1, <1>2, <1>3, <1>4 DEF Next

LEMMA StepKeepsBuffer ==
  ASSUME OrderInv, WiringInv, RunsInv, SlotInv, BufferInv, [Next]_vars
  PROVE  BufferInv'
<1>0. /\ SlotsOK /\ RecordsOK /\ TasksOK /\ MaxEvents \in Nat /\ \A x \in Runs : x # 0
      /\ \A x \in Runs : task[x] \in Task /\ task[x].sent \in Nat
      /\ job \in [Owners -> Job]
  BY WiringParts, Constants DEF OrderInv, RecordsOK, TasksOK, Task
<1>. USE DEF BufferInv
<1>1. ASSUME NEW x \in Runs, task'[x] = task[x]
      PROVE  /\ task'[x].pc \in {"admitted", "opened", "scheduled"} => task'[x].sent = 0
             /\ AtWork(x)' => task'[x].source = x
             /\ AtWork(x)' =>
                  \A i \in 1..MaxEvents : i <= Recorded(x)' => <<x, i>> \in buffer'[OwnerOf(x)']
  <2>1. AtWork(x) => buffer[OwnerOf(x)] \subseteq buffer'[OwnerOf(x)]
    BY BufferGrows DEF Announced
  <2>2. OwnerOf(x)' = OwnerOf(x) /\ Recorded(x)' = Recorded(x) /\ AtWork(x)' = AtWork(x)
    BY <1>1 DEF OwnerOf, Recorded, AtWork
  <2>. QED
    BY <1>1, <2>1, <2>2 DEF StartsFresh, EventsNameTheirRun, EventsAreRetained
<1>2. ASSUME NEW r \in Runs, TaskStep(r)
      PROVE  BufferInv'
  <2>0. /\ OwnerOf(r) \in Owners /\ \A x \in Runs : x # r => task'[x] = task[x]
        /\ OwnerOf(r)' = OwnerOf(r)
    BY <1>0, <1>2, TaskStepRecords, TaskStepMovesOne DEF OwnerOf
  <2>1. task'[r].pc \in {"admitted", "opened", "scheduled"} => task'[r].sent = 0
    BY <1>0, <1>2, <2>0, TaskStepMoves DEF TaskStep, Moves, Counts, StartsFresh
  <2>2. AtWork(r)' => task'[r].source = r
    <3>1. CASE TaskBegins(r)
      <4>1. slot[OwnerOf(r)] = r
        BY <3>1 DEF TaskBegins, SlotInv, AnnouncedHoldsSlot, Announced
      <4>. QED
        BY <3>1, <4>1, <1>0, <2>0, TaskStepMoves DEF Counts
    <3>2. CASE ~TaskBegins(r)
      BY <3>2, <1>0, <1>2, <2>0, TaskStepMoves DEF TaskStep, Moves, Counts, EventsNameTheirRun, AtWork
    <3>. QED
      BY <3>1, <3>2
  <2>3. AtWork(r)' => \A i \in 1..MaxEvents : i <= Recorded(r)' => <<r, i>> \in buffer'[OwnerOf(r)]
    <3>0. AtWork(r) => buffer[OwnerOf(r)] \subseteq buffer'[OwnerOf(r)]
      BY BufferGrows DEF Announced
    <3>1. CASE TaskBegins(r)
      <4>1. Recorded(r)' = 0
        BY <3>1, <1>0, <2>0, TaskStepMoves DEF Moves, Counts, Recorded, StartsFresh
      <4>. QED
        BY <4>1
    <3>2. CASE TaskRecords(r)
      <4>1. task[r].source = r /\ AtWork(r) /\ slot[OwnerOf(r)] = r
        BY <3>2 DEF TaskRecords, EventsNameTheirRun, SlotInv, AnnouncedHoldsSlot, Announced, AtWork
      <4>2. <<r, task[r].sent + 1>> \in buffer'[OwnerOf(r)]
        BY <3>2, <4>1, <1>0, <2>0 DEF TaskRecords, SlotsOK
      <4>3. Recorded(r)' = task[r].sent + 1 /\ Recorded(r) = task[r].sent
        BY <3>2, <1>0, <2>0, TaskStepMoves DEF Moves, Counts, Recorded
      <4>4. \A i \in 1..MaxEvents : i <= task[r].sent + 1 => i = task[r].sent + 1 \/ i <= task[r].sent
        BY <1>0
      <4>. QED
        BY <3>0, <4>1, <4>2, <4>3, <4>4 DEF EventsAreRetained
    <3>3. CASE TaskProgresses(r) \/ TaskDelivers(r)
      <4>1. AtWork(r) /\ Recorded(r)' = Recorded(r)
        BY <3>3, <1>0, <2>0, TaskStepMoves DEF Moves, Counts, Recorded, AtWork
      <4>. QED
        BY <3>0, <4>1 DEF EventsAreRetained
    <3>4. CASE ~(TaskBegins(r) \/ TaskRecords(r) \/ TaskProgresses(r) \/ TaskDelivers(r))
      BY <3>4, <1>0, <1>2, <2>0, TaskStepMoves DEF TaskStep, Moves, AtWork
    <3>. QED
      BY <3>1, <3>2, <3>3, <3>4
  <2>. QED
    BY <1>1, <2>0, <2>1, <2>2, <2>3 DEF StartsFresh, EventsNameTheirRun, EventsAreRetained
<1>3. ASSUME NEW o \in Owners, NEW r \in Runs, Admit(o, r)
      PROVE  BufferInv'
  <2>1. /\ task'[r].pc = "admitted" /\ task'[r].sent = 0
        /\ \A x \in Runs : x # r => task'[x] = task[x]
    BY <1>0, <1>3, AdmitMoves
  <2>2. ~AtWork(r)'
    BY <2>1 DEF AtWork
  <2>. QED
    BY <1>1, <2>1, <2>2 DEF StartsFresh, EventsNameTheirRun, EventsAreRetained
<1>4. CASE task' = task
  BY <1>1, <1>4 DEF StartsFresh, EventsNameTheirRun, EventsAreRetained
<1>. QED
  BY <1>0, <1>2, <1>3, <1>4, PublishStepMoves, ConnectStepMoves DEF Next, vars, RequestChanges, RequestPublishes,
     RequestPreferred, RequestInitial, Disconnect

LEMMA InitBuffer == Init => BufferInv
BY DEF Init, BufferInv, StartsFresh, EventsNameTheirRun, EventsAreRetained, AtWork, NoTask

\* The inductive invariant behind the slots of working runs.
RunSlotInv == OrderInv /\ WiringInv /\ RunsInv /\ SlotInv /\ BufferInv

THEOREM SlotsInvariant ==
  ASSUME ~Overlap
  PROVE  Spec => []RunSlotInv
<1>1. Init => RunSlotInv
  BY InitOrder, InitWiring, InitRuns, InitSlots, InitBuffer DEF RunSlotInv
<1>2. RunSlotInv /\ [Next]_vars => RunSlotInv'
  BY StepKeepsOrder, StepKeepsWiring, StepKeepsRuns, StepKeepsSlots, StepKeepsBuffer DEF RunSlotInv
<1>. QED
  BY <1>1, <1>2, PTL DEF Spec

\* make_broadcast_emit and record(), for any number of owners: from the first published
\* status of a run until its last one the open slot of its owner is its own, whoever
\* publishes, connects or ends a slot meanwhile, and every event it has recorded is in
\* the buffer a late client replays.
THEOREM WorkingRunsAreBroadcast ==
  ASSUME ~Overlap
  PROVE  Spec => [](WorkingRunIsBroadcast /\ EventsAreRetained)
<1>1. RunSlotInv => WorkingRunIsBroadcast /\ EventsAreRetained
  BY DEF RunSlotInv, SlotInv, AnnouncedHoldsSlot, Announced, AtWork, WorkingRunIsBroadcast, BufferInv
<1>. QED
  BY <1>1, SlotsInvariant, PTL

-----------------------------------------------------------------------------
(* Whoever is connected follows the open slot.                              *)

\* MAX_CONCURRENT_JOBS = 1, or one operator: no two owners have a slot open at once.
OneSlotAtATime == \A o, p \in Owners : slot[o] # 0 /\ slot[p] # 0 => o = p

\* Whoever is connected is subscribed to the open slot, or about to be.
Joining(t, o) ==
  conn[t].pc \in {"looked", "ending", "copying", "joining"} /\ conn[t].owner = o
EverybodyFollows ==
  \A o \in Owners : slot[o] # 0 =>
    \A t \in connected : t \in subs[o] \/ conn[t].pc = "registered" \/ Joining(t, o)

\* Bridges, and tabs that asked for their initial data, have every event delivered so far
\* of the runs at work, or replay it before they are in.
CaughtUp(t, r) == \A i \in 1..MaxEvents : i <= task[r].sent => <<r, i>> \in got[t]
FollowersAreCaughtUp ==
  \A r \in Runs : AtWork(r) =>
    \A t \in connected : t \in Bridges \/ t \in synced =>
      CaughtUp(t, r) \/ conn[t].pc = "registered" \/ (Replaying(t) /\ conn[t].owner = OwnerOf(r))

FollowInv == EverybodyFollows /\ FollowersAreCaughtUp

\* A step leaves a slot to its subscribers, closes it, or opens it for everybody.
LEMMA SlotMoves ==
  ASSUME OrderInv, WiringInv, [Next]_vars, NEW o \in Owners
  PROVE  \/ slot'[o] = slot[o] /\ subs[o] \intersect connected' \subseteq subs'[o]
         \/ slot'[o] = 0
         \/ connected' \subseteq subs'[o]
<1>0. SlotsOK /\ RecordsOK
  BY WiringParts DEF OrderInv
<1>1. CASE UNCHANGED broadcaster
  BY <1>1 DEF broadcaster
<1>2. ASSUME NEW p \in Owners, NEW run, StartJob(p, run), connected' = connected
      PROVE  \/ slot'[o] = slot[o] /\ subs[o] \intersect connected' \subseteq subs'[o]
             \/ connected' \subseteq subs'[o]
  BY <1>0, <1>2 DEF StartJob, Audience, SlotsOK
<1>3. ASSUME NEW p \in Owners, EndJob(p)
      PROVE  \/ slot'[o] = slot[o] /\ subs[o] \intersect connected' \subseteq subs'[o]
             \/ slot'[o] = 0
  BY <1>0, <1>3 DEF EndJob, SlotsOK
<1>4. ASSUME NEW r \in Runs, TaskStep(r)
      PROVE  \/ UNCHANGED broadcaster
             \/ slot' = slot /\ subs' = subs
             \/ \E p \in Owners : EndJob(p)
             \/ connected' = connected /\ \E p \in Owners, run \in Runs \union {0} : StartJob(p, run)
  <2>1. OwnerOf(r) \in Owners /\ job[OwnerOf(r)].run \in Runs \union {0}
    <3>1. task[r].pc # "none"
      BY <1>4 DEF TaskStep, OpenSlot, PublishStart, ScheduleFails, TaskBegins, TaskProgresses,
         TaskRecords, TaskDelivers, TaskEnds, TaskClears, TaskCloses
    <3>. QED
      BY <3>1, <1>0 DEF RecordsOK, Job
  <2>2. CASE OpenSlot(r)
    BY <2>1, <2>2 DEF OpenSlot, clients
  <2>3. CASE TaskCloses(r)
    BY <2>1, <2>3 DEF TaskCloses
  <2>4. CASE ~OpenSlot(r) /\ ~TaskCloses(r)
    BY <1>4, <2>4 DEF TaskStep, PublishStart, ScheduleFails, TaskBegins, TaskProgresses, TaskRecords,
       TaskDelivers, TaskEnds, TaskClears
  <2>. QED
    BY <2>2, <2>3, <2>4
<1>5. ASSUME NEW th \in Threads, PublishStep(th)
      PROVE  \/ UNCHANGED broadcaster
             \/ connected' = connected /\ \E p \in Owners, run \in Runs \union {0} : StartJob(p, run)
  <2>1. pub[th].snap.run \in Runs \union {0}
    BY <1>0 DEF RecordsOK, Pub, Status
  <2>. QED
    BY <2>1, <1>0, <1>5, PublishStepMoves
<1>6. ASSUME NEW t \in Tabs, ConnectStep(t)
      PROVE  \/ UNCHANGED broadcaster
             \/ slot' = slot /\ \A p \in Owners : subs[p] \subseteq subs'[p]
             \/ \E p \in Owners : EndJob(p)
  <2>1. CASE ConnectEndsSlot(t)
    BY <2>1, WiringParts DEF ConnectEndsSlot, ClientsOK, Replaying
  <2>2. CASE ConnectJoins(t)
    BY <2>2, <1>0 DEF ConnectJoins, SlotsOK
  <2>3. CASE ~ConnectEndsSlot(t) /\ ~ConnectJoins(t)
    BY <1>6, <2>3 DEF ConnectStep, ConnectRegisters, ConnectFindsNone, ConnectLooks, ConnectDecides,
       ConnectCopies, ConnectReplays
  <2>. QED
    BY <2>1, <2>2, <2>3
<1>7. ASSUME NEW t \in Tabs, Disconnect(t)
      PROVE  slot'[o] = slot[o] /\ subs[o] \intersect connected' \subseteq subs'[o]
  BY <1>0, <1>7 DEF Disconnect, SlotsOK
<1>. QED
  BY <1>1, <1>2, <1>3, <1>4, <1>5, <1>6, <1>7 DEF Next, vars, broadcaster, Admit, RequestChanges,
     RequestPublishes, RequestPreferred, RequestInitial

\* A step leaves a client's connection alone, is the client's own, or is its last.
LEMMA ClientMoves ==
  ASSUME OrderInv, WiringInv, [Next]_vars, NEW t \in Tabs, t \in connected'
  PROVE  \/ conn'[t] = conn[t] /\ t \in connected
         \/ ConnectStep(t)
<1>0. ClientsOK /\ RecordsOK
  BY WiringParts DEF OrderInv
<1>1. CASE UNCHANGED <<connected, conn>>
  BY <1>1
<1>2. ASSUME NEW x \in Tabs, ConnectStep(x)
      PROVE  \/ conn'[t] = conn[t] /\ t \in connected
             \/ ConnectStep(t)
  BY <1>2, ConnectStepMoves
<1>3. ASSUME NEW x \in Tabs, Disconnect(x)
      PROVE  conn'[t] = conn[t] /\ t \in connected
  BY <1>3, <1>0 DEF Disconnect, ClientsOK
<1>4. ASSUME NEW r \in Runs, TaskStep(r)
      PROVE  UNCHANGED <<connected, conn>>
  BY <1>4 DEF TaskStep, OpenSlot, PublishStart, ScheduleFails, TaskBegins, TaskProgresses, TaskRecords,
     TaskDelivers, TaskEnds, TaskClears, TaskCloses, clients
<1>5. ASSUME NEW th \in Threads, PublishStep(th)
      PROVE  UNCHANGED <<connected, conn>>
  BY <1>0, <1>5, PublishStepMoves
<1>. QED
  BY <1>1, <1>2, <1>3, <1>4, <1>5 DEF Next, vars, clients, Admit, RequestChanges, RequestPublishes,
     RequestPreferred, RequestInitial

LEMMA StepKeepsFollowers ==
  ASSUME OrderInv, WiringInv, OneSlotAtATime, EverybodyFollows, [Next]_vars
  PROVE  EverybodyFollows'
<1>0. SlotsOK /\ ClientsOK /\ connected' \subseteq Tabs
  BY WiringParts, StepKeepsOrder, StepKeepsWiring DEF WiringInv, PublicationTypeOK
<1>. SUFFICES ASSUME NEW o \in Owners, slot'[o] # 0, NEW t \in connected',
                     t \notin subs'[o]
              PROVE  conn'[t].pc = "registered" \/ Joining(t, o)'
  BY DEF EverybodyFollows
<1>1. slot[o] # 0 /\ t \notin subs[o] /\ t \in Tabs /\ slot'[o] = slot[o]
  BY <1>0, SlotMoves
<1>2. CASE conn'[t] = conn[t] /\ t \in connected
  BY <1>1, <1>2 DEF EverybodyFollows, Joining
<1>3. CASE ConnectStep(t)
  <2>1. t \notin connected \/ conn[t].pc = "registered" \/ Joining(t, o)
    BY <1>1 DEF EverybodyFollows
  <2>2. CASE conn[t].pc = "out"
    BY <1>3, <2>2, ConnectStepMoves, <1>1
  <2>3. CASE conn[t].pc = "registered"
    <3>1. FindActiveOwner = o /\ o # Free
      BY <1>0, <1>1, FirstOwnerIsOpen, Constants DEF OneSlotAtATime
    <3>2. ~ConnectFindsNone(t)
      BY <3>1 DEF ConnectFindsNone
    <3>. QED
      BY <1>1, <1>3, <2>3, <3>1, <3>2, ConnectStepMoves DEF Joining
  <2>4. CASE Joining(t, o)
    <3>1. ~ConnectEndsSlot(t)
      BY <1>0, <1>1, <2>4 DEF ConnectEndsSlot, EndJob, Joining, SlotsOK
    <3>2. ~ConnectJoins(t)
      BY <1>0, <1>1, <2>4 DEF ConnectJoins, Joining, SlotsOK
    <3>. QED
      BY <1>1, <1>3, <2>4, <3>1, <3>2, ConnectStepMoves DEF Joining
  <2>. QED
    BY <1>0, <1>1, <1>3, <2>1, <2>2, <2>3, <2>4, ConnectStepMoves DEF ClientsOK
<1>. QED
  BY <1>0, <1>1, <1>2, <1>3, ClientMoves

-----------------------------------------------------------------------------
\* Nobody loses an event.
LEMMA NothingIsForgotten ==
  ASSUME OrderInv, WiringInv, [Next]_vars, NEW t \in Tabs
  PROVE  got[t] \subseteq got'[t]
<1>0. got \in [Tabs -> SUBSET Events] /\ RecordsOK
  BY WiringParts DEF PublishingOK, OrderInv
<1>1. CASE got' = got
  BY <1>1
<1>2. ASSUME NEW r \in Runs, TaskDelivers(r)
      PROVE  got[t] \subseteq got'[t]
  BY <1>0, <1>2 DEF TaskDelivers
<1>3. ASSUME NEW x \in Tabs, ConnectReplays(x) \/ RequestInitial(x)
      PROVE  got[t] \subseteq got'[t]
  BY <1>0, <1>3 DEF ConnectReplays, RequestInitial
<1>4. ASSUME NEW r \in Runs, TaskStep(r), ~TaskDelivers(r)
      PROVE  got' = got
  BY <1>4 DEF TaskStep, OpenSlot, PublishStart, ScheduleFails, TaskBegins, TaskProgresses, TaskRecords,
     TaskEnds, TaskClears, TaskCloses, received
<1>5. ASSUME NEW x \in Tabs, ConnectStep(x), ~ConnectReplays(x)
      PROVE  got' = got
  BY <1>5 DEF ConnectStep, ConnectRegisters, ConnectFindsNone, ConnectLooks, ConnectDecides,
     ConnectEndsSlot, ConnectCopies, ConnectJoins, received
<1>6. ASSUME NEW th \in Threads, PublishStep(th)
      PROVE  got' = got
  BY <1>0, <1>6, PublishStepMoves
<1>. QED
  BY <1>1, <1>2, <1>3, <1>4, <1>5, <1>6 DEF Next, vars, Admit, RequestChanges, RequestPublishes,
     RequestPreferred, Disconnect, received

\* The client's own step.
LEMMA ConnectKeepsCaughtUp ==
  ASSUME RunSlotInv, OneSlotAtATime, FollowInv, NEW t \in Tabs, ConnectStep(t),
         NEW r \in Runs, AtWork(r), t \in Bridges
  PROVE  CaughtUp(t, r)' \/ conn'[t].pc = "registered" \/ (Replaying(t)' /\ conn'[t].owner = OwnerOf(r))
<1>0. /\ SlotsOK /\ ClientsOK /\ PublishingOK /\ task' = task /\ task[r].sent \in Nat
      /\ OwnerOf(r) \in Owners /\ slot[OwnerOf(r)] = r /\ r # 0 /\ Announced(r)
  BY WiringParts, ConnectStepMoves, Constants DEF RunSlotInv, OrderInv, RecordsOK, SlotInv,
     AnnouncedHoldsSlot, Announced, AtWork, TasksOK, Task
<1>1. CaughtUp(t, r) => CaughtUp(t, r)'
  <2>1. got[t] \subseteq got'[t]
    BY NothingIsForgotten DEF RunSlotInv, Next
  <2>. QED
    BY <1>0, <2>1 DEF CaughtUp
<1>2. CASE conn[t].pc \in {"out", "registered"}
  <2>1. FindActiveOwner = OwnerOf(r) /\ FindActiveOwner # Free
    BY <1>0, FirstOwnerIsOpen, Constants DEF OneSlotAtATime
  <2>2. ~ConnectFindsNone(t)
    BY <2>1 DEF ConnectFindsNone
  <2>. QED
    BY <1>2, <2>1, <2>2, ConnectStepMoves DEF RunSlotInv, Replaying
<1>3. CASE conn[t].pc \notin {"out", "registered"}
  <2>1. CaughtUp(t, r) \/ (Replaying(t) /\ conn[t].owner = OwnerOf(r))
    <3>1. t \in connected
      BY <1>0, <1>3, ConnectStepMoves DEF RunSlotInv, ClientsOK
    <3>. QED
      BY <1>3, <3>1 DEF FollowInv, FollowersAreCaughtUp
  <2>2. CASE Replaying(t) /\ conn[t].owner = OwnerOf(r)
    <3>1. ~ConnectEndsSlot(t)
      BY <1>0, <2>2 DEF ConnectEndsSlot, RunSlotInv, SlotInv, EndingIsOver
    <3>2. CASE ConnectReplays(t)
      <4>1. buffer[OwnerOf(r)] \subseteq got'[t]
        BY <1>0, <2>2, <3>2 DEF ConnectReplays, CopiesBeforeJoining, PublishingOK
      <4>2. \A i \in 1..MaxEvents : i <= task[r].sent => <<r, i>> \in buffer[OwnerOf(r)]
        BY <1>0 DEF RunSlotInv, BufferInv, EventsAreRetained, Recorded
      <4>. QED
        BY <1>0, <4>1, <4>2 DEF CaughtUp
    <3>3. CASE ~ConnectReplays(t)
      BY <1>3, <2>2, <3>1, <3>3, ConnectStepMoves DEF RunSlotInv, Replaying
    <3>. QED
      BY <3>2, <3>3
  <2>. QED
    BY <1>1, <2>1, <2>2
<1>. QED
  BY <1>2, <1>3

-----------------------------------------------------------------------------
(* Nobody misses an event.                                                  *)

LEMMA StepKeepsCaughtUp ==
  ASSUME RunSlotInv, OneSlotAtATime, FollowInv, [Next]_vars
  PROVE  FollowersAreCaughtUp'
<1>0. /\ SlotsOK /\ ClientsOK /\ TasksOK /\ PublishingOK /\ RecordsOK
      /\ connected' \subseteq Tabs
      /\ got \in [Tabs -> SUBSET Events]
  BY WiringParts, StepKeepsOrder, StepKeepsWiring DEF RunSlotInv, OrderInv, WiringInv, PublicationTypeOK
<1>. SUFFICES ASSUME NEW r \in Runs, AtWork(r)', NEW t \in connected', t \in Bridges \/ t \in synced'
              PROVE  CaughtUp(t, r)' \/ conn'[t].pc = "registered"
                       \/ (Replaying(t)' /\ conn'[t].owner = OwnerOf(r)')
  BY DEF FollowersAreCaughtUp
<1>1. t \in Tabs /\ got[t] \subseteq got'[t]
  BY <1>0, NothingIsForgotten DEF RunSlotInv
<1>2. ASSUME AtWork(r), task'[r].sent = task[r].sent, task'[r].owner = task[r].owner,
             conn'[t] = conn[t], t \in connected, t \in Bridges \/ t \in synced
      PROVE  CaughtUp(t, r)' \/ conn'[t].pc = "registered"
               \/ (Replaying(t)' /\ conn'[t].owner = OwnerOf(r)')
  <2>1. CaughtUp(t, r) => CaughtUp(t, r)'
    BY <1>1, <1>2 DEF CaughtUp
  <2>2. CaughtUp(t, r) \/ conn[t].pc = "registered" \/ (Replaying(t) /\ conn[t].owner = OwnerOf(r))
    BY <1>2 DEF FollowInv, FollowersAreCaughtUp
  <2>. QED
    BY <2>1, <2>2, <1>2 DEF Replaying, OwnerOf
<1>3. ASSUME NEW q \in Runs, TaskStep(q)
      PROVE  CaughtUp(t, r)' \/ conn'[t].pc = "registered"
               \/ (Replaying(t)' /\ conn'[t].owner = OwnerOf(r)')
  <2>0. /\ conn' = conn /\ connected' = connected /\ synced' = synced
        /\ OwnerOf(q) \in Owners
    BY <1>0, <1>3, TaskStepRecords DEF RunSlotInv, OwnerOf, TaskStep, OpenSlot, PublishStart, ScheduleFails,
       TaskBegins, TaskProgresses, TaskRecords, TaskDelivers, TaskEnds, TaskClears, TaskCloses, clients
  <2>1. \A x \in Runs : x # q => task'[x] = task[x]
    BY <1>0, <1>3, <2>0, TaskStepMovesOne
  <2>2. CASE r # q
    BY <2>0, <2>1, <2>2, <1>2 DEF AtWork
  <2>3. CASE r = q
    <3>1. CASE TaskBegins(q)
      <4>1. task'[r].sent = 0
        BY <2>0, <2>3, <3>1, <1>0, TaskStepMoves DEF Moves, Counts, RunSlotInv, BufferInv, StartsFresh
      <4>. QED
        BY <4>1 DEF CaughtUp
    <3>2. CASE TaskDelivers(q)
      <4>1. /\ task'[r].sent = task[r].sent + 1 /\ AtWork(r) /\ OwnerOf(r)' = OwnerOf(r)
            /\ slot[OwnerOf(r)] = r /\ r # 0 /\ task[r].sent \in Nat
        <5>1. Moves(q, "emitting", "body") /\ task'[q].sent = task[q].sent + 1
          BY <2>0, <3>2, <1>0, TaskStepMoves DEF Counts
        <5>2. AtWork(r) /\ OwnerOf(r)' = OwnerOf(r)
          BY <2>3, <5>1 DEF Moves, AtWork, OwnerOf
        <5>3. slot[OwnerOf(r)] = r
          BY <5>2 DEF RunSlotInv, SlotInv, AnnouncedHoldsSlot, Announced
        <5>. QED
          BY <2>3, <5>1, <5>2, <5>3, <1>0, Constants DEF TasksOK, Task
      <4>2. CASE conn[t].pc = "registered" \/ (Replaying(t) /\ conn[t].owner = OwnerOf(r))
        BY <4>1, <4>2, <2>0 DEF Replaying
      <4>3. CASE CaughtUp(t, r) /\ ~(conn[t].pc = "registered" \/ (Replaying(t) /\ conn[t].owner = OwnerOf(r)))
        <5>1. t \in subs[OwnerOf(r)]
          BY <4>1, <4>3, <2>0, <2>3 DEF FollowInv, EverybodyFollows, Joining, Replaying
        <5>2. <<r, task[r].sent + 1>> \in got'[t]
          BY <5>1, <3>2, <2>0, <2>3, <1>1 DEF TaskDelivers
        <5>3. \A i \in 1..MaxEvents : i <= task[r].sent + 1 => i = task[r].sent + 1 \/ i <= task[r].sent
          BY <4>1
        <5>. QED
          BY <4>1, <4>3, <5>2, <5>3, <1>1 DEF CaughtUp
      <4>. QED
        BY <4>1, <4>2, <4>3, <2>0 DEF FollowInv, FollowersAreCaughtUp
    <3>3. CASE ~TaskBegins(q) /\ ~TaskDelivers(q)
      <4>1. AtWork(r) /\ task'[r].sent = task[r].sent /\ task'[r].owner = task[r].owner
        BY <2>0, <2>3, <3>3, <1>0, <1>3, TaskStepMoves DEF TaskStep, Moves, Counts, AtWork
      <4>. QED
        BY <4>1, <2>0, <1>2
    <3>. QED
      BY <3>1, <3>2, <3>3
  <2>. QED
    BY <2>2, <2>3
<1>4. ASSUME NEW x \in Tabs, ConnectStep(x)
      PROVE  CaughtUp(t, r)' \/ conn'[t].pc = "registered"
               \/ (Replaying(t)' /\ conn'[t].owner = OwnerOf(r)')
  <2>1. task' = task /\ synced' = synced /\ connected' \subseteq connected \union {x}
        /\ \A y \in Tabs : y # x => conn'[y] = conn[y]
    BY <1>4, ConnectStepMoves DEF RunSlotInv
  <2>2. AtWork(r) /\ OwnerOf(r)' = OwnerOf(r)
    BY <2>1 DEF AtWork, OwnerOf
  <2>3. CASE x # t
    BY <2>1, <2>2, <2>3, <1>1, <1>2
  <2>4. CASE x = t
    <3>1. conn[t].pc # "in"
      BY <1>4, <2>4, ConnectStepMoves DEF RunSlotInv
    <3>2. t \in Bridges
      BY <2>1, <3>1, <1>0 DEF ClientsOK
    <3>. QED
      BY <1>1, <1>4, <2>2, <2>4, <3>2, ConnectKeepsCaughtUp
  <2>. QED
    BY <2>3, <2>4
<1>5. ASSUME NEW x \in Tabs, RequestInitial(x)
      PROVE  CaughtUp(t, r)' \/ conn'[t].pc = "registered"
               \/ (Replaying(t)' /\ conn'[t].owner = OwnerOf(r)')
  <2>1. task' = task /\ conn' = conn /\ connected' = connected /\ synced' = synced \union {x}
    BY <1>5 DEF RequestInitial
  <2>2. AtWork(r)
    BY <2>1 DEF AtWork
  <2>3. CASE t \in Bridges \/ t \in synced
    BY <2>1, <2>2, <2>3, <1>2
  <2>4. CASE x = t
    <3>1. slot[OwnerOf(r)] = r /\ r # 0 /\ OwnerOf(r) \in Owners /\ task[r].sent \in Nat
      BY <2>2, <1>0, Constants DEF RunSlotInv, SlotInv, AnnouncedHoldsSlot, Announced, AtWork, RecordsOK,
         TasksOK, Task
    <3>2. FindActiveOwner = OwnerOf(r) /\ FindActiveOwner # Free
      BY <1>0, <3>1, FirstOwnerIsOpen, Constants DEF OneSlotAtATime
    <3>3. buffer[OwnerOf(r)] \subseteq got'[t]
      BY <2>4, <3>2, <1>0, <1>1, <1>5 DEF RequestInitial, InitialReplay
    <3>4. \A i \in 1..MaxEvents : i <= task[r].sent => <<r, i>> \in buffer[OwnerOf(r)]
      BY <2>2, <3>1 DEF RunSlotInv, BufferInv, EventsAreRetained, Recorded
    <3>. QED
      BY <2>1, <3>3, <3>4 DEF CaughtUp
  <2>. QED
    BY <2>1, <2>3, <2>4
<1>6. ASSUME task' = task, conn' = conn, connected' = connected, synced' = synced
      PROVE  CaughtUp(t, r)' \/ conn'[t].pc = "registered"
               \/ (Replaying(t)' /\ conn'[t].owner = OwnerOf(r)')
  BY <1>2, <1>6 DEF AtWork
<1>7. ASSUME NEW x \in Tabs, Disconnect(x)
      PROVE  CaughtUp(t, r)' \/ conn'[t].pc = "registered"
               \/ (Replaying(t)' /\ conn'[t].owner = OwnerOf(r)')
  <2>1. task' = task /\ t \in connected /\ synced' \subseteq synced /\ conn'[t] = conn[t]
    BY <1>0, <1>1, <1>7 DEF Disconnect, ClientsOK
  <2>. QED
    BY <2>1, <1>2 DEF AtWork
<1>8. ASSUME NEW o \in Owners, NEW q \in Runs, Admit(o, q)
      PROVE  CaughtUp(t, r)' \/ conn'[t].pc = "registered"
               \/ (Replaying(t)' /\ conn'[t].owner = OwnerOf(r)')
  <2>1. conn' = conn /\ connected' = connected /\ synced' = synced
    BY <1>8 DEF Admit, clients
  <2>2. task'[q].pc = "admitted" /\ \A x \in Runs : x # q => task'[x] = task[x]
    BY <1>0, <1>8, AdmitMoves DEF RecordsOK
  <2>3. r # q
    BY <2>2 DEF AtWork
  <2>. QED
    BY <2>1, <2>2, <2>3, <1>2 DEF AtWork
<1>9. ASSUME NEW th \in Threads, PublishStep(th)
      PROVE  task' = task /\ conn' = conn /\ connected' = connected /\ synced' = synced
  BY <1>0, <1>9, PublishStepMoves
<1>. QED
  BY <1>3, <1>4, <1>5, <1>6, <1>7, <1>8, <1>9 DEF RunSlotInv, Next, vars, RequestChanges, RequestPublishes,
     RequestPreferred, clients

LEMMA InitFollow == Init => FollowInv
BY DEF Init, FollowInv, EverybodyFollows, FollowersAreCaughtUp, AtWork, NoTask

\* What the two invariants say of a client that is in.
LEMMA FollowersMissNothing ==
  ASSUME RunSlotInv, FollowInv
  PROVE  NothingIsMissed
<1>1. WorkingRunIsBroadcast
  BY DEF RunSlotInv, SlotInv, AnnouncedHoldsSlot, Announced, AtWork, WorkingRunIsBroadcast
<1>2. ASSUME NEW t \in connected, conn[t].pc = "in", t \in Bridges \/ t \in synced
      PROVE  Missed(t) = {}
  <2>. SUFFICES ASSUME NEW r \in Runs, NEW i \in 1..MaxEvents, AtWork(r), i <= task[r].sent
                PROVE  <<r, i>> \in got[t]
    BY DEF Missed, Events, AtWork
  <2>. QED
    BY <1>2 DEF FollowInv, FollowersAreCaughtUp, CaughtUp, Replaying
<1>3. BridgesMissNothing
  BY <1>2, PublicationAssumption DEF BridgesMissNothing, RunSlotInv, WiringInv
<1>4. TabsMissNothing
  BY <1>2 DEF TabsMissNothing, RunSlotInv, WiringInv, PublicationTypeOK
<1>. QED
  BY <1>1, <1>3, <1>4 DEF NothingIsMissed

\* docs/socket-events.md: a late client "also receives replayed job events".  As long as
\* no two owners have a slot open at once, a bridge whose connect handler is done and a
\* tab that asked for its initial data have every event of the runs at work, whenever and
\* during whatever publication they connected.
THEOREM LateClientsMissNothing ==
  ASSUME ~Overlap
  PROVE  Spec /\ []OneSlotAtATime => []NothingIsMissed
<1>1. Init => FollowInv
  BY InitFollow
<1>2. RunSlotInv /\ OneSlotAtATime /\ FollowInv /\ [Next]_vars => FollowInv'
  BY StepKeepsFollowers, StepKeepsCaughtUp DEF RunSlotInv, FollowInv
<1>3. RunSlotInv /\ FollowInv => NothingIsMissed
  BY FollowersMissNothing
<1>. QED
  BY <1>1, <1>2, <1>3, SlotsInvariant, PTL DEF Spec

-----------------------------------------------------------------------------
(* Statuses on their way.                                                   *)

\* An owner whose job's status is on its way: its start is not published yet, or a thread
\* waits to publish it, or one is about it.
ToldSoon(o) ==
  \/ \E r \in Runs : OwnerOf(r) = o /\ task[r].pc \in {"admitted", "opened"}
  \/ \E th \in Threads : Waiting(th) /\ pub[th].owner = o
BeingTold(o) == \E th \in Threads : Serialized(th) /\ pub[th].owner = o

\* A connecting client that is yet to be told of an owner's job.
Catching(t, o) ==
  \/ conn[t].pc = "registered"
  \/ conn[t].pc \in {"looked", "copying", "joining", "replaying"} /\ conn[t].owner = o

\* The task whose last status is on its way.
EndWaits(o) ==
  \E r \in Runs : OwnerOf(r) = o /\ task[r].pc = "ended" /\ Waiting(r) /\ pub[r].owner = o
EndIsTold(o) ==
  \E r \in Runs : /\ OwnerOf(r) = o /\ task[r].pc = "ended"
                  /\ Serialized(r) /\ pub[r].owner = o /\ ~pub[r].snap.active
                  /\ pub[r].pc = "sending" => slot[o] # 0

\* Of an active job everybody has the present status, or a publication is coming; what
\* the thread in the section read is the present status, or another is coming.
SnapIsFresh(o) ==
  job[o].status = "active" =>
    \A th \in Threads : Serialized(th) /\ pub[th].owner = o => pub[th].snap = Snapshot(o) \/ ToldSoon(o)
ActiveIsTold(o) ==
  job[o].status = "active" =>
    \A t \in connected : last[t][o] = Snapshot(o) \/ ToldSoon(o) \/ BeingTold(o) \/ Catching(t, o)

\* Of a job that ended nobody believes it active, or its last status is coming, also after
\* an older one that is being sent.
EndIsHeard(o) ==
  job[o].status = "ended" /\ conn[o].pc # "gone" =>
    \A t \in connected : ~last[t][o].active \/ EndWaits(o) \/ EndIsTold(o)
ActiveSnapIsFollowed(o) ==
  conn[o].pc # "gone" =>
    \A th \in Threads : Serialized(th) /\ pub[th].owner = o /\ pub[th].snap.active =>
      job[o].status # "absent" /\ (job[o].status = "ended" => EndWaits(o))

\* Nobody heard of a job before its owner came.
NobodyHeardYet(o) ==
  /\ conn[o].pc = "out" => job[o].status = "absent"
  /\ job[o].status = "absent" /\ conn[o].pc # "gone" => \A t \in Tabs : ~last[t][o].active
  /\ \A t \in Tabs : conn[t].pc = "out" => ~last[t][o].active
  /\ job[o].disconnected => conn[o].pc = "gone"
  /\ job[o].run = 0 => job[o].status = "absent"

Converges(o) ==
  SnapIsFresh(o) /\ ActiveIsTold(o) /\ EndIsHeard(o) /\ ActiveSnapIsFollowed(o) /\ NobodyHeardYet(o)
ConvergeInv == \A o \in Owners : Converges(o)

-----------------------------------------------------------------------------
LEMMA ConvergesParts ==
  ASSUME RunSlotInv
  PROVE  /\ job \in [Owners -> Job] /\ pub \in [Threads -> Pub]
         /\ last \in [Tabs -> [Owners -> Status]]
         /\ SlotsOK /\ ClientsOK /\ TasksOK /\ RecordsOK /\ SectionsExclude
         /\ Owners \subseteq Tabs /\ Runs \subseteq Threads /\ 0 \notin Runs
         /\ Tabs \intersect Threads = {} /\ Free \notin Threads /\ Free \notin Tabs
BY WiringParts, Constants DEF RunSlotInv, OrderInv, RecordsOK

\* Without a publication before its last step, the slot of an active job is its run's.
LEMMA ActiveHoldsSlot ==
  ASSUME RunSlotInv, NEW o \in Owners, job[o].status = "active", ~ToldSoon(o),
         \A th \in Threads : Serialized(th) /\ pub[th].owner = o => pub[th].pc = "sending"
  PROVE  slot[o] = job[o].run /\ slot[o] # 0
<1>1. PICK r \in Runs : job[o].run = r /\ OwnerOf(r) = o /\ Alive(r)
  BY DEF RunSlotInv, RunsInv, ActiveIsAlive
<1>2. r # 0 /\ r \in Threads /\ pub[r].pc \in PubPCs
  BY <1>1, ConvergesParts DEF Pub
<1>3. task[r].pc \notin {"admitted", "opened"}
  BY <1>1 DEF ToldSoon
<1>4. CASE Announced(r)
  BY <1>1, <1>2, <1>4 DEF RunSlotInv, SlotInv, AnnouncedHoldsSlot
<1>5. CASE ~Announced(r)
  <2>1. task[r].pc = "scheduled" /\ pub[r].pc # "idle"
    BY <1>1, <1>3, <1>5 DEF Announced, Alive
  <2>2. pub[r].owner = o
    BY <1>1, <2>1 DEF RunSlotInv, RunsInv, PublishesItsOwner
  <2>3. Serialized(r)
    BY <1>2, <2>1, <2>2 DEF ToldSoon, Waiting, Serialized, PubPCs
  <2>. QED
    BY <1>1, <1>2, <2>1, <2>2, <2>3 DEF RunSlotInv, SlotInv, StartIsPublished
<1>. QED
  BY <1>4, <1>5

\* What a step may do without disturbing the convergence on an owner's job: nothing to
\* its record, its task and its publications, and telling clients what the record says.
Untouched(o) ==
  /\ job'[o] = job[o] /\ slot'[o] = slot[o]
  /\ \A r \in Runs : task'[r] = task[r] \/ (task[r].owner # o /\ task'[r].owner # o)
  /\ \A th \in Threads : \/ pub'[th] = pub[th]
                         \/ /\ pub[th].pc # "idle" => pub[th].owner # o
                            /\ pub'[th].pc # "idle" => pub'[th].owner # o

LEMMA UntouchedKeeps ==
  ASSUME RunSlotInv, NEW o \in Owners, Untouched(o)
  PROVE  /\ ToldSoon(o) => ToldSoon(o)'
         /\ BeingTold(o) => BeingTold(o)'
         /\ EndWaits(o) => EndWaits(o)'
         /\ EndIsTold(o) => EndIsTold(o)'
         /\ \A th \in Threads : Serialized(th)' /\ pub'[th].owner = o =>
              Serialized(th) /\ pub'[th] = pub[th]
<1>. USE ConvergesParts DEF Untouched, Serialized, Waiting, OwnerOf
<1>1. ToldSoon(o) => ToldSoon(o)'
  BY DEF ToldSoon
<1>2. BeingTold(o) => BeingTold(o)'
  BY DEF BeingTold
<1>3. EndWaits(o) => EndWaits(o)'
  BY DEF EndWaits
<1>4. EndIsTold(o) => EndIsTold(o)'
  BY DEF EndIsTold
<1>. QED
  BY <1>1, <1>2, <1>3, <1>4

LEMMA FarKeeps ==
  ASSUME RunSlotInv, NEW o \in Owners, Converges(o),
         job'[o] = job[o],
         ToldSoon(o) => ToldSoon(o)', BeingTold(o) => BeingTold(o)',
         EndWaits(o) => EndWaits(o)', EndIsTold(o) => EndIsTold(o)',
         \A th \in Threads : Serialized(th)' /\ pub'[th].owner = o =>
              Serialized(th) /\ pub'[th] = pub[th],
         \A t \in Tabs : last'[t][o] = last[t][o] \/ (last'[t][o] = Snapshot(o) /\ conn[t].pc # "out"),
         \A t \in Tabs : conn'[t].pc = "out" => conn[t].pc = "out",
         conn'[o].pc = "gone" <=> conn[o].pc = "gone",
         \A t \in connected' : t \in connected,
         \A t \in connected' : Catching(t, o) => Catching(t, o)' \/ last'[t][o] = Snapshot(o)
  PROVE  Converges(o)'
<1>. USE ConvergesParts DEF Converges
<1>1. Snapshot(o)' = Snapshot(o) /\ (Snapshot(o).active <=> job[o].status = "active")
  BY DEF Snapshot
<1>2. \A t \in Tabs : last'[t][o].active => last[t][o].active \/ job[o].status = "active"
  BY <1>1
<1>3. SnapIsFresh(o)'
  BY <1>1 DEF SnapIsFresh
<1>4. ActiveIsTold(o)'
  BY <1>1 DEF ActiveIsTold, ClientsOK
<1>5. EndIsHeard(o)'
  BY <1>2 DEF EndIsHeard, ClientsOK
<1>6. ActiveSnapIsFollowed(o)'
  BY DEF ActiveSnapIsFollowed
<1>7. NobodyHeardYet(o)'
  BY <1>1, <1>2 DEF NobodyHeardYet
<1>. QED
  BY <1>3, <1>4, <1>5, <1>6, <1>7

\* A job whose publication is certain, or whose end is.
LEMMA ToldSoonKeeps ==
  ASSUME RunSlotInv, NEW o \in Owners, Converges(o),
         job'[o].status = "active", job'[o].run # 0, ~job'[o].disconnected, ToldSoon(o)',
         conn[o].pc # "out" \/ job[o].status # "absent", last' = last, conn' = conn
  PROVE  Converges(o)'
BY DEF Converges, SnapIsFresh, ActiveIsTold, EndIsHeard, ActiveSnapIsFollowed, NobodyHeardYet

-----------------------------------------------------------------------------
(* Each kind of step keeps them so.                                         *)

LEMMA UntouchedConverges ==
  ASSUME RunSlotInv, NEW o \in Owners, Converges(o), Untouched(o),
         last' = last, conn' = conn, connected' = connected
  PROVE  Converges(o)'
<1>1. \A t \in Tabs : Catching(t, o) => Catching(t, o)'
  BY DEF Catching
<1>2. connected \subseteq Tabs
  BY ConvergesParts DEF ClientsOK
<1>. QED
  BY <1>1, <1>2, UntouchedKeeps, FarKeeps DEF Untouched

LEMMA AdmitConverges ==
  ASSUME RunSlotInv, ~Overlap, ConvergeInv, NEW o \in Owners, NEW r \in Runs, Admit(o, r)
  PROVE  ConvergeInv'
<1>0. /\ task'[r].owner = o /\ task'[r].pc = "admitted"
      /\ \A x \in Runs : x # r => task'[x] = task[x]
      /\ job'[o].run = r /\ job'[o].status = "active" /\ ~job'[o].disconnected
      /\ \A x \in Owners : x # o => job'[x] = job[x]
  BY ConvergesParts, AdmitMoves
<1>1. /\ UNCHANGED <<slot, pub, last, conn, connected>> /\ o \in connected /\ task[r].pc = "none"
  BY DEF Admit, broadcaster, clients, received
<1>2. ToldSoon(o)' /\ r # 0 /\ conn[o].pc # "out"
  BY <1>0, <1>1, ConvergesParts DEF ToldSoon, OwnerOf, ClientsOK
<1>3. Converges(o)'
  BY <1>0, <1>1, <1>2, ToldSoonKeeps DEF ConvergeInv
<1>4. ASSUME NEW x \in Owners, x # o
      PROVE  Converges(x)'
  <2>1. CASE task[r].owner # x
    <3>1. Untouched(x)
      BY <1>0, <1>1, <1>4, <2>1 DEF Untouched
    <3>. QED
      BY <3>1, <1>1, <1>4, UntouchedConverges DEF ConvergeInv
  <2>2. CASE task[r].owner = x
    <3>1. ToldSoon(x) => ToldSoon(x)'
      BY <1>0, <1>1 DEF ToldSoon, OwnerOf, Waiting
    <3>2. BeingTold(x) => BeingTold(x)'
      BY <1>1 DEF BeingTold, Serialized
    <3>3. EndWaits(x) => EndWaits(x)'
      BY <1>0, <1>1 DEF EndWaits, OwnerOf, Waiting
    <3>4. EndIsTold(x) => EndIsTold(x)'
      BY <1>0, <1>1 DEF EndIsTold, OwnerOf, Serialized
    <3>5. \A t \in Tabs : Catching(t, x) => Catching(t, x)'
      BY <1>1 DEF Catching
    <3>. QED
      BY <3>1, <3>2, <3>3, <3>4, <3>5, <1>0, <1>1, <1>4, FarKeeps, ConvergesParts
      DEF ConvergeInv, Serialized, ClientsOK
  <2>. QED
    BY <2>1, <2>2
<1>. QED
  BY <1>3, <1>4 DEF ConvergeInv

\* cancel_job, pause_job, resume_job, and the requests that only publish.
LEMMA RequestConverges ==
  ASSUME RunSlotInv, ConvergeInv, NEW o \in Owners, RequestChanges(o) \/ RequestPublishes(o)
  PROVE  ConvergeInv'
<1>0. /\ UNCHANGED <<slot, task, last, conn, connected>>
      /\ pub[Handler].pc = "idle" /\ Handler \in Threads /\ Handler \notin Runs
      /\ pub'[Handler].pc = "waiting" /\ pub'[Handler].owner = o
      /\ \A x \in Threads : x # Handler => pub'[x] = pub[x]
  <2>1. Publishing(Handler, o) /\ Handler \in Threads /\ Handler \notin Runs /\ RecordsOK
    BY ConvergesParts, Constants DEF RequestChanges, RequestPublishes
  <2>. QED
    BY <2>1, PublishingWaits DEF RequestChanges, RequestPublishes, broadcaster, clients, received
<1>1. ASSUME NEW x \in Owners, x # o
      PROVE  Converges(x)'
  <2>1. job'[x] = job[x]
    BY <1>1, ConvergesParts, TouchedFields DEF RequestChanges, RequestPublishes, registry
  <2>2. Untouched(x)
    BY <1>0, <1>1, <2>1 DEF Untouched
  <2>. QED
    BY <1>0, <1>1, <2>2, UntouchedConverges DEF ConvergeInv
<1>2. ToldSoon(o)'
  BY <1>0 DEF ToldSoon, Waiting
<1>3. ASSUME job[o].status = "active"
      PROVE  Converges(o)'
  <2>1. /\ job'[o].run = job[o].run /\ job'[o].status = "active"
        /\ job'[o].disconnected = job[o].disconnected
    BY <1>3, ConvergesParts, TouchedFields DEF RequestChanges, RequestPublishes, registry
  <2>2. Converges(o) /\ (job[o].run = 0 => job[o].status = "absent")
    BY DEF ConvergeInv, Converges, NobodyHeardYet
  <2>3. SnapIsFresh(o)' /\ ActiveIsTold(o)' /\ EndIsHeard(o)' /\ ActiveSnapIsFollowed(o)'
    BY <1>2, <2>1 DEF SnapIsFresh, ActiveIsTold, EndIsHeard, ActiveSnapIsFollowed
  <2>4. NobodyHeardYet(o)'
    BY <1>0, <1>3, <2>1, <2>2 DEF Converges, NobodyHeardYet
  <2>. QED
    BY <2>3, <2>4 DEF Converges
<1>4. ASSUME job[o].status # "active"
      PROVE  Converges(o)'
  <2>1. job'[o] = job[o]
    BY <1>4 DEF RequestChanges, RequestPublishes, registry
  <2>2. BeingTold(o) => BeingTold(o)'
    BY <1>0 DEF BeingTold, Serialized
  <2>3. EndWaits(o) => EndWaits(o)'
    BY <1>0, ConvergesParts DEF EndWaits, OwnerOf, Waiting
  <2>4. EndIsTold(o) => EndIsTold(o)'
    BY <1>0, ConvergesParts DEF EndIsTold, OwnerOf, Serialized
  <2>5. \A t \in Tabs : Catching(t, o) => Catching(t, o)'
    BY <1>0 DEF Catching
  <2>6. \A th \in Threads : Serialized(th)' => Serialized(th) /\ pub'[th] = pub[th]
    BY <1>0 DEF Serialized
  <2>7. connected \subseteq Tabs
    BY ConvergesParts DEF ClientsOK
  <2>8. Converges(o) /\ conn' = conn /\ last' = last /\ connected' = connected
    BY <1>0 DEF ConvergeInv
  <2>9. \A t \in connected' : t \in connected /\ (Catching(t, o) => Catching(t, o)' \/ last'[t][o] = Snapshot(o))
    BY <2>5, <2>7, <2>8
  <2>. QED
    BY <1>2, <2>1, <2>2, <2>3, <2>4, <2>6, <2>8, <2>9, FarKeeps
<1>5. Converges(o)'
  BY <1>3, <1>4
<1>. QED
  BY <1>1, <1>5 DEF ConvergeInv

\* A disconnecting owner leaves its job, or takes the record of one that is over along.
LEMMA DisconnectConverges ==
  ASSUME RunSlotInv, ConvergeInv, NEW t \in Tabs, Disconnect(t)
  PROVE  ConvergeInv'
<1>0. /\ \A x \in Owners : x # t => job'[x] = job[x]
      /\ t \in Owners =>
              \/ /\ job[t].status = "active" /\ job'[t].status = "active"
                 /\ job'[t].run = job[t].run /\ job'[t].version = job[t].version
              \/ job[t].status # "active" /\ job'[t] = NoJob
  BY ConvergesParts, DisconnectFields
<1>. DEFINE c == [NotConnected EXCEPT !.pc = "gone"]
<1>1. /\ UNCHANGED <<slot, task, pub, last>> /\ connected' = connected \ {t} /\ connected \subseteq Tabs
      /\ conn'[t].pc = "gone" /\ conn[t].pc = "in"
      /\ \A x \in Tabs : x # t => conn'[x] = conn[x]
  <2>1. c.pc = "gone"
    BY DEF NotConnected
  <2>2. ClientsOK
    BY WiringParts DEF RunSlotInv
  <2>3. conn' = [conn EXCEPT ![t] = c] /\ conn \in [Tabs -> Conn] /\ connected \subseteq Tabs
    BY <2>2 DEF Disconnect, ClientsOK
  <2>4. UNCHANGED <<slot, task, pub, last>> /\ connected' = connected \ {t} /\ conn[t].pc = "in"
    BY DEF Disconnect, received
  <2>. HIDE DEF c
  <2>. QED
    BY <2>1, <2>3, <2>4
<1>2. ASSUME NEW x \in Owners, x # t
      PROVE  Converges(x)'
  <2>1. Untouched(x)
    BY <1>0, <1>1, <1>2 DEF Untouched
  <2>2. \A y \in connected' : Catching(y, x) => Catching(y, x)'
    BY <1>1 DEF Catching
  <2>3. /\ \A y \in Tabs : conn'[y].pc = "out" => conn[y].pc = "out"
        /\ conn'[x].pc = "gone" <=> conn[x].pc = "gone"
    BY <1>1, <1>2, ConvergesParts
  <2>. QED
    BY <1>1, <1>2, <2>1, <2>2, <2>3, UntouchedKeeps, FarKeeps DEF Untouched, ConvergeInv
<1>3. ASSUME t \in Owners
      PROVE  Converges(t)'
  <2>0. Converges(t)
    BY <1>3 DEF ConvergeInv
  <2>1. EndIsHeard(t)' /\ ActiveSnapIsFollowed(t)'
    BY <1>1 DEF EndIsHeard, ActiveSnapIsFollowed
  <2>2. NobodyHeardYet(t)'
    BY <1>0, <1>1, <1>3, <2>0 DEF NobodyHeardYet, NoJob, Converges
  <2>3. ASSUME job'[t].status = "active"
        PROVE  /\ job[t].status = "active" /\ Snapshot(t)' = Snapshot(t)
    BY <1>0, <1>3, <2>3 DEF NoJob, Snapshot
  <2>4. /\ ToldSoon(t) => ToldSoon(t)'
        /\ BeingTold(t) => BeingTold(t)'
        /\ \A y \in connected' : Catching(y, t) => Catching(y, t)'
        /\ \A th \in Threads : Serialized(th)' => Serialized(th)
    BY <1>1 DEF ToldSoon, BeingTold, Catching, OwnerOf, Waiting, Serialized
  <2>5. SnapIsFresh(t)'
    BY <1>1, <2>0, <2>3, <2>4 DEF SnapIsFresh, Converges
  <2>6. ActiveIsTold(t)'
    BY <1>1, <2>0, <2>3, <2>4 DEF ActiveIsTold, Converges
  <2>. QED
    BY <2>1, <2>2, <2>5, <2>6 DEF Converges
<1>. QED
  BY <1>2, <1>3 DEF ConvergeInv

\* Of a task's step, what the convergence on its owner's job depends on.
LEMMA TaskStepSummary ==
  ASSUME RunSlotInv, NEW r \in Runs, TaskStep(r), NEW o, o = task[r].owner
  PROVE  /\ o \in Owners /\ r \in Threads /\ r # 0
         /\ UNCHANGED <<last, conn, connected>>
         /\ task'[r].owner = o /\ task[r].pc \notin {"none", "done"}
         /\ \A x \in Runs : x # r => task'[x] = task[x]
         /\ \A x \in Runs : x # r /\ task[x].owner = o => task[x].pc \in {"none", "done"}
         /\ \A x \in Threads : x # r => pub'[x] = pub[x]
         /\ pub[r].pc # "idle" => pub[r].owner = o
         /\ pub'[r] = pub[r] \/ (pub'[r].pc = "waiting" /\ pub'[r].owner = o)
         /\ \A x \in Owners : x # o => job'[x] = job[x] /\ slot'[x] = slot[x]
         /\ Alive(r) => job[o].status = "active" /\ job[o].run = r
         /\ job[o].status = "active" => Alive(r)
<1>0. SlotsOK /\ TasksOK /\ RecordsOK /\ RunsInv /\ OwnerOf(r) = o
  BY ConvergesParts, WiringParts DEF RunSlotInv, OrderInv, OwnerOf
<1>1. /\ o \in Owners /\ ~Done(r)
      /\ \A x \in Owners : x # o => job'[x] = job[x]
  BY <1>0, TaskStepRecords
<1>2. task'[r].owner = o /\ \A x \in Runs : x # r => task'[x] = task[x]
  BY <1>0, <1>1, TaskStepMovesOne DEF OwnerOf
<1>3. /\ \A x \in Threads : x # r => pub'[x] = pub[x]
      /\ pub'[r] = pub[r] \/ (pub'[r].pc = "waiting" /\ pub'[r].owner = o)
  BY <1>0, <1>1, TaskStepPublishes
<1>4. \A x \in Owners : x # o => slot'[x] = slot[x]
  BY <1>0, <1>1, TaskStepSlots
<1>5. UNCHANGED <<last, conn, connected>>
  BY DEF TaskStep, OpenSlot, PublishStart, ScheduleFails, TaskBegins, TaskProgresses, TaskRecords,
     TaskDelivers, TaskEnds, TaskClears, TaskCloses, clients, received
<1>6. \A x \in Runs : x # r /\ task[x].owner = o => task[x].pc \in {"none", "done"}
  BY <1>0, <1>1 DEF RunsInv, OneRunPerOwner, OwnerOf, Done
<1>7. Alive(r) => job[o].status = "active" /\ job[o].run = r
  BY <1>0 DEF RunsInv, AliveHasRecord
<1>8. job[o].status = "active" => Alive(r)
  <2>1. job[o].status = "active" => \E q \in Runs : OwnerOf(q) = o /\ Alive(q)
    BY <1>1 DEF RunSlotInv, RunsInv, ActiveIsAlive
  <2>. QED
    BY <2>1, <1>6 DEF OwnerOf, Alive, AtWork
<1>9. pub[r].pc # "idle" => pub[r].owner = o
  BY <1>0 DEF RunsInv, PublishesItsOwner
<1>. QED
  BY <1>0, <1>1, <1>2, <1>3, <1>4, <1>5, <1>6, <1>7, <1>8, <1>9, Constants DEF Done

LEMMA TaskConverges ==
  ASSUME RunSlotInv, ConvergeInv, NEW r \in Runs, TaskStep(r)
  PROVE  ConvergeInv'
<1>. PICK o \in Owners : o = task[r].owner
  BY TaskStepSummary
<1>0. /\ o \in Owners /\ r \in Threads /\ r # 0
      /\ UNCHANGED <<last, conn, connected>>
      /\ task'[r].owner = o /\ task[r].pc \notin {"none", "done"}
      /\ \A x \in Runs : x # r => task'[x] = task[x]
      /\ \A x \in Runs : x # r /\ task[x].owner = o => task[x].pc \in {"none", "done"}
      /\ \A x \in Threads : x # r => pub'[x] = pub[x]
      /\ pub[r].pc # "idle" => pub[r].owner = o
      /\ pub'[r] = pub[r] \/ (pub'[r].pc = "waiting" /\ pub'[r].owner = o)
      /\ \A x \in Owners : x # o => job'[x] = job[x] /\ slot'[x] = slot[x]
      /\ Alive(r) => job[o].status = "active" /\ job[o].run = r
      /\ job[o].status = "active" => Alive(r)
  BY TaskStepSummary
<1>1. SlotsOK /\ TasksOK /\ RecordsOK /\ RunsInv /\ OwnerOf(r) = o
  BY ConvergesParts, WiringParts DEF RunSlotInv, OrderInv, OwnerOf
<1>2. Converges(o)
  BY <1>0 DEF ConvergeInv
<1>3. ASSUME NEW x \in Owners, x # o
      PROVE  Converges(x)'
  <2>1. Untouched(x)
    BY <1>0, <1>1, <1>3, ConvergesParts DEF Untouched, OwnerOf
  <2>. QED
    BY <1>0, <1>3, <2>1, UntouchedConverges DEF ConvergeInv
<1>4. ASSUME OpenSlot(r) \/ PublishStart(r) \/ TaskProgresses(r)
      PROVE  Converges(o)'
  <2>1. Alive(r) /\ job'[o].status = "active" /\ job'[o].run = r /\ (job'[o].disconnected => job[o].disconnected)
    <3>1. Alive(r) /\ ~TaskEnds(r) /\ ~ScheduleFails(r) /\ ~TaskClears(r)
      BY <1>4, <1>0, <1>1, TaskStepMoves DEF Alive, AtWork, Moves, OpenSlot, PublishStart, TaskProgresses,
         TaskEnds, ScheduleFails, TaskClears
    <3>. QED
      BY <3>1, <1>0, <1>1, TaskStepRecords DEF Writes
  <2>2. ToldSoon(o)'
    <3>1. CASE OpenSlot(r)
      <4>1. task'[r].pc = "opened"
        BY <2>1, <3>1, <1>0, <1>1, TaskStepMoves DEF Moves
      <4>. QED
        BY <4>1, <1>0 DEF ToldSoon, OwnerOf
    <3>2. CASE PublishStart(r) \/ TaskProgresses(r)
      <4>1. pub'[r].pc = "waiting" /\ pub'[r].owner = o
        BY <3>2, <1>0, <1>1, TaskStepPublishes
      <4>. QED
        BY <4>1, <1>0 DEF ToldSoon, Waiting
    <3>. QED
      BY <1>4, <3>1, <3>2
  <2>3. job[o].status = "active"
    BY <2>1, <1>0
  <2>4. SnapIsFresh(o)' /\ ActiveIsTold(o)' /\ EndIsHeard(o)' /\ ActiveSnapIsFollowed(o)'
    BY <2>1, <2>2 DEF SnapIsFresh, ActiveIsTold, EndIsHeard, ActiveSnapIsFollowed
  <2>5. NobodyHeardYet(o)'
    BY <1>0, <1>2, <2>1, <2>3 DEF Converges, NobodyHeardYet
  <2>. QED
    BY <2>4, <2>5 DEF Converges
<1>5. ASSUME TaskBegins(r) \/ TaskRecords(r) \/ TaskDelivers(r)
      PROVE  Converges(o)'
  <2>1. /\ job' = job /\ slot' = slot /\ pub' = pub
        /\ task[r].pc \in {"scheduled", "body", "emitting"} /\ task'[r].pc \in {"body", "emitting"}
    BY <1>5, <1>0, <1>1, TaskStepMoves DEF Moves, TaskBegins, TaskRecords, TaskDelivers, registry, broadcaster
  <2>2. /\ ToldSoon(o) => ToldSoon(o)'
        /\ BeingTold(o) => BeingTold(o)'
        /\ EndWaits(o) => EndWaits(o)'
        /\ EndIsTold(o) => EndIsTold(o)'
    <3>1. ToldSoon(o) => ToldSoon(o)'
      BY <1>0, <2>1 DEF ToldSoon, OwnerOf, Waiting
    <3>2. BeingTold(o) => BeingTold(o)'
      BY <2>1 DEF BeingTold, Serialized
    <3>3. EndWaits(o) => EndWaits(o)'
      BY <1>0, <2>1 DEF EndWaits, OwnerOf, Waiting
    <3>4. EndIsTold(o) => EndIsTold(o)'
      BY <1>0, <2>1 DEF EndIsTold, OwnerOf, Serialized
    <3>. QED
      BY <3>1, <3>2, <3>3, <3>4
  <2>3. \A t \in connected' : t \in connected /\ (Catching(t, o) => Catching(t, o)' \/ last'[t][o] = Snapshot(o))
    BY <1>0 DEF Catching
  <2>4. \A th \in Threads : Serialized(th)' => Serialized(th) /\ pub'[th] = pub[th]
    BY <2>1 DEF Serialized
  <2>5. conn' = conn /\ last' = last
    BY <1>0
  <2>. QED
    BY <1>0, <1>2, <2>1, <2>2, <2>3, <2>4, <2>5, FarKeeps
<1>6. ASSUME TaskEnds(r)
      PROVE  Converges(o)'
  <2>1. /\ job[o].run = r /\ job'[o].run = r /\ job'[o].status = "ended"
        /\ job'[o].disconnected => job[o].disconnected
    BY <1>0, <1>1, <1>6, TaskStepRecords DEF Writes
  <2>2. task[r].pc = "body" /\ task'[r].pc = "ended" /\ pub'[r].pc = "waiting" /\ pub'[r].owner = o
    BY <1>0, <1>1, <1>6, TaskStepMoves, TaskStepPublishes DEF Moves
  <2>3. EndWaits(o)'
    BY <1>0, <2>2 DEF EndWaits, OwnerOf, Waiting
  <2>4. job[o].status = "active"
    BY <1>0, <2>2 DEF Alive, AtWork
  <2>5. SnapIsFresh(o)' /\ ActiveIsTold(o)' /\ EndIsHeard(o)' /\ ActiveSnapIsFollowed(o)'
    BY <2>1, <2>3 DEF SnapIsFresh, ActiveIsTold, EndIsHeard, ActiveSnapIsFollowed
  <2>6. NobodyHeardYet(o)'
    BY <1>0, <1>2, <2>1, <2>4 DEF Converges, NobodyHeardYet
  <2>. QED
    BY <2>5, <2>6 DEF Converges
<1>7. ASSUME ScheduleFails(r)
      PROVE  Converges(o)'
  <2>1. /\ job[o].run = r /\ job'[o].run = r /\ job'[o].status = "failed"
        /\ job'[o].disconnected => job[o].disconnected
    BY <1>0, <1>1, <1>7, TaskStepRecords DEF Writes
  <2>2. job[o].status = "active" /\ pub' = pub
    BY <1>0, <1>7 DEF ScheduleFails, Alive
  <2>3. SnapIsFresh(o)' /\ ActiveIsTold(o)' /\ EndIsHeard(o)' /\ ActiveSnapIsFollowed(o)'
    BY <2>1 DEF SnapIsFresh, ActiveIsTold, EndIsHeard, ActiveSnapIsFollowed
  <2>4. NobodyHeardYet(o)'
    BY <1>0, <1>2, <2>1, <2>2 DEF Converges, NobodyHeardYet
  <2>. QED
    BY <2>3, <2>4 DEF Converges
<1>8. ASSUME TaskClears(r) \/ TaskCloses(r)
      PROVE  Converges(o)'
  <2>1. /\ task[r].pc \in {"ended", "closing"} /\ task'[r].pc \in {"closing", "done"} /\ pub' = pub
        /\ (job[o].disconnected /\ job'[o] = NoJob) \/ job' = job
    <3>1. TaskClears(r) => (job[o].disconnected /\ job'[o] = NoJob) \/ job' = job
      BY <1>0, <1>1, TaskStepRecords
    <3>. QED
      BY <3>1, <1>8, <1>0, <1>1, TaskStepMoves DEF Moves, TaskClears, TaskCloses, registry
  <2>2. job[o].status # "active" /\ job'[o].status # "active"
    BY <1>0, <2>1 DEF Alive, AtWork, NoJob
  <2>3. ~EndWaits(o) /\ ~EndIsTold(o)
    <3>1. task[r].pc = "ended" => pub[r].pc = "idle"
      BY <1>8 DEF TaskClears, TaskCloses
    <3>2. \A x \in Runs : OwnerOf(x) = o /\ task[x].pc = "ended" => x = r
      BY <1>0 DEF OwnerOf
    <3>. QED
      BY <3>1, <3>2 DEF EndWaits, EndIsTold, Waiting, Serialized
  <2>4. SnapIsFresh(o)' /\ ActiveIsTold(o)'
    BY <2>2 DEF SnapIsFresh, ActiveIsTold
  <2>5. CASE job' = job
    <3>1. EndIsHeard(o)'
      BY <1>0, <1>2, <2>3, <2>5 DEF EndIsHeard, Converges
    <3>2. ActiveSnapIsFollowed(o)'
      BY <1>0, <1>2, <2>1, <2>3, <2>5 DEF ActiveSnapIsFollowed, Converges, Serialized
    <3>3. NobodyHeardYet(o)'
      BY <1>0, <1>2, <2>5 DEF NobodyHeardYet, Converges
    <3>. QED
      BY <2>4, <3>1, <3>2, <3>3 DEF Converges
  <2>6. CASE job[o].disconnected /\ job'[o] = NoJob
    <3>1. conn'[o].pc = "gone"
      BY <1>0, <1>2, <2>6 DEF Converges, NobodyHeardYet
    <3>2. EndIsHeard(o)' /\ ActiveSnapIsFollowed(o)'
      BY <3>1 DEF EndIsHeard, ActiveSnapIsFollowed
    <3>3. NobodyHeardYet(o)'
      BY <1>0, <1>2, <2>6, <3>1 DEF NobodyHeardYet, Converges, NoJob
    <3>. QED
      BY <2>4, <3>2, <3>3 DEF Converges
  <2>. QED
    BY <2>1, <2>5, <2>6
<1>9. Converges(o)'
  BY <1>4, <1>5, <1>6, <1>7, <1>8 DEF TaskStep
<1>. QED
  BY <1>3, <1>9 DEF ConvergeInv

\* A publication of another owner's status.
LEMMA FarPublishConverges ==
  ASSUME RunSlotInv, ConvergeInv, NEW th \in Threads, PublishStep(th), NEW x \in Owners,
         x # pub[th].owner
  PROVE  Converges(x)'
<1>0. /\ UNCHANGED <<job, task, connected, conn>> /\ \A y \in Threads : y # th => pub'[y] = pub[y]
      /\ pub'[th].pc # "idle" => pub'[th].owner = pub[th].owner
      /\ slot'[x] = slot[x]
  BY ConvergesParts, PublishStepMoves DEF broadcaster, StartJob, SlotsOK
<1>1. \A t \in Tabs : last'[t][x] = last[t][x]
  <2>1. CASE last' = last
    BY <2>1
  <2>2. ASSUME NEW ts, NEW o \in Owners, o # x, NEW s, Tell(ts, o, s)
        PROVE  \A t \in Tabs : last'[t][x] = last[t][x]
    BY <2>2, ConvergesParts DEF Tell
  <2>. QED
    BY <2>1, <2>2, ConvergesParts, PublishStepMoves
<1>2. Untouched(x)
  BY <1>0 DEF Untouched
<1>3. \A t \in connected' : t \in connected /\ (Catching(t, x) => Catching(t, x)' \/ last'[t][x] = Snapshot(x))
  BY <1>0 DEF Catching
<1>. QED
  BY <1>0, <1>1, <1>2, <1>3, UntouchedKeeps, FarKeeps DEF ConvergeInv

\* The thread in the section, before it sends.
LEMMA PreparingConverges ==
  ASSUME RunSlotInv, ConvergeInv, NEW th \in Threads, PublishStep(th), pub[th].pc # "sending",
         NEW o \in Owners, o = pub[th].owner
  PROVE  Converges(o)'
<1>0. /\ UNCHANGED <<job, task, connected, conn, last>>
      /\ \A y \in Threads : y # th => pub'[y] = pub[y]
      /\ pub'[th].owner = o /\ Converges(o)
  BY ConvergesParts, PublishStepMoves DEF ConvergeInv
<1>1. \A y \in Threads : y # th => ~Serialized(y)
  BY ConvergesParts, PublishStepMoves DEF SectionsExclude, Serialized
<1>2. Serialized(th)' /\ BeingTold(o)' /\ Snapshot(o)' = Snapshot(o)
      /\ (Snapshot(o).active <=> job[o].status = "active") /\ Snapshot(o).run = job[o].run
  <2>1. Serialized(th)'
    BY ConvergesParts, PublishStepMoves DEF Serialized
  <2>. QED
    BY <1>0, <2>1 DEF BeingTold, Snapshot
<1>3. ActiveIsTold(o)'
  BY <1>2 DEF ActiveIsTold
<1>4. NobodyHeardYet(o)'
  BY <1>0 DEF NobodyHeardYet, Converges
<1>5. \A y \in Threads : Serialized(y)' => y = th
  BY <1>0, <1>1 DEF Serialized
<1>6. CASE pub[th].pc = "waiting"
  <2>1. /\ pub'[th].snap = Snapshot(o)
        /\ pub'[th].pc = IF Snapshot(o).run = 0 THEN "sending" ELSE "judging"
    BY <1>6, ConvergesParts, PublishStepMoves
  <2>2. SnapIsFresh(o)' /\ ActiveSnapIsFollowed(o)'
    BY <1>0, <1>2, <1>5, <2>1 DEF SnapIsFresh, ActiveSnapIsFollowed
  <2>3. EndIsHeard(o)'
    <3>. SUFFICES ASSUME job[o].status = "ended", conn[o].pc # "gone", NEW t \in connected, last[t][o].active,
                         ~EndWaits(o)'
                  PROVE  EndIsTold(o)'
      BY <1>0 DEF EndIsHeard
    <3>1. pub'[th].pc = "judging" /\ ~pub'[th].snap.active
      BY <1>0, <1>2, <2>1 DEF Converges, NobodyHeardYet
    <3>2. ~EndIsTold(o)
      BY <1>1, <1>6, ConvergesParts DEF EndIsTold, Serialized
    <3>3. EndWaits(o)
      BY <1>0, <3>2 DEF Converges, EndIsHeard
    <3>4. PICK r \in Runs : OwnerOf(r) = o /\ task[r].pc = "ended" /\ Waiting(r) /\ pub[r].owner = o
      BY <3>3 DEF EndWaits
    <3>5. r = th
      BY <3>4, <1>0, ConvergesParts DEF EndWaits, OwnerOf, Waiting
    <3>. QED
      BY <3>1, <3>4, <3>5, <1>0, <1>2 DEF EndIsTold, OwnerOf
  <2>. QED
    BY <1>3, <1>4, <2>2, <2>3 DEF Converges
<1>7. CASE pub[th].pc # "waiting"
  <2>1. /\ pub[th].pc \in {"judging", "reopening"} /\ pub'[th].snap = pub[th].snap /\ Serialized(th)
        /\ pub'[th].pc = "sending" => slot'[o] = pub[th].snap.run
        /\ pub[th].snap.run # 0
    <3>0. pub[th].pc \in {"judging", "reopening"} /\ pub[th].snap.run # 0 /\ Serialized(th)
      BY <1>7, ConvergesParts, PublishStepMoves DEF Serialized, RunSlotInv, WiringInv
    <3>1. CASE pub[th].pc = "judging"
      <4>1. UNCHANGED broadcaster
        BY <3>1, ConvergesParts, PublishStepMoves
      <4>2. slot' = slot
        BY <4>1 DEF broadcaster
      <4>. QED
        BY <3>0, <3>1, <4>2, ConvergesParts, PublishStepMoves
    <3>2. CASE pub[th].pc = "reopening"
      <4>1. StartJob(o, pub[th].snap.run) /\ pub'[th].snap = pub[th].snap
        BY <3>2, ConvergesParts, PublishStepMoves
      <4>2. slot'[o] = pub[th].snap.run
        BY <4>1, ConvergesParts DEF StartJob, SlotsOK
      <4>. QED
        BY <3>0, <4>1, <4>2
    <3>. QED
      BY <3>0, <3>1, <3>2
  <2>2. ToldSoon(o) => ToldSoon(o)'
    BY <1>0, <1>7 DEF ToldSoon, OwnerOf, Waiting
  <2>3. EndWaits(o) => EndWaits(o)'
    BY <1>0, <1>7, ConvergesParts DEF EndWaits, OwnerOf, Waiting
  <2>4. EndIsTold(o) => EndIsTold(o)'
    <3>. SUFFICES ASSUME EndIsTold(o) PROVE EndIsTold(o)'
      OBVIOUS
    <3>1. PICK r \in Runs : /\ OwnerOf(r) = o /\ task[r].pc = "ended"
                            /\ Serialized(r) /\ pub[r].owner = o /\ ~pub[r].snap.active
      BY DEF EndIsTold
    <3>2. r = th
      BY <3>1, <1>1, ConvergesParts
    <3>. QED
      BY <1>0, <1>2, <2>1, <3>1, <3>2 DEF EndIsTold, OwnerOf
  <2>5. SnapIsFresh(o)' /\ ActiveSnapIsFollowed(o)'
    BY <1>0, <1>2, <1>5, <2>1, <2>2, <2>3 DEF SnapIsFresh, ActiveSnapIsFollowed, Converges
  <2>6. EndIsHeard(o)'
    BY <1>0, <2>3, <2>4 DEF EndIsHeard, Converges
  <2>. QED
    BY <1>3, <1>4, <2>5, <2>6 DEF Converges
<1>. QED
  BY <1>6, <1>7

\* The last step: everybody connected is told, for nobody is still connecting.
LEMMA SendingConverges ==
  ASSUME RunSlotInv, EverybodyFollows, ConvergeInv, NEW th \in Threads, PublishStep(th),
         pub[th].pc = "sending", NEW o \in Owners, o = pub[th].owner
  PROVE  Converges(o)'
<1>0. /\ UNCHANGED <<job, task, connected, conn, slot>>
      /\ \A y \in Threads : y # th => pub'[y] = pub[y]
      /\ pub'[th].pc = "idle" /\ Converges(o) /\ Serialized(th) /\ pub[th].snap \in Status
  BY ConvergesParts, PublishStepMoves DEF ConvergeInv, broadcaster, Serialized, Pub
<1>1. /\ \A y \in Threads : y # th => ~Serialized(y)
      /\ \A t \in Tabs : ~Connecting(t)
  BY <1>0, ConvergesParts DEF SectionsExclude
<1>2. \A y \in Threads : ~Serialized(y)'
  BY <1>0, <1>1 DEF Serialized
<1>3. PICK ts : /\ subs[o] \intersect connected \subseteq ts /\ ts \subseteq connected
                /\ Tell(ts, o, pub[th].snap)
  BY <1>0, ConvergesParts, PublishStepMoves
<1>4. \A t \in Tabs : last'[t][o] = IF t \in ts THEN pub[th].snap ELSE last[t][o]
  BY <1>0, <1>3, ConvergesParts, TellTells
<1>5. slot[o] # 0 => \A t \in connected : last'[t][o] = pub[th].snap
  <2>1. slot[o] # 0 => \A t \in connected : t \in subs[o]
    BY <1>1, ConvergesParts DEF EverybodyFollows, Joining, Connecting, ClientsOK
  <2>. QED
    BY <1>3, <1>4, <2>1, ConvergesParts DEF ClientsOK
<1>6. /\ ToldSoon(o) => ToldSoon(o)'
      /\ EndWaits(o) => EndWaits(o)'
      /\ Snapshot(o)' = Snapshot(o)
  <2>1. ToldSoon(o) => ToldSoon(o)'
    BY <1>0 DEF ToldSoon, OwnerOf, Waiting, Serialized
  <2>2. EndWaits(o) => EndWaits(o)'
    BY <1>0, ConvergesParts DEF EndWaits, OwnerOf, Waiting, Serialized
  <2>. QED
    BY <1>0, <2>1, <2>2 DEF Snapshot
<1>7. SnapIsFresh(o)' /\ ActiveSnapIsFollowed(o)'
  BY <1>2 DEF SnapIsFresh, ActiveSnapIsFollowed
<1>8. ActiveIsTold(o)'
  <2>. SUFFICES ASSUME job[o].status = "active", ~ToldSoon(o), NEW t \in connected
                PROVE  last'[t][o] = Snapshot(o)
    BY <1>0, <1>6 DEF ActiveIsTold
  <2>1. slot[o] # 0
    BY <1>1, ActiveHoldsSlot
  <2>2. pub[th].snap = Snapshot(o)
    BY <1>0 DEF Converges, SnapIsFresh
  <2>. QED
    BY <1>5, <2>1, <2>2
<1>9. EndIsHeard(o)'
  <2>. SUFFICES ASSUME job[o].status = "ended", conn[o].pc # "gone", ~EndWaits(o), NEW t \in connected
                PROVE  ~last'[t][o].active
    BY <1>0, <1>6 DEF EndIsHeard
  <2>0. t \in Tabs
    BY ConvergesParts DEF ClientsOK
  <2>1. ~pub[th].snap.active
    BY <1>0 DEF Converges, ActiveSnapIsFollowed
  <2>2. CASE EndIsTold(o)
    <3>1. slot[o] # 0
      BY <1>1, <2>2, ConvergesParts DEF EndIsTold
    <3>. QED
      BY <1>5, <2>1, <3>1
  <2>3. CASE ~last[t][o].active
    BY <1>4, <2>0, <2>1, <2>3
  <2>. QED
    BY <1>0, <2>2, <2>3 DEF Converges, EndIsHeard
<1>10. NobodyHeardYet(o)'
  <2>1. job[o].status = "absent" /\ conn[o].pc # "gone" => ~pub[th].snap.active
    BY <1>0 DEF Converges, ActiveSnapIsFollowed
  <2>2. \A t \in Tabs : conn[t].pc = "out" => t \notin ts
    BY <1>3, ConvergesParts DEF ClientsOK
  <2>. QED
    BY <1>0, <1>4, <2>1, <2>2 DEF Converges, NobodyHeardYet
<1>. QED
  BY <1>7, <1>8, <1>9, <1>10 DEF Converges

\* An active job without an open slot is about to be published, when nobody is publishing.
LEMMA ClosedIsToldSoon ==
  ASSUME RunSlotInv, NEW o \in Owners, job[o].status = "active", slot[o] = 0,
         \A th \in Threads : ~Serialized(th)
  PROVE  ToldSoon(o)
BY ActiveHoldsSlot

\* With the lock at hand and nobody publishing: a client is told what the registry says.
LEMMA TellingConverges ==
  ASSUME RunSlotInv, ConvergeInv, NEW o \in Owners,
         UNCHANGED <<job, task, pub>>, \A th \in Threads : ~Serialized(th),
         \A t \in Tabs : \/ last'[t][o] = last[t][o]
                         \/ conn[t].pc # "out" /\ last'[t][o] = Snapshot(o)
                         \/ conn[t].pc # "out" /\ last'[t][o] = Idle /\ ToldSoon(o)
                         \/ last'[t][o] = Idle /\ job[o].status # "active",
         \A t \in Tabs : conn'[t].pc = "out" => conn[t].pc = "out",
         conn'[o].pc = "gone" <=> conn[o].pc = "gone",
         \A t \in connected' : \/ conn'[t].pc = "registered" /\ conn[t].pc = "out"
                               \/ /\ t \in connected
                                  /\ job[o].status = "active" /\ Catching(t, o) =>
                                       Catching(t, o)' \/ last'[t][o] = Snapshot(o) \/ ToldSoon(o),
         connected' \subseteq Tabs
  PROVE  Converges(o)'
<1>0. Converges(o) /\ Snapshot(o)' = Snapshot(o) /\ (Snapshot(o).active <=> job[o].status = "active")
      /\ ~Idle.active
  BY DEF ConvergeInv, Snapshot, Idle
<1>1. /\ ToldSoon(o) => ToldSoon(o)'
      /\ EndWaits(o) => EndWaits(o)'
      /\ ~BeingTold(o) /\ ~EndIsTold(o)
      /\ \A th \in Threads : ~Serialized(th)'
  <2>1. ToldSoon(o) => ToldSoon(o)'
    BY DEF ToldSoon, OwnerOf, Waiting
  <2>2. EndWaits(o) => EndWaits(o)'
    BY DEF EndWaits, OwnerOf, Waiting
  <2>3. ~BeingTold(o) /\ ~EndIsTold(o)
    BY ConvergesParts DEF BeingTold, EndIsTold
  <2>4. \A th \in Threads : ~Serialized(th)'
    BY DEF Serialized
  <2>. QED
    BY <2>1, <2>2, <2>3, <2>4
<1>2. \A t \in Tabs : last'[t][o].active => last[t][o].active \/ job[o].status = "active"
  BY <1>0
<1>3. SnapIsFresh(o)' /\ ActiveSnapIsFollowed(o)'
  BY <1>1 DEF SnapIsFresh, ActiveSnapIsFollowed
<1>4. ActiveIsTold(o)'
  <2>. SUFFICES ASSUME job[o].status = "active", ~ToldSoon(o)', NEW t \in connected', ~Catching(t, o)'
                PROVE  last'[t][o] = Snapshot(o)
    BY <1>0 DEF ActiveIsTold
  <2>1. t \in connected /\ ~ToldSoon(o) /\ (Catching(t, o) => last'[t][o] = Snapshot(o))
    BY <1>1 DEF Catching
  <2>2. last[t][o] = Snapshot(o) \/ Catching(t, o)
    BY <1>0, <1>1, <2>1 DEF Converges, ActiveIsTold
  <2>. QED
    BY <2>1, <2>2
<1>5. EndIsHeard(o)'
  <2>. SUFFICES ASSUME job[o].status = "ended", conn[o].pc # "gone", ~EndWaits(o), NEW t \in connected'
                PROVE  ~last'[t][o].active
    BY <1>1 DEF EndIsHeard
  <2>1. CASE t \in connected
    BY <1>0, <1>1, <1>2, <2>1 DEF Converges, EndIsHeard
  <2>2. CASE conn[t].pc = "out"
    BY <1>0, <1>2, <2>2 DEF Converges, NobodyHeardYet
  <2>. QED
    BY <2>1, <2>2
<1>6. NobodyHeardYet(o)'
  <2>1. \A t \in Tabs : conn'[t].pc = "out" => ~last'[t][o].active
    BY <1>0 DEF Converges, NobodyHeardYet
  <2>2. job[o].status = "absent" /\ conn[o].pc # "gone" => \A t \in Tabs : ~last'[t][o].active
    BY <1>0, <1>2 DEF Converges, NobodyHeardYet
  <2>3. conn[o].pc = "out" => job[o].status = "absent"
    BY <1>0 DEF Converges, NobodyHeardYet
  <2>. QED
    BY <1>0, <2>1, <2>2, <2>3, ConvergesParts DEF Converges, NobodyHeardYet
<1>. QED
  BY <1>3, <1>4, <1>5, <1>6 DEF Converges

LEMMA ConnectTells ==
  ASSUME RunSlotInv, OneSlotAtATime, NEW t \in Tabs, ConnectStep(t), NEW o \in Owners,
         \A th \in Threads : ~Serialized(th)
  PROVE  /\ \A x \in Tabs : x # t => last'[x] = last[x]
         /\ conn[t].pc = "out" => last' = last
         /\ last'[t][o] \in {last[t][o], Snapshot(o)}
         /\ \/ conn'[t].pc = "registered" /\ conn[t].pc = "out"
            \/ job[o].status = "active" /\ Catching(t, o) =>
                 Catching(t, o)' \/ last'[t][o] = Snapshot(o) \/ ToldSoon(o)
<1>. USE ConvergesParts
<1>0. \A x \in Owners : Snapshot(x) \in Status
  BY SnapshotIsTyped
<1>1. ConnectRegisters(t) => last' = last /\ conn[t].pc = "out" /\ conn'[t].pc = "registered"
  BY ConnectStepMoves DEF ConnectRegisters, received, RunSlotInv
<1>2. ASSUME ConnectFindsNone(t)
      PROVE  /\ conn[t].pc = "registered" /\ \A x \in Tabs : x # t => last'[x] = last[x]
             /\ last'[t][o] \in {last[t][o], Snapshot(o)}
             /\ job[o].status = "active" => ToldSoon(o)
  <2>1. slot[o] = 0
    BY <1>2, FirstOwnerIsOpen DEF ConnectFindsNone
  <2>2. job[o].status = "active" => ToldSoon(o)
    BY <2>1, ClosedIsToldSoon
  <2>3. last' = last \/ \E x \in Owners : Tell({t}, x, Snapshot(x))
    BY <1>2 DEF ConnectFindsNone
  <2>4. ASSUME NEW x \in Owners, Tell({t}, x, Snapshot(x))
        PROVE  /\ \A y \in Tabs : y # t => last'[y] = last[y]
               /\ last'[t][o] \in {last[t][o], Snapshot(o)}
    BY <2>4 DEF Tell
  <2>. QED
    BY <1>2, <2>2, <2>3, <2>4 DEF ConnectFindsNone
<1>3. ASSUME ConnectLooks(t)
      PROVE  /\ conn[t].pc = "registered" /\ \A x \in Tabs : x # t => last'[x] = last[x]
             /\ last'[t][o] \in {last[t][o], Snapshot(o)}
             /\ job[o].status = "active" => last'[t][o] = Snapshot(o) \/ ToldSoon(o)
  <2>1. FindActiveOwner \in Owners /\ slot[FindActiveOwner] # 0
    BY <1>3, FirstOwnerIsOpen DEF ConnectLooks
  <2>2. Tell({t}, FindActiveOwner, Snapshot(FindActiveOwner))
    BY <1>3 DEF ConnectLooks
  <2>3. /\ \A y \in Tabs : y # t => last'[y] = last[y]
        /\ last'[t][o] = IF FindActiveOwner = o THEN Snapshot(o) ELSE last[t][o]
    BY <2>1, <2>2 DEF Tell
  <2>4. FindActiveOwner # o => slot[o] = 0
    BY <2>1 DEF OneSlotAtATime
  <2>. QED
    BY <1>3, <2>3, <2>4, ClosedIsToldSoon DEF ConnectLooks
<1>4. ASSUME ConnectDecides(t) \/ ConnectEndsSlot(t) \/ ConnectCopies(t)
      PROVE  /\ conn[t].pc \in {"looked", "ending", "copying"} /\ last' = last
             /\ job[o].status = "active" /\ Catching(t, o) => Catching(t, o)'
  <2>1. last' = last /\ conn[t].pc \in {"looked", "ending", "copying"}
    BY <1>4 DEF ConnectDecides, ConnectEndsSlot, ConnectCopies, received
  <2>. QED
    BY <1>4, <2>1, ConnectStepMoves DEF RunSlotInv, Catching
<1>5. ASSUME ConnectJoins(t) \/ ConnectReplays(t)
      PROVE  /\ conn[t].pc \in {"joining", "replaying"} /\ \A x \in Tabs : x # t => last'[x] = last[x]
             /\ last'[t][o] \in {last[t][o], Snapshot(o)}
             /\ Catching(t, o) => last'[t][o] = Snapshot(o)
  <2>1. conn[t].owner \in Owners /\ conn[t].pc \in {"joining", "replaying"}
    BY <1>5 DEF ConnectJoins, ConnectReplays, ClientsOK, Replaying
  <2>2. Tell({t}, conn[t].owner, Snapshot(conn[t].owner))
    BY <1>5 DEF ConnectJoins, ConnectReplays
  <2>3. /\ \A y \in Tabs : y # t => last'[y] = last[y]
        /\ last'[t][o] = IF conn[t].owner = o THEN Snapshot(o) ELSE last[t][o]
    BY <2>1, <2>2 DEF Tell
  <2>. QED
    BY <2>1, <2>3 DEF Catching
<1>. QED
  BY <1>1, <1>2, <1>3, <1>4, <1>5 DEF ConnectStep

LEMMA ConnectConverges ==
  ASSUME RunSlotInv, OneSlotAtATime, ConvergeInv, NEW t \in Tabs, ConnectStep(t)
  PROVE  ConvergeInv'
<1>0. /\ UNCHANGED <<job, task, pub>>
      /\ \A x \in Tabs : x # t => conn'[x] = conn[x]
      /\ connected' \subseteq connected \union {t} /\ connected' \subseteq Tabs
      /\ conn[t].pc \notin {"in", "gone"} /\ conn'[t].pc \notin {"out", "gone"}
      /\ conn[t].pc = "out" => conn'[t].pc = "registered"
      /\ conn[t].pc # "out" => t \in connected
  <2>0. WiringInv /\ ClientsOK
    BY ConvergesParts DEF RunSlotInv
  <2>1. /\ UNCHANGED <<job, task, pub>>
        /\ \A x \in Tabs : x # t => conn'[x] = conn[x]
    BY <2>0, ConnectStepMoves
  <2>2. conn[t].pc \notin {"in", "gone"} /\ conn'[t].pc \notin {"out", "gone"}
    BY <2>0, ConnectStepMoves
  <2>3. connected' \subseteq connected \union {t} /\ (conn[t].pc = "out" => conn'[t].pc = "registered")
    BY <2>0, ConnectStepMoves
  <2>. QED
    BY <2>0, <2>1, <2>2, <2>3 DEF ClientsOK
<1>1. \A th \in Threads : ~Serialized(th)
  <2>1. CASE conn[t].pc = "out"
    <3>1. lock = Free
      BY <2>1 DEF ConnectStep, ConnectRegisters, MayEnter, ConnectFindsNone, ConnectLooks, ConnectDecides,
         ConnectEndsSlot, ConnectCopies, ConnectJoins, ConnectReplays
    <3>. QED
      BY <3>1, ConvergesParts DEF SectionsExclude
  <2>2. CASE Connecting(t)
    <3>1. lock = t
      BY <2>2, ConvergesParts DEF SectionsExclude
    <3>. QED
      BY <3>1, ConvergesParts DEF SectionsExclude
  <2>. QED
    BY <2>1, <2>2 DEF Connecting, ConnectStep, ConnectRegisters, ConnectFindsNone, ConnectLooks, ConnectDecides,
       ConnectEndsSlot, ConnectCopies, ConnectJoins, ConnectReplays
<1>2. ASSUME NEW o \in Owners
      PROVE  Converges(o)'
  <2>1. /\ \A x \in Tabs : x # t => last'[x] = last[x]
        /\ conn[t].pc = "out" => last' = last
        /\ last'[t][o] \in {last[t][o], Snapshot(o)}
        /\ \/ conn'[t].pc = "registered" /\ conn[t].pc = "out"
           \/ job[o].status = "active" /\ Catching(t, o) =>
                 Catching(t, o)' \/ last'[t][o] = Snapshot(o) \/ ToldSoon(o)
    BY <1>1, ConnectTells
  <2>2. \A x \in Tabs : x # t /\ Catching(x, o) => Catching(x, o)'
    BY <1>0 DEF Catching
  <2>3. \A x \in Tabs : last'[x][o] = last[x][o] \/ (conn[x].pc # "out" /\ last'[x][o] = Snapshot(o))
    BY <2>1
  <2>4. /\ \A x \in Tabs : conn'[x].pc = "out" => conn[x].pc = "out"
        /\ conn'[o].pc = "gone" <=> conn[o].pc = "gone"
    BY <1>0, ConvergesParts
  <2>5. \A x \in connected' : \/ conn'[x].pc = "registered" /\ conn[x].pc = "out"
                              \/ /\ x \in connected
                                 /\ job[o].status = "active" /\ Catching(x, o) =>
                                      Catching(x, o)' \/ last'[x][o] = Snapshot(o) \/ ToldSoon(o)
    BY <1>0, <2>1, <2>2
  <2>. QED
    BY <1>0, <1>1, <2>3, <2>4, <2>5, TellingConverges
<1>. QED
  BY <1>2 DEF ConvergeInv

\* emit_preferred_job_status and get_initial_data.
LEMMA HandlerConverges ==
  ASSUME RunSlotInv, OneSlotAtATime, ConvergeInv, NEW t \in Tabs, RequestPreferred(t) \/ RequestInitial(t)
  PROVE  ConvergeInv'
<1>0. /\ UNCHANGED <<job, task, pub, conn, connected>> /\ connected \subseteq Tabs
      /\ lock = Free /\ conn[t].pc # "out"
  <2>0. ClientsOK
    BY ConvergesParts
  <2>1. CASE RequestPreferred(t)
    BY <2>0, <2>1 DEF RequestPreferred, clients, registry, ClientsOK
  <2>2. CASE RequestInitial(t)
    BY <2>0, <2>2 DEF RequestInitial, registry, ClientsOK
  <2>. QED
    BY <2>1, <2>2
<1>1. \A th \in Threads : ~Serialized(th)
  <2>1. SectionsExclude /\ Free \notin Threads
    BY ConvergesParts
  <2>. QED
    BY <1>0, <2>1 DEF SectionsExclude
<1>2. ASSUME NEW o \in Owners
      PROVE  Converges(o)'
  <2>1. \A x \in Tabs : Catching(x, o) => Catching(x, o)'
    BY <1>0 DEF Catching
  <2>2. \/ FindActiveOwner \in Owners /\ Tell({t}, FindActiveOwner, Snapshot(FindActiveOwner))
        \/ FindActiveOwner = Free /\ last' = [last EXCEPT ![t] = [x \in Owners |-> Idle]]
    BY ConvergesParts, FirstOwnerIsOpen DEF RequestPreferred, RequestInitial
  <2>3. CASE FindActiveOwner \in Owners /\ Tell({t}, FindActiveOwner, Snapshot(FindActiveOwner))
    <3>1. /\ \A y \in Tabs : y # t => last'[y][o] = last[y][o]
          /\ last'[t][o] \in {last[t][o], Snapshot(o)}
      BY <2>3, ConvergesParts DEF Tell
    <3>. QED
      BY <1>0, <1>1, <2>1, <3>1, TellingConverges
  <2>4. CASE FindActiveOwner = Free /\ last' = [last EXCEPT ![t] = [x \in Owners |-> Idle]]
    <3>1. slot[o] = 0
      BY <2>4, FirstOwnerIsOpen, ConvergesParts
    <3>2. job[o].status = "active" => ToldSoon(o)
      BY <1>1, <3>1, ClosedIsToldSoon
    <3>3. /\ \A y \in Tabs : y # t => last'[y][o] = last[y][o]
          /\ last'[t][o] = Idle
      BY <2>4, ConvergesParts
    <3>. QED
      BY <1>0, <1>1, <2>1, <3>2, <3>3, TellingConverges
  <2>. QED
    BY <2>2, <2>3, <2>4
<1>. QED
  BY <1>2 DEF ConvergeInv

LEMMA StepConverges ==
  ASSUME ~Overlap, RunSlotInv, OneSlotAtATime, EverybodyFollows, ConvergeInv, [Next]_vars
  PROVE  ConvergeInv'
<1>1. ASSUME NEW th \in Threads, PublishStep(th)
      PROVE  ConvergeInv'
  <2>1. PICK p \in Owners : p = pub[th].owner
    BY <1>1, ConvergesParts, PublishStepMoves
  <2>2. Converges(p)'
    BY <1>1, <2>1, PreparingConverges, SendingConverges
  <2>3. \A x \in Owners : x # p => Converges(x)'
    BY <1>1, <2>1, FarPublishConverges
  <2>. QED
    BY <2>2, <2>3 DEF ConvergeInv
<1>2. CASE UNCHANGED vars
  <2>1. \A x \in Owners : Untouched(x)
    BY <1>2 DEF vars, Untouched
  <2>. QED
    BY <1>2, <2>1, UntouchedConverges DEF ConvergeInv, vars
<1>. QED
  BY <1>1, <1>2, AdmitConverges, RequestConverges, DisconnectConverges, TaskConverges, ConnectConverges,
     HandlerConverges DEF Next

LEMMA InitConverges == Init => ConvergeInv
<1>. SUFFICES ASSUME Init, NEW o \in Owners PROVE Converges(o)
  BY DEF ConvergeInv
<1>1. /\ job[o].status = "absent" /\ ~job[o].disconnected
      /\ \A th \in Threads : ~Serialized(th)
      /\ conn[o].pc = "out"
      /\ \A t \in Tabs : ~last[t][o].active
  BY Constants DEF Init, NoJob, NotPublishing, NotConnected, Idle, Serialized
<1>. QED
  BY <1>1 DEF Converges, SnapIsFresh, ActiveIsTold, EndIsHeard, ActiveSnapIsFollowed, NobodyHeardYet

\* With every publication through, what is on its way has arrived.
LEMMA QuietMeansConverged ==
  ASSUME RunSlotInv, ConvergeInv
  PROVE  TabsConverge
<1>. SUFFICES ASSUME Quiet, NEW t \in connected, NEW o \in Owners
              PROVE  IF job[o].status = "active" THEN last[t][o] = Snapshot(o)
                     ELSE o \in connected /\ job[o].status # "failed" => ~last[t][o].active
  BY DEF TabsConverge
<1>1. /\ \A th \in Threads : ~Serialized(th) /\ ~Waiting(th)
      /\ \A x \in Tabs : ~Connecting(x)
      /\ Converges(o) /\ t \in Tabs /\ o \in Tabs /\ job[o] \in Job
  BY ConvergesParts DEF Quiet, Serialized, Waiting, SectionsExclude, ConvergeInv, ClientsOK
<1>2. ~ToldSoon(o) /\ ~BeingTold(o) /\ ~Catching(t, o) /\ ~EndWaits(o) /\ ~EndIsTold(o)
  <2>1. ~Catching(t, o)
    BY <1>1 DEF Catching, Connecting
  <2>. QED
    BY <1>1, <2>1, ConvergesParts DEF ToldSoon, BeingTold, EndWaits, EndIsTold, Quiet
<1>3. CASE job[o].status = "active"
  BY <1>1, <1>2, <1>3 DEF Converges, ActiveIsTold
<1>4. CASE job[o].status = "ended" /\ o \in connected
  BY <1>1, <1>2, <1>4, ConvergesParts DEF Converges, EndIsHeard, ClientsOK
<1>5. CASE job[o].status = "absent" /\ o \in connected
  BY <1>1, <1>5, ConvergesParts DEF Converges, NobodyHeardYet, ClientsOK
<1>. QED
  BY <1>1, <1>3, <1>4, <1>5 DEF Job

\* PROJECT_STATUS.md: "every open tab, and tabs opened later, render the same state".  As
\* long as no two owners have a slot open at once, and whatever number of tasks, requests
\* and connecting clients publish at the same time: when all is quiet every connected
\* client has the registry's own status of an active job, and while its owner is connected
\* nobody believes a job active that ended.
THEOREM EveryTabConverges ==
  ASSUME ~Overlap
  PROVE  Spec /\ []OneSlotAtATime => []TabsConverge
<1>1. Init => FollowInv /\ ConvergeInv
  BY InitFollow, InitConverges
<1>2. RunSlotInv /\ OneSlotAtATime /\ FollowInv /\ [Next]_vars => FollowInv'
  BY StepKeepsFollowers, StepKeepsCaughtUp DEF RunSlotInv, FollowInv
<1>3. ~Overlap /\ RunSlotInv /\ OneSlotAtATime /\ FollowInv /\ ConvergeInv /\ [Next]_vars => ConvergeInv'
  BY StepConverges DEF FollowInv
<1>4. RunSlotInv /\ ConvergeInv => TabsConverge
  BY QuietMeansConverged
<1>. QED
  BY <1>1, <1>2, <1>3, <1>4, SlotsInvariant, PTL DEF Spec

\* One operator's tab starts the jobs and any number of clients watch: no hypothesis is left.
THEOREM WatchersSeeOneOperator ==
  ASSUME ~Overlap, NEW o, Owners = {o}
  PROVE  Spec => [](NothingIsMissed /\ TabsConverge)
<1>1. OneSlotAtATime
  BY DEF OneSlotAtATime
<1>. QED
  BY <1>1, LateClientsMissNothing, EveryTabConverges, PTL

=============================================================================
