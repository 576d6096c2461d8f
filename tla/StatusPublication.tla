------------------------- MODULE StatusPublication -------------------------
(***************************************************************************)
(* What browser tabs and bridges learn about running jobs: ScanBroadcaster *)
(* (nmapui/jobs.py), the publication of job statuses under the registry's  *)
(* status_publication_lock (events.py, app_bindings.py), the unserialized  *)
(* events of a task (make_broadcast_emit) and the connect handler that     *)
(* replays a running job to a late client (handlers/connections.py).       *)
(*                                                                         *)
(* One job type is modelled, so a job's key is the sid that owns it.  The  *)
(* registry is reduced to a status and a version that counts the changes   *)
(* of the record; an event is named by its run and its place in the run.   *)
(* An unused operator right before one of the same parameters is a         *)
(* plausible slip in it.                                                   *)
(***************************************************************************)
EXTENDS Naturals, Sequences, FiniteSets, SequencesExt

CONSTANTS
  Owners,     \* sids that start jobs
  Watchers,   \* sids that only connect and watch
  Bridges,    \* which sids authenticated as a Daedalus bridge
  Overlap,    \* may an owner start again before its last task ended its slot?
  MaxRuns, MaxVersion, MaxEvents   \* bounds

Tabs == Owners \union Watchers
Runs == 1..MaxRuns
Events == Runs \X (1..MaxEvents)

Handler == 0               \* the thread of a cancel, pause, resume or status request
Threads == {Handler} \union Runs
Free == MaxRuns + 1        \* nobody holds the publication lock

ASSUME PublicationAssumption ==
  /\ Bridges \subseteq Tabs
  /\ Tabs \intersect (Threads \union {Free}) = {}
  /\ Overlap \in BOOLEAN
  /\ MaxRuns \in Nat \ {0} /\ MaxVersion \in Nat \ {0} /\ MaxEvents \in Nat

VARIABLES
  job,        \* the registry's record of an owner's job
  task,       \* the handler, then background task, of each run
  slot,       \* broadcaster._source_jobs: the run an open slot belongs to, or 0
  order,      \* the owners of open slots in the insertion order of the dict
  subs,       \* broadcaster._subscribers
  buffer,     \* broadcaster._buffer: events replayed to a late client
  connected,  \* broadcaster._connected_sids
  synced,     \* clients that asked for the initial data since they connected
  conn,       \* progress of each client through on_connect
  pub,        \* progress of each thread through emit_job_status
  lock,       \* who is inside status_publication_lock
  last,       \* per client and owner, the status it was told last
  got         \* per client, the events that reached it

vars == <<job, task, slot, order, subs, buffer, connected, synced, conn, pub, lock,
          last, got>>

-----------------------------------------------------------------------------
Status == [run : {0} \union Runs, version : 0..MaxVersion, active : BOOLEAN]
Idle == [run |-> 0, version |-> 0, active |-> FALSE]

\* Running and cancelling are both "active"; "failed" is an end nobody publishes.
Job == [run : {0} \union Runs, status : {"absent", "active", "ended", "failed"},
        version : 0..MaxVersion, disconnected : BOOLEAN]
NoJob == [run |-> 0, status |-> "absent", version |-> 0, disconnected |-> FALSE]

Snapshot(o) == [run |-> job[o].run, version |-> job[o].version,
                active |-> job[o].status = "active"]

TaskPCs == {"none", "admitted", "opened", "scheduled", "body", "emitting", "ended",
            "closing", "done"}
Task == [owner : Owners \union {Free}, pc : TaskPCs, sent : 0..MaxEvents, source : {0} \union Runs]
NoTask == [owner |-> Free, pc |-> "none", sent |-> 0, source |-> 0]

PubPCs == {"idle", "waiting", "judging", "reopening", "sending"}
Pub == [pc : PubPCs, owner : Owners \union {Free}, snap : Status]
NotPublishing == [pc |-> "idle", owner |-> Free, snap |-> Idle]

ConnPCs == {"out", "registered", "looked", "ending", "copying", "joining", "replaying",
            "in", "gone"}
Conn == [pc : ConnPCs, owner : Owners \union {Free}, replay : SUBSET Events]
NotConnected == [pc |-> "out", owner |-> Free, replay |-> {}]

OwnerOf(r) == task[r].owner
Done(r) == task[r].pc \in {"none", "done"}

registry    == <<job>>
broadcaster == <<slot, order, subs, buffer>>
clients     == <<connected, synced, conn>>
received    == <<last, got>>

-----------------------------------------------------------------------------
(* ScanBroadcaster.                                                         *)

\* A new slot is followed by everybody who is connected.
OwnerAlone(o) == {o}
Audience(o) == connected \union {o}

StartJob(o, r) ==
  /\ slot' = [slot EXCEPT ![o] = r]
  /\ order' = IF Contains(order, o) THEN order ELSE Append(order, o)
  /\ subs' = [subs EXCEPT ![o] = Audience(o)]
  /\ buffer' = [buffer EXCEPT ![o] = {}]

EndJob(o) ==
  /\ slot' = [slot EXCEPT ![o] = 0]
  /\ order' = RemoveFirst(order, o)
  /\ subs' = [subs EXCEPT ![o] = {}]
  /\ buffer' = [buffer EXCEPT ![o] = {}]

\* find_active_owner: the first open slot of the dict.
FindActiveOwner == IF order = <<>> THEN Free ELSE Head(order)

Tell(ts, o, status) ==
  last' = [t \in Tabs |-> IF t \in ts THEN [last[t] EXCEPT ![o] = status] ELSE last[t]]

-----------------------------------------------------------------------------
(* emit_job_status: acquire the lock, read the registry, make sure the slot *)
(* is the run's, record, read the subscribers and send.                     *)

\* A thread may enter the serialized section when nobody is in it.
Unserialized(holder) == TRUE
MayEnter(holder) == holder = Free

Publishing(th, o) ==
  pub' = [pub EXCEPT ![th] = [NotPublishing EXCEPT !.pc = "waiting", !.owner = o]]

PublishReads(th) ==
  /\ pub[th].pc = "waiting"
  /\ MayEnter(lock)
  /\ lock' = th
  /\ LET snap == Snapshot(pub[th].owner) IN
     pub' = [pub EXCEPT ![th].snap = snap,
                        ![th].pc = IF snap.run = 0 THEN "sending" ELSE "judging"]
  /\ UNCHANGED <<registry, task, broadcaster, clients, received>>

\* get_source_job_id(sid) != payload["source_job_id"]
SlotDiffers(o, run) == slot[o] # run

PublishJudges(th) ==
  /\ pub[th].pc = "judging"
  /\ pub' = [pub EXCEPT ![th].pc =
               IF SlotDiffers(pub[th].owner, pub[th].snap.run) THEN "reopening" ELSE "sending"]
  /\ UNCHANGED <<registry, task, broadcaster, clients, lock, received>>

PublishReopens(th) ==
  /\ pub[th].pc = "reopening"
  /\ StartJob(pub[th].owner, pub[th].snap.run)
  /\ pub' = [pub EXCEPT ![th].pc = "sending"]
  /\ UNCHANGED <<registry, task, clients, lock, received>>

\* An idle status goes to the owner as well; any other to the subscribers.
PublishSends(th) ==
  LET o == pub[th].owner
      to == subs[o] \union (IF pub[th].snap.run = 0 THEN {o} ELSE {})
  IN  /\ pub[th].pc = "sending"
      /\ Tell(to \intersect connected, o, pub[th].snap)
      /\ pub' = [pub EXCEPT ![th] = NotPublishing]
      /\ lock' = Free
      /\ UNCHANGED <<registry, task, broadcaster, clients, got>>

-----------------------------------------------------------------------------
(* Client requests.                                                         *)

\* Any change of an active record: pause, resume, cancel or progress.
TouchedUnbounded(o) == [job EXCEPT ![o].version = MaxVersion + 1]
Touched(o) == [job EXCEPT ![o].version = @ + 1]

\* cancel_job, pause_job and resume_job change the record, then publish; a
\* refused request, a refused start and get_job_status only publish.
RequestChanges(o) ==
  /\ pub[Handler].pc = "idle"
  /\ connected # {}
  /\ job[o].status = "active" /\ job[o].version + 1 < MaxVersion
  /\ job' = Touched(o)
  /\ Publishing(Handler, o)
  /\ UNCHANGED <<task, broadcaster, clients, lock, received>>

RequestPublishes(o) ==
  /\ pub[Handler].pc = "idle"
  /\ connected # {}
  /\ Publishing(Handler, o)
  /\ UNCHANGED <<registry, task, broadcaster, clients, lock, received>>

\* emit_preferred_job_status for a client that does not own the active job.
\* It runs wholly under the lock and reads one registry record, so it is one step.
RequestPreferred(t) ==
  LET o == FindActiveOwner IN
  /\ t \in connected
  /\ lock = Free
  /\ o \notin {Free, t}
  /\ job[o].status = "active"
  /\ Tell({t}, o, Snapshot(o))
  /\ UNCHANGED <<registry, task, broadcaster, clients, pub, lock, got>>

\* get_initial_data: the first open slot's replay and a fresh status, or the news
\* that nothing is being scanned; again one step under the lock.
InitialReplay(o) == buffer[o]

RequestInitial(t) ==
  LET o == FindActiveOwner IN
  /\ conn[t].pc = "in"
  /\ lock = Free
  /\ synced' = synced \union {t}
  /\ IF o = Free
     THEN /\ last' = [last EXCEPT ![t] = [x \in Owners |-> Idle]]
          /\ UNCHANGED got
     ELSE /\ Tell({t}, o, Snapshot(o))
          /\ got' = [got EXCEPT ![t] = @ \union InitialReplay(o)]
  /\ UNCHANGED <<registry, task, broadcaster, connected, conn, pub, lock>>

\* mark_disconnected and unsubscribe; the sid is never used again.
Disconnect(t) ==
  /\ conn[t].pc = "in"
  /\ conn' = [conn EXCEPT ![t] = [NotConnected EXCEPT !.pc = "gone"]]
  /\ connected' = connected \ {t}
  /\ synced' = synced \ {t}
  /\ subs' = [o \in Owners |-> subs[o] \ {t}]
  /\ job' = IF t \notin Owners THEN job
            ELSE IF job[t].status = "active"
            THEN [job EXCEPT ![t].disconnected = TRUE]
            ELSE [job EXCEPT ![t] = NoJob]
  /\ UNCHANGED <<task, slot, order, buffer, pub, lock, received>>

-----------------------------------------------------------------------------
(* The life of a run: handler, then background task.                        *)

Admit(o, r) ==
  /\ o \in connected
  /\ task[r].pc = "none"
  /\ \A q \in 1..(r - 1) : task[q].pc # "none"
  /\ job[o].status # "active"
  /\ Overlap \/ \A q \in Runs : OwnerOf(q) = o => Done(q)
  /\ job' = [job EXCEPT ![o] = [run |-> r, status |-> "active", version |-> 1,
                                disconnected |-> FALSE]]
  /\ task' = [task EXCEPT ![r] = [NoTask EXCEPT !.owner = o, !.pc = "admitted"]]
  /\ UNCHANGED <<broadcaster, clients, pub, lock, received>>

\* broadcaster.start_job() with the identity the registry holds by now; the
\* handler dies when the record is gone.
OpenSlot(r) ==
  LET o == OwnerOf(r) IN
  /\ task[r].pc = "admitted"
  /\ IF job[o].run = 0
     THEN /\ task' = [task EXCEPT ![r].pc = "done"]
          /\ UNCHANGED broadcaster
     ELSE /\ task' = [task EXCEPT ![r].pc = "opened"]
          /\ StartJob(o, job[o].run)
  /\ UNCHANGED <<registry, clients, pub, lock, received>>

PublishStart(r) ==
  /\ task[r].pc = "opened"
  /\ task' = [task EXCEPT ![r].pc = "scheduled"]
  /\ Publishing(r, OwnerOf(r))
  /\ UNCHANGED <<registry, broadcaster, clients, lock, received>>

\* complete() of the owner's record, if it still has one.
Ended(o, status) ==
  IF job[o].run = 0 THEN job
  ELSE [job EXCEPT ![o].status = status, ![o].version = MaxVersion]

\* start_background_task raises: complete() without a status, then end_job.
ScheduleFails(r) ==
  /\ task[r].pc = "scheduled" /\ pub[r].pc = "idle"
  /\ task' = [task EXCEPT ![r].pc = "closing"]
  /\ job' = Ended(OwnerOf(r), "failed")
  /\ UNCHANGED <<broadcaster, clients, pub, lock, received>>

\* make_broadcast_emit: the task's events carry the run its slot names now.
TaskBegins(r) ==
  /\ task[r].pc = "scheduled" /\ pub[r].pc = "idle"
  /\ task' = [task EXCEPT ![r].pc = "body", ![r].source = slot[OwnerOf(r)]]
  /\ UNCHANGED <<registry, broadcaster, clients, pub, lock, received>>

\* update_job_progress: change the record, then publish.
TaskProgresses(r) ==
  LET o == OwnerOf(r) IN
  /\ task[r].pc = "body" /\ pub[r].pc = "idle"
  /\ job[o].status = "active" /\ job[o].version + 1 < MaxVersion
  /\ job' = Touched(o)
  /\ Publishing(r, o)
  /\ UNCHANGED <<task, broadcaster, clients, lock, received>>

\* Any other event: record() retains it when it belongs to the open slot's run.
TaskRecords(r) ==
  LET o == OwnerOf(r)
      e == <<r, task[r].sent + 1>>
      current == slot[o] # 0 /\ task[r].source \in {0, slot[o]}
  IN  /\ task[r].pc = "body" /\ pub[r].pc = "idle"
      /\ task[r].sent < MaxEvents
      /\ buffer' = IF current THEN [buffer EXCEPT ![o] = @ \union {e}] ELSE buffer
      /\ task' = [task EXCEPT ![r].pc = "emitting"]
      /\ UNCHANGED <<registry, slot, order, subs, clients, pub, lock, received>>

\* ... and it is sent to whoever subscribes by then.
TaskDelivers(r) ==
  LET e == <<r, task[r].sent + 1>> IN
  /\ task[r].pc = "emitting"
  /\ got' = [t \in Tabs |-> IF t \in subs[OwnerOf(r)] \intersect connected
                            THEN got[t] \union {e} ELSE got[t]]
  /\ task' = [task EXCEPT ![r].pc = "body", ![r].sent = @ + 1]
  /\ UNCHANGED <<registry, broadcaster, clients, pub, lock, last>>

\* complete(), then publish.
TaskEnds(r) ==
  LET o == OwnerOf(r) IN
  /\ task[r].pc = "body" /\ pub[r].pc = "idle"
  /\ task' = [task EXCEPT ![r].pc = "ended"]
  /\ job' = Ended(o, "ended")
  /\ Publishing(r, o)
  /\ UNCHANGED <<broadcaster, clients, lock, received>>

\* clear_if_disconnected
TaskClears(r) ==
  LET o == OwnerOf(r) IN
  /\ task[r].pc = "ended" /\ pub[r].pc = "idle"
  /\ task' = [task EXCEPT ![r].pc = "closing"]
  /\ job' = IF job[o].disconnected THEN [job EXCEPT ![o] = NoJob] ELSE job
  /\ UNCHANGED <<broadcaster, clients, pub, lock, received>>

\* on_job_end: end_job by owner.
TaskCloses(r) ==
  /\ task[r].pc = "closing"
  /\ task' = [task EXCEPT ![r].pc = "done"]
  /\ EndJob(OwnerOf(r))
  /\ UNCHANGED <<registry, clients, pub, lock, received>>

-----------------------------------------------------------------------------
(* on_connect, wholly under the publication lock.                           *)

\* A browser copies the replay buffer and then subscribes; a bridge is
\* subscribed first.
CopiesFirst(t) == TRUE
CopiesBeforeJoining(t) == t \notin Bridges

ConnectRegisters(t) ==
  /\ conn[t].pc = "out"
  /\ MayEnter(lock)
  /\ lock' = t
  /\ connected' = connected \union {t}
  /\ conn' = [conn EXCEPT ![t].pc = "registered"]
  /\ UNCHANGED <<registry, task, broadcaster, synced, pub, received>>

\* Without an open slot the client is told of a job the store has as running;
\* rows are written inside the registry's critical sections.
ConnectFindsNone(t) ==
  /\ conn[t].pc = "registered"
  /\ FindActiveOwner = Free
  /\ IF \E o \in Owners : job[o].status = "active"
     THEN \E o \in Owners : job[o].status = "active" /\ Tell({t}, o, Snapshot(o))
     ELSE UNCHANGED last
  /\ conn' = [conn EXCEPT ![t].pc = "in"]
  /\ lock' = Free
  /\ UNCHANGED <<registry, task, broadcaster, connected, synced, pub, got>>

\* sync_state, from the first look at the owner's job.
ConnectLooks(t) ==
  LET o == FindActiveOwner IN
  /\ conn[t].pc = "registered"
  /\ o # Free
  /\ Tell({t}, o, Snapshot(o))
  /\ conn' = [conn EXCEPT ![t].pc = "looked", ![t].owner = o]
  /\ UNCHANGED <<registry, task, broadcaster, connected, synced, pub, lock, got>>

\* The second look decides between ending the slot and joining it.
ConnectDecides(t) ==
  /\ conn[t].pc = "looked"
  /\ conn' = [conn EXCEPT ![t].pc =
                IF job[conn[t].owner].status # "active" THEN "ending"
                ELSE IF CopiesBeforeJoining(t) THEN "copying" ELSE "joining"]
  /\ UNCHANGED <<registry, task, broadcaster, connected, synced, pub, lock, received>>

ConnectEndsSlot(t) ==
  /\ conn[t].pc = "ending"
  /\ EndJob(conn[t].owner)
  /\ conn' = [conn EXCEPT ![t].pc = "in", ![t].owner = Free]
  /\ lock' = Free
  /\ UNCHANGED <<registry, task, connected, synced, pub, received>>

ConnectCopies(t) ==
  /\ conn[t].pc = "copying"
  /\ conn' = [conn EXCEPT ![t].pc = "joining", ![t].replay = buffer[conn[t].owner]]
  /\ UNCHANGED <<registry, task, broadcaster, connected, synced, pub, lock, received>>

\* subscribe() does nothing when the slot is gone; a bridge reads its buffer.
ConnectJoins(t) ==
  LET o == conn[t].owner IN
  /\ conn[t].pc = "joining"
  /\ subs' = IF slot[o] = 0 THEN subs ELSE [subs EXCEPT ![o] = @ \union {t}]
  /\ conn' = [conn EXCEPT ![t].pc = "replaying"]
  /\ Tell({t}, o, Snapshot(o))
  /\ UNCHANGED <<registry, task, slot, order, buffer, connected, synced, pub, lock, got>>

\* The replay, then a fresh observation of the job.
ConnectReplays(t) ==
  LET o == conn[t].owner
      replay == IF CopiesBeforeJoining(t) THEN conn[t].replay ELSE buffer[o]
  IN  /\ conn[t].pc = "replaying"
      /\ got' = [got EXCEPT ![t] = @ \union replay]
      /\ Tell({t}, o, Snapshot(o))
      /\ conn' = [conn EXCEPT ![t] = [NotConnected EXCEPT !.pc = "in"]]
      /\ lock' = Free
      /\ UNCHANGED <<registry, task, broadcaster, connected, synced, pub>>

-----------------------------------------------------------------------------
Init ==
  /\ job = [o \in Owners |-> NoJob]
  /\ task = [r \in Runs |-> NoTask]
  /\ slot = [o \in Owners |-> 0]
  /\ order = <<>>
  /\ subs = [o \in Owners |-> {}]
  /\ buffer = [o \in Owners |-> {}]
  /\ connected = {}
  /\ synced = {}
  /\ conn = [t \in Tabs |-> NotConnected]
  /\ pub = [th \in Threads |-> NotPublishing]
  /\ lock = Free
  /\ last = [t \in Tabs |-> [o \in Owners |-> Idle]]
  /\ got = [t \in Tabs |-> {}]

PublishStep(th) ==
  PublishReads(th) \/ PublishJudges(th) \/ PublishReopens(th) \/ PublishSends(th)

TaskStep(r) ==
  \/ OpenSlot(r) \/ PublishStart(r) \/ ScheduleFails(r) \/ TaskBegins(r)
  \/ TaskProgresses(r) \/ TaskRecords(r) \/ TaskDelivers(r)
  \/ TaskEnds(r) \/ TaskClears(r) \/ TaskCloses(r)

ConnectStep(t) ==
  \/ ConnectRegisters(t) \/ ConnectFindsNone(t) \/ ConnectLooks(t) \/ ConnectDecides(t)
  \/ ConnectEndsSlot(t) \/ ConnectCopies(t) \/ ConnectJoins(t) \/ ConnectReplays(t)

Next ==
  \/ \E o \in Owners, r \in Runs : Admit(o, r)
  \/ \E o \in Owners : RequestChanges(o) \/ RequestPublishes(o)
  \/ \E t \in Tabs : ConnectStep(t) \/ RequestPreferred(t) \/ RequestInitial(t)
                      \/ Disconnect(t)
  \/ \E r \in Runs : TaskStep(r)
  \/ \E th \in Threads : PublishStep(th)

Spec == Init /\ [][Next]_vars

-----------------------------------------------------------------------------
(* Properties.                                                              *)

\* Type invariant.
PublicationTypeOK ==
  /\ job \in [Owners -> Job]
  /\ task \in [Runs -> Task]
  /\ slot \in [Owners -> {0} \union Runs]
  /\ order \in Seq(Owners) /\ IsInjective(order)
  /\ ToSet(order) = {o \in Owners : slot[o] # 0}
  /\ subs \in [Owners -> SUBSET Tabs]
  /\ buffer \in [Owners -> SUBSET Events]
  /\ connected \subseteq Tabs
  /\ synced \subseteq connected
  /\ conn \in [Tabs -> Conn]
  /\ pub \in [Threads -> Pub]
  /\ lock \in Threads \union Tabs \union {Free}
  /\ last \in [Tabs -> [Owners -> Status]]
  /\ got \in [Tabs -> SUBSET Events]

\* Status a is b or came after it, or tells that the record is gone.
NotOlder(a, b) ==
  \/ a.run = 0
  \/ a.run > b.run
  \/ a.run = b.run /\ a.version >= b.version

\* events.py: "Order snapshot selection, replay and enqueue across status
\* producers."  What a client is told of a job never goes back in the job's
\* history, whoever publishes and however many publish at once.
StatusesNeverGoBack ==
  [][\A t \in Tabs, o \in Owners : NotOlder(last'[t][o], last[t][o])]_vars

\* Nobody is publishing or connecting.
Quiet ==
  /\ lock = Free
  /\ \A th \in Threads : pub[th].pc = "idle"
  /\ \A r \in Runs : task[r].pc \notin {"admitted", "opened"}

\* PROJECT_STATUS.md: "every open tab, and tabs opened later, render the same
\* state".  With every publication through, an active job is known to every
\* connected client exactly as the registry has it; and while its owner stays
\* connected no client believes in an active job that is over, unless it is over
\* because its task could not be scheduled, which nobody publishes.
TabsConverge ==
  Quiet =>
    \A t \in connected, o \in Owners :
      IF job[o].status = "active" THEN last[t][o] = Snapshot(o)
      ELSE o \in connected /\ job[o].status # "failed" => ~last[t][o].active

\* From its first published status until its last one, the open slot of a task's
\* owner is its own, so its events are retained and reach subscribers.
WorkingRunIsBroadcast ==
  \A r \in Runs :
    \/ task[r].pc \in {"body", "emitting"}
    \/ task[r].pc = "scheduled" /\ pub[r].pc = "idle"
    => slot[OwnerOf(r)] = r

\* docs/socket-events.md: "If a scan or report job is already active, the new tab
\* also receives replayed job events".  A bridge whose connect handler is done, and
\* a browser tab that asked for its initial data since, have every event delivered
\* so far of the runs still at work.
Missed(t) ==
  {e \in Events : task[e[1]].pc \in {"body", "emitting"} /\ e[2] <= task[e[1]].sent}
    \ got[t]
BridgesMissNothing == \A t \in Bridges : conn[t].pc = "in" => Missed(t) = {}
TabsMissNothing == \A t \in synced : Missed(t) = {}

\* The events of a run at work are recorded under its owner's slot and reach everybody
\* who connected, whenever that was.
NothingIsMissed == WorkingRunIsBroadcast /\ BridgesMissNothing /\ TabsMissNothing

=============================================================================
