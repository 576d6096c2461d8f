--------------------------- MODULE DaedalusCommands ---------------------------
(***************************************************************************)
(* Commands of the Daedalus bridge and their durable receipts              *)
(* (nmapui/daedalus_commands.py, the command paths of the start_scan,      *)
(* cancel_job and check_app_updates handlers, the completion listener, the *)
(* reconciliation at startup and the replay when a bridge connects).       *)
(*                                                                         *)
(* All bridges share one command namespace.  A sid lives once: a bridge    *)
(* that reconnects has a new one.  A receipt is known by its command and   *)
(* its status; no store write fails.  An unused operator right before one  *)
(* of the same parameters is a plausible slip in it.                       *)
(***************************************************************************)
EXTENDS Naturals, Sequences, FiniteSets, SequencesExt

CONSTANTS
  Starts, Cancels, Checks,  \* identifiers of the three kinds of command
  Bridges,                  \* sids of bridge connections
  Threads,                  \* request threads of the server
  CancelLimit,              \* cancellation receipts a job may have pending
  MaxRuns, MaxRequests, MaxRestarts   \* bounds

Commands == Starts \union Cancels \union Checks
Runs == 1..MaxRuns
Actors == Threads \union Bridges \union Runs   \* who may emit a receipt
Nobody == 0

ASSUME CommandsAssumption ==
  /\ Starts \intersect Cancels = {} /\ Starts \intersect Checks = {}
  /\ Cancels \intersect Checks = {}
  /\ Threads \intersect Bridges = {}
  /\ (Threads \union Bridges) \intersect (Runs \union {Nobody}) = {}
  /\ CancelLimit \in Nat \ {0} /\ MaxRuns \in Nat \ {0} /\ MaxRestarts \in Nat
  /\ MaxRequests \in Nat
  /\ Nobody \notin Commands

VARIABLES
  row,       \* jobs table: the status of each command's row
  receipts,  \* job_events table: the receipts of each command, oldest first
  bridges,   \* broadcaster._bridge_sids, with the namespace
  conn,      \* progress of each sid through on_connect
  listed,    \* per connecting sid, the rows it still has to replay, as listed
  job,       \* the registry's scan record of each sid
  slot,      \* sids with an open broadcaster slot
  task,      \* the scan task of each run
  req,       \* the request each thread is handling
  emission,  \* per actor, the receipts it is emitting
  lock,      \* who holds daedalus_commands._LOCK
  inbox,     \* receipts that reached each connected sid
  ran,       \* how often each command was performed
  stray,     \* commands let through without a receipt
  requests, restarts   \* how many so far

durable == <<row, receipts>>
sockets == <<bridges, conn, listed>>
scans   == <<job, slot, task>>
history == <<inbox, ran, stray>>
counts  == <<requests, restarts>>
vars == <<durable, sockets, scans, req, emission, lock, history, counts>>

-----------------------------------------------------------------------------
Terminal == {"completed", "failed"}
Receipt == [cmd : Commands, status : {"accepted", "succeeded", "failed"}]
Entry == [cmd : Commands, named : BOOLEAN]
Call == [cmd : Commands, status : {"accepted", "succeeded", "failed"}, named : BOOLEAN]

Over == {"completed", "failed", "cancelled"}
Job == [status : {"none", "running", "cancelling"} \union Over, disconnected : BOOLEAN,
        start : Seq(Entry), cancels : Seq(Entry)]
NoJob == [status |-> "none", disconnected |-> FALSE, start |-> <<>>, cancels |-> <<>>]
Active(o) == job[o].status \in {"running", "cancelling"}

Task == [pc : {"none", "admitted", "body", "reporting", "closing", "done"},
         owner : {Nobody} \union Bridges, cmd : {Nobody} \union Commands,
         verdict : {"none"} \union Over]
NoTask == [pc |-> "none", owner |-> Nobody, cmd |-> Nobody, verdict |-> "none"]

Req == [pc : {"idle", "begin", "act", "opening", "scheduling", "selected", "read", "updated",
              "cancelled"},
        sid : {Nobody} \union Bridges, cmd : {Nobody} \union Commands,
        owner : {Nobody} \union Bridges \union Runs, ids : Seq(Entry)]
NoReq == [pc |-> "idle", sid |-> Nobody, cmd |-> Nobody, owner |-> Nobody, ids |-> <<>>]

Emission == [pc : {"idle", "recording", "sending"}, queue : Seq(Call)]
NotEmitting == [pc |-> "idle", queue |-> <<>>]
Quiet(a) == emission[a].queue = <<>>

\* get_bridge_namespace(sid) is a namespace and not None.
Named(s) == s \in bridges

-----------------------------------------------------------------------------
(* emit_command_result, in three steps under _LOCK.  A receipt without a    *)
(* namespace is dropped before the lock is asked for.                       *)

Result(c, status, named) == [cmd |-> c, status |-> status, named |-> named]
Told(call) == [cmd |-> call.cmd, status |-> call.status]

Emits(a, c, status, named) ==
  emission' = [emission EXCEPT ![a].queue = Append(@, Result(c, status, named))]

EmitDrops(a) ==
  /\ emission[a].pc = "idle" /\ ~Quiet(a)
  /\ ~Head(emission[a].queue).named
  /\ emission' = [emission EXCEPT ![a].queue = Tail(@)]
  /\ UNCHANGED <<durable, sockets, scans, req, lock, history, counts>>

Unserialized(holder) == TRUE
MayEnter(holder) == holder = Nobody

Saved(c) == row[c] \in Terminal

StatusAsRow(status) == status
RowStatus(status) ==
  IF status = "accepted" THEN "running"
  ELSE IF status = "succeeded" THEN "completed" ELSE "failed"

EmitReads(a) ==
  /\ emission[a].pc = "idle" /\ ~Quiet(a)
  /\ Head(emission[a].queue).named /\ MayEnter(lock)
  /\ IF Saved(Head(emission[a].queue).cmd)
     THEN /\ emission' = [emission EXCEPT ![a].queue = Tail(@)]
          /\ UNCHANGED lock
     ELSE /\ emission' = [emission EXCEPT ![a].pc = "recording"]
          /\ lock' = a
  /\ UNCHANGED <<durable, sockets, scans, req, history, counts>>

\* Row and receipt are written in one transaction.
EmitRecords(a) ==
  /\ emission[a].pc = "recording"
  /\ LET r == Head(emission[a].queue) IN
       /\ row' = [row EXCEPT ![r.cmd] = RowStatus(r.status)]
       /\ receipts' = [receipts EXCEPT ![r.cmd] = Append(@, r.status)]
  /\ emission' = [emission EXCEPT ![a].pc = "sending"]
  /\ UNCHANGED <<sockets, scans, req, lock, history, counts>>

\* Every bridge is told, except by its own on_connect: that replays it instead.
RegisteredAfterReplay(a) == {s \in bridges \ {a} : conn[s] = "in"}
Recipients(a) == bridges \ {a}

EmitSends(a) ==
  /\ emission[a].pc = "sending"
  /\ inbox' = [s \in Bridges |-> IF s \in Recipients(a)
                                 THEN inbox[s] \union {Told(Head(emission[a].queue))} ELSE inbox[s]]
  /\ emission' = [emission EXCEPT ![a] = [pc |-> "idle", queue |-> Tail(emission[a].queue)]]
  /\ lock' = Nobody
  /\ UNCHANGED <<durable, sockets, scans, req, ran, stray, counts>>

Evidence(c) == {[cmd |-> c, status |-> receipts[c][i]] : i \in DOMAIN receipts[c]}

-----------------------------------------------------------------------------
(* A request.  command_id_from_payload has just accepted the namespace when *)
(* it arrives; begin_command asks the broadcaster for it again.             *)

Arrives(h, s, c) ==
  /\ req[h].pc = "idle" /\ Quiet(h)
  /\ s \in bridges
  /\ requests < MaxRequests
  /\ requests' = requests + 1
  /\ req' = [req EXCEPT ![h] = [NoReq EXCEPT !.pc = "begin", !.sid = s, !.cmd = c]]
  /\ UNCHANGED <<durable, sockets, scans, emission, lock, history, restarts>>

BeginReplays(h) ==
  /\ req[h].pc = "begin" /\ MayEnter(lock)
  /\ Named(req[h].sid) /\ row[req[h].cmd] # "none"
  /\ inbox' = [inbox EXCEPT ![req[h].sid] = @ \union Evidence(req[h].cmd)]
  /\ req' = [req EXCEPT ![h] = NoReq]
  /\ UNCHANGED <<durable, sockets, scans, emission, lock, ran, stray, counts>>

BeginAccepts(h) ==
  /\ req[h].pc = "begin" /\ MayEnter(lock)
  /\ Named(req[h].sid) /\ row[req[h].cmd] = "none"
  /\ lock' = h
  /\ emission' = [emission EXCEPT ![h] = [pc |-> "recording",
                    queue |-> <<Result(req[h].cmd, "accepted", TRUE)>>]]
  /\ req' = [req EXCEPT ![h].pc = "act"]
  /\ UNCHANGED <<durable, sockets, scans, history, counts>>

\* The bridge has left since: no row is found, no receipt is written.
BeginUnnamed(h) ==
  /\ req[h].pc = "begin" /\ MayEnter(lock) /\ ~Named(req[h].sid)
  /\ req' = [req EXCEPT ![h].pc = "act"]
  /\ stray' = stray \union {req[h].cmd}
  /\ UNCHANGED <<durable, sockets, scans, emission, lock, inbox, ran, counts>>

\* The first step of what a command asks for.
Performs(h, kind) ==
  /\ req[h].pc = "act" /\ Quiet(h) /\ req[h].cmd \in kind
  /\ ran' = [ran EXCEPT ![req[h].cmd] = @ + 1]
  /\ UNCHANGED <<inbox, stray>>

At(h, pc, kind) == req[h].pc = pc /\ Quiet(h) /\ req[h].cmd \in kind

\* The handler's last call is emit_command_result.
Answers(h, status) ==
  /\ Emits(h, req[h].cmd, status, Named(req[h].sid))
  /\ req' = [req EXCEPT ![h] = NoReq]

-----------------------------------------------------------------------------
(* report_scan_completion queues the receipts a finished job owes.          *)

Reported == {"completed", "failed", "cancelled"}

LikeACancel(verdict) == IF verdict \in {"completed", "cancelled"} THEN "succeeded" ELSE "failed"
StartResult(verdict) == IF verdict = "completed" THEN "succeeded" ELSE "failed"
CancelResult(verdict) == IF verdict \in {"completed", "cancelled"} THEN "succeeded" ELSE "failed"

Owing(entries, status) ==
  [i \in DOMAIN entries |-> Result(entries[i].cmd, status, entries[i].named)]

Owed(j) ==
  IF j.status \notin Reported THEN <<>>
  ELSE Owing(j.start, StartResult(j.status)) \o Owing(j.cancels, CancelResult(j.status))

-----------------------------------------------------------------------------
(* start_scan.                                                              *)

\* Rejected target, rate limit, a job in progress, capacity or maintenance.
StartRefused(h) ==
  /\ Performs(h, Starts)
  /\ Answers(h, "failed")
  /\ UNCHANGED <<durable, sockets, scans, lock, counts>>

StartAdmitted(h) ==
  /\ Performs(h, Starts)
  /\ ~Active(req[h].sid)
  /\ \E r \in Runs :
       /\ task[r].pc = "none" /\ \A q \in 1..(r - 1) : task[q].pc # "none"
       /\ job' = [job EXCEPT ![req[h].sid] =
            [NoJob EXCEPT !.status = "running",
               !.start = <<[cmd |-> req[h].cmd, named |-> Named(req[h].sid)]>>]]
       /\ task' = [task EXCEPT ![r] =
            [NoTask EXCEPT !.pc = "admitted", !.owner = req[h].sid, !.cmd = req[h].cmd]]
       /\ req' = [req EXCEPT ![h].pc = "opening", ![h].owner = r]
  /\ UNCHANGED <<durable, sockets, slot, emission, lock, counts>>

StartOpens(h) ==
  /\ At(h, "opening", Starts)
  /\ slot' = slot \union {req[h].sid}
  /\ req' = [req EXCEPT ![h].pc = "scheduling"]
  /\ UNCHANGED <<durable, sockets, job, task, emission, lock, history, counts>>

StartScheduled(h) ==
  /\ At(h, "scheduling", Starts)
  /\ task' = [task EXCEPT ![req[h].owner].pc = "body"]
  /\ req' = [req EXCEPT ![h] = NoReq]
  /\ UNCHANGED <<durable, sockets, job, slot, emission, lock, history, counts>>

\* complete() runs the listener in the caller's thread; end_job follows it.
Completed(a, o, verdict) ==
  /\ job' = [job EXCEPT ![o].status = verdict]
  /\ emission' = [emission EXCEPT ![a].queue = Owed(job'[o])]

StartUnschedulable(h) ==
  /\ At(h, "scheduling", Starts)
  /\ Completed(h, req[h].sid, "failed")
  /\ task' = [task EXCEPT ![req[h].owner].pc = "closing", ![req[h].owner].verdict = "failed"]
  /\ req' = [req EXCEPT ![h] = NoReq]
  /\ UNCHANGED <<durable, sockets, slot, lock, history, counts>>

\* The scan itself is ScanTasks; here it ends, cancelled only if asked to.  Only the
\* finalizer, which decides on "completed", asks whether the record is still active.
TaskCompletes(r) ==
  /\ task[r].pc = "body"
  /\ \E v \in Over :
       /\ v = "cancelled" => job[task[r].owner].status = "cancelling"
       /\ v = "completed" => Active(task[r].owner)
       /\ Completed(r, task[r].owner, v)
       /\ task' = [task EXCEPT ![r].pc = "reporting", ![r].verdict = v]
  /\ UNCHANGED <<durable, sockets, slot, req, lock, history, counts>>

TaskClears(r) ==
  /\ task[r].pc = "reporting" /\ Quiet(r)
  /\ job' = [job EXCEPT ![task[r].owner] = IF @.disconnected THEN NoJob ELSE @]
  /\ task' = [task EXCEPT ![r].pc = "closing"]
  /\ UNCHANGED <<durable, sockets, slot, req, emission, lock, history, counts>>

SlotCloses(r) ==
  /\ task[r].pc = "closing"
  /\ slot' = slot \ {task[r].owner}
  /\ task' = [task EXCEPT ![r].pc = "done"]
  /\ UNCHANGED <<durable, sockets, job, req, emission, lock, history, counts>>

-----------------------------------------------------------------------------
(* cancel_job: request_job_cancellation.                                    *)

Candidates(s) == {o \in Bridges : Active(o) /\ \E e \in ToSet(job[o].start) : e.named = Named(s)}

CancelSelects(h) ==
  /\ Performs(h, Cancels)
  /\ LET s == req[h].sid  found == Candidates(s) IN
       \E o \in IF s \in found THEN {s} ELSE IF found # {} THEN found
                ELSE IF slot # {} THEN slot ELSE {s} :
         req' = [req EXCEPT ![h].pc = "selected", ![h].owner = o]
  /\ UNCHANGED <<durable, sockets, scans, emission, lock, counts>>

CancelReads(h) ==
  /\ At(h, "selected", Cancels)
  /\ LET current == job[req[h].owner] IN
     IF ~Active(req[h].owner) THEN Answers(h, "succeeded")
     ELSE IF \/ ~Named(req[h].sid) /\ \E e \in ToSet(current.start) : e.named
             \/ Len(current.cancels) >= CancelLimit
     THEN Answers(h, "failed")
     ELSE /\ req' = [req EXCEPT ![h].pc = "read", ![h].ids = Append(current.cancels,
                       [cmd |-> req[h].cmd, named |-> Named(req[h].sid)])]
          /\ UNCHANGED emission
  /\ UNCHANGED <<durable, sockets, scans, lock, history, counts>>

\* update() stores the list read before, in whatever record the key has now.
CancelUpdates(h) ==
  /\ At(h, "read", Cancels)
  /\ job' = [job EXCEPT ![req[h].owner].cancels =
                IF job[req[h].owner].status = "none" THEN @ ELSE req[h].ids]
  /\ req' = [req EXCEPT ![h].pc = "updated"]
  /\ UNCHANGED <<durable, sockets, slot, task, emission, lock, history, counts>>

\* expected: the source_job_id of the request is absent or the record's.
CancelSignals(h) ==
  /\ At(h, "updated", Cancels)
  /\ \E expected \in BOOLEAN :
       job' = [job EXCEPT ![req[h].owner].status =
                 IF @ = "running" /\ expected THEN "cancelling" ELSE @]
  /\ req' = [req EXCEPT ![h].pc = "cancelled"]
  /\ UNCHANGED <<durable, sockets, slot, task, emission, lock, history, counts>>

CancelReports(h) ==
  /\ At(h, "cancelled", Cancels)
  /\ emission' = [emission EXCEPT ![h].queue = Owed(job[req[h].owner])]
  /\ req' = [req EXCEPT ![h] = NoReq]
  /\ UNCHANGED <<durable, sockets, scans, lock, history, counts>>

(* check_app_updates.                                                       *)
CheckAnswers(h) ==
  /\ Performs(h, Checks)
  /\ \E status \in {"succeeded", "failed"} : Answers(h, status)
  /\ UNCHANGED <<durable, sockets, scans, lock, counts>>

-----------------------------------------------------------------------------
(* Connections and restarts.                                                *)

Connects(s) ==
  /\ conn[s] = "out"
  /\ bridges' = bridges \union {s}
  /\ conn' = [conn EXCEPT ![s] = "listing"]
  /\ UNCHANGED <<durable, listed, scans, req, emission, lock, history, counts>>

ConnectLists(s) ==
  /\ conn[s] = "listing"
  /\ conn' = [conn EXCEPT ![s] = "replaying"]
  /\ listed' = [listed EXCEPT ![s] = {[cmd |-> c, status |-> row[c]] :
                                        c \in {x \in Commands : row[x] # "none"}}]
  /\ UNCHANGED <<durable, bridges, scans, req, emission, lock, history, counts>>

\* An interrupted command gets its terminal receipt before its replay.
ConnectRecovers(s) ==
  /\ conn[s] = "replaying" /\ Quiet(s)
  /\ \E l \in listed[s] :
       /\ l.status = "interrupted"
       /\ Emits(s, l.cmd, "failed", TRUE)
       /\ listed' = [listed EXCEPT ![s] = (@ \ {l}) \union {[l EXCEPT !.status = "failed"]}]
  /\ UNCHANGED <<durable, bridges, conn, scans, req, lock, history, counts>>

ConnectReplays(s) ==
  /\ conn[s] = "replaying" /\ Quiet(s)
  /\ \E l \in listed[s] :
       /\ l.status # "interrupted"
       /\ inbox' = [inbox EXCEPT ![s] = IF Named(s) THEN @ \union Evidence(l.cmd) ELSE @]
       /\ listed' = [listed EXCEPT ![s] = @ \ {l}]
  /\ UNCHANGED <<durable, bridges, conn, scans, req, emission, lock, ran, stray, counts>>

ConnectEnds(s) ==
  /\ conn[s] = "replaying" /\ Quiet(s) /\ listed[s] = {}
  /\ conn' = [conn EXCEPT ![s] = "in"]
  /\ UNCHANGED <<durable, bridges, listed, scans, req, emission, lock, history, counts>>

\* mark_disconnected, then unsubscribe.
Disconnects(s) ==
  /\ s \in bridges
  /\ job' = [job EXCEPT ![s] = IF Active(s) THEN [@ EXCEPT !.disconnected = TRUE] ELSE NoJob]
  /\ bridges' = bridges \ {s}
  /\ inbox' = [inbox EXCEPT ![s] = {}]
  /\ UNCHANGED <<durable, conn, listed, slot, task, req, emission, lock, ran, stray, counts>>

\* The process ends between any two steps; reconcile_interrupted_jobs runs at startup.
Reconciled(status) == IF status = "running" THEN "interrupted" ELSE status

Restarts ==
  /\ restarts < MaxRestarts
  /\ restarts' = restarts + 1
  /\ row' = [c \in Commands |-> Reconciled(row[c])]
  /\ bridges' = {}
  /\ conn' = [s \in Bridges |-> IF conn[s] = "out" THEN "out" ELSE "gone"]
  /\ listed' = [s \in Bridges |-> {}]
  /\ job' = [s \in Bridges |-> NoJob]
  /\ slot' = {}
  /\ task' = [r \in Runs |-> IF task[r].pc = "none" THEN NoTask ELSE [task[r] EXCEPT !.pc = "done"]]
  /\ req' = [h \in Threads |-> NoReq]
  /\ emission' = [a \in Actors |-> NotEmitting]
  /\ lock' = Nobody
  /\ inbox' = [s \in Bridges |-> {}]
  /\ UNCHANGED <<receipts, ran, stray, requests>>

-----------------------------------------------------------------------------
Init ==
  /\ row = [c \in Commands |-> "none"]
  /\ receipts = [c \in Commands |-> <<>>]
  /\ bridges = {}
  /\ conn = [s \in Bridges |-> "out"]
  /\ listed = [s \in Bridges |-> {}]
  /\ job = [s \in Bridges |-> NoJob]
  /\ slot = {}
  /\ task = [r \in Runs |-> NoTask]
  /\ req = [h \in Threads |-> NoReq]
  /\ emission = [a \in Actors |-> NotEmitting]
  /\ lock = Nobody
  /\ inbox = [s \in Bridges |-> {}]
  /\ ran = [c \in Commands |-> 0]
  /\ stray = {}
  /\ requests = 0
  /\ restarts = 0

Emit(a) == EmitDrops(a) \/ EmitReads(a) \/ EmitRecords(a) \/ EmitSends(a)

Handle(h) ==
  \/ BeginReplays(h) \/ BeginAccepts(h) \/ BeginUnnamed(h)
  \/ StartRefused(h) \/ StartAdmitted(h) \/ StartOpens(h) \/ StartScheduled(h)
  \/ StartUnschedulable(h)
  \/ CancelSelects(h) \/ CancelReads(h) \/ CancelUpdates(h) \/ CancelSignals(h)
  \/ CancelReports(h)
  \/ CheckAnswers(h)

TaskEnds(r) == TaskClears(r) \/ SlotCloses(r)

Connect(s) == ConnectLists(s) \/ ConnectRecovers(s) \/ ConnectReplays(s) \/ ConnectEnds(s)

Next ==
  \/ \E a \in Actors : Emit(a)
  \/ \E h \in Threads : Handle(h) \/ \E s \in Bridges, c \in Commands : Arrives(h, s, c)
  \/ \E r \in Runs : TaskCompletes(r) \/ TaskEnds(r)
  \/ \E s \in Bridges : Connects(s) \/ Connect(s) \/ Disconnects(s)
  \/ Restarts

Spec == Init /\ [][Next]_vars

Symmetry == Permutations(Bridges) \union Permutations(Threads)

-----------------------------------------------------------------------------
(* Properties.                                                              *)

\* Every field keeps its type; a row holds the registry's statuses, never the protocol's
\* (daedalus_commands.py:52), and no job owes more cancellations than the limit.
CommandsTypeOK ==
  /\ row \in [Commands -> {"none", "running", "interrupted"} \union Terminal]
  /\ receipts \in [Commands -> Seq({"accepted", "succeeded", "failed"})]
  /\ bridges \in SUBSET Bridges
  /\ conn \in [Bridges -> {"out", "listing", "replaying", "in", "gone"}]
  /\ listed \in [Bridges -> SUBSET [cmd : Commands, status : {"running", "interrupted"} \union Terminal]]
  /\ inbox \in [Bridges -> SUBSET Receipt]
  /\ job \in [Bridges -> Job] /\ \A s \in Bridges : Len(job[s].cancels) <= CancelLimit
  /\ slot \in SUBSET Bridges
  /\ task \in [Runs -> Task]
  /\ req \in [Threads -> Req]
  /\ emission \in [Actors -> Emission]
  /\ lock \in {Nobody} \union Actors
  /\ ran \in [Commands -> Nat] /\ stray \in SUBSET Commands
  /\ requests \in 0..MaxRequests /\ restarts \in 0..MaxRestarts

\* A command has one acceptance and then at most one terminal receipt, which stays: the
\* completion listener, a cancellation that reports the same job, a second complete() and
\* the recovery of several bridges never contradict each other (emit_command_result).
ReceiptsAreFinal ==
  /\ \A c \in Commands : receipts[c] \in {<<>>, <<"accepted">>, <<"accepted", "succeeded">>,
                                         <<"accepted", "failed">>}
  /\ \A c \in Commands : row[c] = "none" <=> receipts[c] = <<>>

\* A command that is let through with a receipt is performed once, whatever bridges
\* resend it, concurrently, after a reconnect or after a restart (begin_command).
AcceptedRunsOnce == \A c \in Commands \ stray : ran[c] <= 1

\* The receipt of a scan says what became of the scan: success only if a run of the
\* command completed, failure (without a restart) only if none did.
ReceiptsTellTheVerdict ==
  \A c \in Starts \ stray :
    LET completed == \E r \in Runs : task[r].cmd = c /\ task[r].verdict = "completed" IN
    /\ row[c] = "completed" => completed
    /\ row[c] = "failed" /\ restarts = 0 => ~completed

\* A bridge that has connected misses no receipt: it has each one that is recorded, from
\* its replay or live, unless a thread is just about to send it (on_connect).
BridgesKnowReceipts ==
  \A s \in bridges, c \in Commands :
    conn[s] = "in" =>
      Evidence(c) \subseteq inbox[s] \union
        {Told(Head(emission[a].queue)) : a \in {x \in Actors : emission[x].pc = "sending"}}

\* Once a bridge has connected after a restart, no command is left interrupted: each has
\* its terminal receipt (reconcile_interrupted_jobs, on_connect).
ConnectSettlesInterrupted ==
  (\E s \in Bridges : conn[s] = "in") => \A c \in Commands : row[c] # "interrupted"

\* A scan that is over answers the command that started it, whoever is connected: until
\* the receipt is recorded, somebody is about to (report_scan_completion).
FinishedScansAreAnswered ==
  \A s \in Bridges : \A e \in ToSet(job[s].start) :
    job[s].status \in Over /\ e.named /\ row[e.cmd] = "running" =>
      \E a \in Actors : \E i \in DOMAIN emission[a].queue :
        LET call == emission[a].queue[i] IN
          call.cmd = e.cmd /\ call.status # "accepted" /\ call.named

\* The receipts of a scan: each scan that ends gets one terminal receipt, and it is true.
ScansAreAnswered == ReceiptsAreFinal /\ ReceiptsTellTheVerdict /\ FinishedScansAreAnswered

\* A bridge that has connected knows the state of every command: it has all receipts, and
\* no command waits for one that nobody would send.
BridgesAreCurrent == BridgesKnowReceipts /\ ConnectSettlesInterrupted

\* docs/socket-events.md:135: a command ID that is reused is not executed again.  It is
\* when its bridge leaves before begin_command has asked for its namespace.
ExecutedOnce == \A c \in Commands : ran[c] <= 1

\* docs/socket-events.md:143: recovered acceptance precedes its terminal failure.  Not for
\* a bridge that connects while another one recovers the command.
AcceptanceArrivesFirst ==
  [][\A s \in Bridges, c \in Commands :
       [cmd |-> c, status |-> "failed"] \in inbox'[s] =>
         [cmd |-> c, status |-> "accepted"] \in inbox'[s] \/ restarts' # restarts]_vars

=============================================================================
