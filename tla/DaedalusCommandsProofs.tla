------------------------ MODULE DaedalusCommandsProofs ------------------------
(***************************************************************************)
(* Proofs about the commands of the bridge, for every set of commands,     *)
(* bridges and request threads and every number of runs and restarts: no   *)
(* accepted command is performed twice, each scan that ends gets one true  *)
(* receipt, and a bridge that has connected knows all of them.             *)
(*                                                                         *)
(* Commands: begin_command looks for the row and writes the acceptance     *)
(* inside one section, and a row never disappears, so one request alone    *)
(* gets past it; and a connecting bridge takes from its list only rows     *)
(* that are settled, or that it is about to settle itself.                 *)
(*                                                                         *)
(* Ledger: receipts are written by the holder of the section only, and     *)
(* whatever waits in a queue besides an acceptance answers a command that  *)
(* has a row.  Follow: what a connecting bridge still misses is on its     *)
(* list.  Answer: the listener's call and the end of the record are one    *)
(* step, and a call leaves its queue only when the row is terminal.        *)
(* Verdict: a record's named command is that of the run scanning for it.   *)
(***************************************************************************)
EXTENDS DaedalusCommands, SequenceTheorems, TLAPS

\* The types of what the argument reads; of receipts, queues and scans it needs none.
Holds(records, domain, fields) ==
  \A x \in domain : x \in DOMAIN records /\ fields \subseteq DOMAIN records[x]

RecordsOK ==
  /\ row \in [Commands -> {"none", "running", "interrupted"} \union Terminal]
  /\ ran \in [Commands -> Nat]
  /\ conn \in [Bridges -> {"out", "listing", "replaying", "in", "gone"}]
  /\ Bridges \subseteq DOMAIN listed
  /\ Holds(req, Threads, {"pc", "cmd"})
  /\ Holds(emission, Actors, {"pc", "queue"})

\* Whoever records or sends a receipt is inside the section.
SectionHeld == \A a \in Actors : emission[a].pc \in {"recording", "sending"} => lock = a

\* A thread that may perform c; it has or will have the acceptance on record.
MayPerform(h, c) == req[h].pc = "act" /\ req[h].cmd = c

Accepting(h, c) ==
  /\ emission[h].pc = "recording" /\ lock = h
  /\ emission[h].queue = <<Result(c, "accepted", TRUE)>>

\* An accepted command was performed, or one thread may perform it, or it was lost with
\* the process; a command nobody asked for was not.
AcceptedOnce ==
  \A c \in Commands \ stray :
    /\ ran[c] <= 1
    /\ ran[c] # 0 => row[c] # "none"
    /\ \A h \in Threads :
         MayPerform(h, c) =>
           /\ ran[c] = 0
           /\ row[c] # "none" \/ Accepting(h, c)
           /\ \A i \in Threads : MayPerform(i, c) => i = h

\* What a connecting bridge still has to settle of an interrupted command.
Settling(s, c) ==
  \/ \E l \in listed[s] : l.cmd = c /\ l.status = "interrupted"
  \/ /\ emission[s].queue = <<Result(c, "failed", TRUE)>>
     /\ emission[s].pc \in {"idle", "recording"}

BridgeSettles(s) ==
  /\ \/ emission[s].queue = <<>> /\ emission[s].pc = "idle"
     \/ \E c : emission[s].queue = <<Result(c, "failed", TRUE)>>
  /\ conn[s] = "in" => \A c \in Commands : row[c] # "interrupted"
  /\ conn[s] = "replaying" =>
       \A c \in Commands : row[c] = "interrupted" => Settling(s, c)

BridgesSettle == \A s \in Bridges : BridgeSettles(s)

CommandsInv == RecordsOK /\ SectionHeld /\ AcceptedOnce /\ BridgesSettle

-----------------------------------------------------------------------------
LEMMA Constants ==
  /\ Threads \subseteq Actors /\ Bridges \subseteq Actors /\ Runs \subseteq Actors
  /\ Threads \intersect Bridges = {} /\ Threads \intersect Runs = {}
  /\ Bridges \intersect Runs = {} /\ Nobody \notin Actors /\ Nobody \notin Commands
<1>1. Nobody \notin Runs
  BY DEF Runs, Nobody
<1>. QED
  BY <1>1, CommandsAssumption DEF Actors

LEMMA InitCommands == Init => CommandsInv
<1>. SUFFICES ASSUME Init PROVE CommandsInv
  OBVIOUS
<1>1. RecordsOK
  BY DEF Init, RecordsOK, Holds, NoReq, NotEmitting
<1>2. SectionHeld
  BY DEF Init, SectionHeld, NotEmitting
<1>3. AcceptedOnce
  BY DEF Init, AcceptedOnce, MayPerform, NoReq
<1>4. BridgesSettle
  BY Constants DEF Init, BridgesSettle, BridgeSettles, NotEmitting
<1>. QED
  BY <1>1, <1>2, <1>3, <1>4 DEF CommandsInv

\* A step that performs nothing and gives no thread a command keeps acceptance unique.
LEMMA UnperformedKeeps ==
  ASSUME CommandsInv, ran' = ran, stray \subseteq stray',
         \A c \in Commands : row[c] # "none" => row'[c] # "none",
         \A h \in Threads, c \in Commands : MayPerform(h, c)' => MayPerform(h, c),
         \A h \in Threads, c \in Commands :
           Accepting(h, c) => Accepting(h, c)' \/ row'[c] # "none"
  PROVE  AcceptedOnce'
BY DEF CommandsInv, AcceptedOnce

\* A step that leaves a bridge's handler alone and interrupts nothing.
LEMMA UnsettledKeeps ==
  ASSUME CommandsInv, NEW s \in Bridges, conn'[s] = conn[s], listed'[s] = listed[s],
         emission'[s] = emission[s],
         \A c \in Commands : row'[c] = "interrupted" => row[c] = "interrupted"
  PROVE  BridgeSettles(s)'
<1>1. BridgeSettles(s)
  BY DEF CommandsInv, BridgesSettle
<1>2. \A c \in Commands : Settling(s, c) => Settling(s, c)'
  BY DEF Settling
<1>. QED
  BY <1>1, <1>2 DEF BridgeSettles

\* A step of one thread outside the section that changes at most its queue.
LEMMA OutsideKeeps ==
  ASSUME CommandsInv, NEW a \in Threads \union Runs, emission[a].queue = <<>> \/ a \in Runs,
         row' = row, conn' = conn, listed' = listed, lock' = lock,
         emission' = emission \/ \E q : emission' = [emission EXCEPT ![a].queue = q]
  PROVE  /\ Holds(emission, Actors, {"pc", "queue"})' /\ SectionHeld' /\ BridgesSettle'
         /\ \A h \in Threads, c \in Commands : Accepting(h, c) => Accepting(h, c)'
<1>. USE Constants DEF CommandsInv
<1>1. /\ Holds(emission, Actors, {"pc", "queue"})'
      /\ \A x \in Actors : emission'[x].pc = emission[x].pc
      /\ \A x \in Actors : x # a => emission'[x] = emission[x]
  BY DEF RecordsOK, Holds
<1>2. SectionHeld'
  BY <1>1 DEF SectionHeld
<1>3. BridgesSettle'
  BY <1>1, UnsettledKeeps DEF BridgesSettle
<1>4. ASSUME NEW h \in Threads, NEW c \in Commands, Accepting(h, c)
      PROVE  Accepting(h, c)'
  <2>1. h # a
    BY <1>4 DEF Accepting
  <2>. QED
    BY <1>1, <1>4, <2>1 DEF Accepting
<1>. QED
  BY <1>1, <1>2, <1>3, <1>4

-----------------------------------------------------------------------------
\* emit_command_result.
LEMMA RowStatusIsKnown ==
  ASSUME NEW s
  PROVE  RowStatus(s) \in {"running"} \union Terminal
BY DEF RowStatus, Terminal

LEMMA EmitDropsKeeps ==
  ASSUME CommandsInv, NEW a \in Actors, EmitDrops(a)
  PROVE  CommandsInv'
<1>. USE Constants DEF CommandsInv
<1>1. /\ row' = row /\ ran' = ran /\ stray' = stray /\ conn' = conn /\ listed' = listed
      /\ req' = req /\ lock' = lock /\ emission[a].pc = "idle" /\ emission[a].queue # <<>>
      /\ ~Head(emission[a].queue).named
      /\ emission' = [emission EXCEPT ![a].queue = Tail(emission[a].queue)]
  BY DEF EmitDrops, durable, sockets, history, Quiet
<1>2. /\ Holds(emission, Actors, {"pc", "queue"})'
      /\ \A x \in Actors : emission'[x].pc = emission[x].pc
      /\ \A x \in Actors : x # a => emission'[x] = emission[x]
  BY <1>1 DEF RecordsOK, Holds
<1>3. a \notin Bridges
  <2>1. ASSUME a \in Bridges
        PROVE  FALSE
    <3>1. PICK c : emission[a].queue = <<Result(c, "failed", TRUE)>>
      BY <1>1, <2>1 DEF BridgesSettle, BridgeSettles
    <3>. QED
      BY <1>1, <3>1 DEF Result
  <2>. QED
    BY <2>1
<1>4. RecordsOK' /\ SectionHeld'
  BY <1>1, <1>2 DEF RecordsOK, Holds, SectionHeld
<1>5. AcceptedOnce'
  <2>1. \A h \in Threads, c \in Commands : Accepting(h, c) => Accepting(h, c)'
    BY <1>1, <1>2 DEF Accepting
  <2>. QED
    BY <1>1, <2>1, UnperformedKeeps DEF MayPerform
<1>6. BridgesSettle'
  BY <1>1, <1>2, <1>3, UnsettledKeeps DEF BridgesSettle
<1>. QED
  BY <1>4, <1>5, <1>6

LEMMA EmitReadsKeeps ==
  ASSUME CommandsInv, NEW a \in Actors, EmitReads(a)
  PROVE  CommandsInv'
<1>. USE Constants DEF CommandsInv
<1>1. /\ row' = row /\ ran' = ran /\ stray' = stray /\ conn' = conn /\ listed' = listed
      /\ req' = req /\ lock = Nobody /\ emission[a].pc = "idle" /\ emission[a].queue # <<>>
  BY DEF EmitReads, durable, sockets, history, MayEnter, Quiet
<1>2. /\ Holds(emission, Actors, {"pc", "queue"})'
      /\ \A x \in Actors : x # a => emission'[x] = emission[x]
      /\ \/ /\ lock' = lock /\ emission'[a].pc = "idle"
            /\ emission'[a].queue = Tail(emission[a].queue)
            /\ Saved(Head(emission[a].queue).cmd)
         \/ lock' = a /\ emission'[a].pc = "recording" /\ emission'[a].queue = emission[a].queue
  <2>1. CASE Saved(Head(emission[a].queue).cmd)
    <3>1. emission' = [emission EXCEPT ![a].queue = Tail(emission[a].queue)] /\ lock' = lock
      BY <2>1 DEF EmitReads
    <3>. QED
      BY <1>1, <2>1, <3>1 DEF RecordsOK, Holds
  <2>2. CASE ~Saved(Head(emission[a].queue).cmd)
    BY <1>1, <2>2 DEF EmitReads, RecordsOK, Holds
  <2>. QED
    BY <2>1, <2>2
<1>3. RecordsOK'
  BY <1>1, <1>2 DEF RecordsOK, Holds
<1>4. SectionHeld'
  BY <1>1, <1>2 DEF SectionHeld
<1>5. AcceptedOnce'
  <2>1. \A h \in Threads, c \in Commands : ~Accepting(h, c)
    BY <1>1 DEF Accepting
  <2>. QED
    BY <1>1, <2>1, UnperformedKeeps DEF MayPerform
<1>6. ASSUME NEW s \in Bridges
      PROVE  BridgeSettles(s)'
  <2>1. CASE s # a
    BY <1>1, <1>2, <2>1, UnsettledKeeps
  <2>2. CASE s = a
    <3>0. BridgeSettles(s)
      BY DEF BridgesSettle
    <3>1. PICK c : emission[s].queue = <<Result(c, "failed", TRUE)>>
      BY <1>1, <2>2, <3>0 DEF BridgeSettles
    <3>2. Tail(emission[s].queue) = <<>> /\ Head(emission[s].queue).cmd = c
      BY <3>1 DEF Result
    <3>3. CASE emission'[s].queue = Tail(emission[s].queue) /\ emission'[s].pc = "idle" /\ Saved(c)
      <4>1. row[c] # "interrupted"
        BY <3>3 DEF Saved, Terminal
      <4>2. \A d \in Commands : row[d] = "interrupted" /\ Settling(s, d) => Settling(s, d)'
        BY <1>1, <3>1, <4>1 DEF Settling, Result
      <4>. QED
        BY <1>1, <3>0, <3>2, <3>3, <4>2 DEF BridgeSettles
    <3>4. CASE emission'[s].queue = emission[s].queue /\ emission'[s].pc = "recording"
      <4>1. \A d \in Commands : Settling(s, d) => Settling(s, d)'
        BY <1>1, <3>4 DEF Settling
      <4>. QED
        BY <1>1, <3>0, <3>1, <3>4, <4>1 DEF BridgeSettles
    <3>. QED
      BY <1>2, <2>2, <3>2, <3>3, <3>4
  <2>. QED
    BY <2>1, <2>2
<1>. QED
  BY <1>3, <1>4, <1>5, <1>6 DEF BridgesSettle

LEMMA EmitRecordsKeeps ==
  ASSUME CommandsInv, NEW a \in Actors, EmitRecords(a)
  PROVE  CommandsInv'
<1>. USE Constants DEF CommandsInv
<1>. DEFINE r == Head(emission[a].queue)
<1>1. /\ ran' = ran /\ stray' = stray /\ conn' = conn /\ listed' = listed
      /\ req' = req /\ lock' = lock /\ lock = a /\ emission[a].pc = "recording"
      /\ row' = [row EXCEPT ![r.cmd] = RowStatus(r.status)]
  BY DEF EmitRecords, sockets, history, SectionHeld
<1>2. /\ Holds(emission, Actors, {"pc", "queue"})'
      /\ \A x \in Actors : x # a => emission'[x] = emission[x]
      /\ emission'[a].pc = "sending" /\ emission'[a].queue = emission[a].queue
  BY DEF EmitRecords, RecordsOK, Holds
<1>3. /\ row' \in [Commands -> {"none", "running", "interrupted"} \union Terminal]
      /\ \A c \in Commands : row'[c] = row[c] \/ row'[c] \notin {"none", "interrupted"}
      /\ \A c \in Commands : c = r.cmd => row'[c] \notin {"none", "interrupted"}
  BY <1>1, RowStatusIsKnown DEF RecordsOK, Terminal
<1>. HIDE DEF r
<1>4. RecordsOK'
  BY <1>1, <1>2, <1>3 DEF RecordsOK, Holds
<1>5. SectionHeld'
  BY <1>1, <1>2 DEF SectionHeld
<1>6. AcceptedOnce'
  <2>1. ASSUME NEW h \in Threads, NEW c \in Commands, Accepting(h, c)
        PROVE  row'[c] # "none"
    <3>1. emission[a].queue = <<Result(c, "accepted", TRUE)>>
      BY <1>1, <2>1 DEF Accepting
    <3>2. r.cmd = c
      BY <3>1 DEF r, Result
    <3>. QED
      BY <1>3, <3>2
  <2>. QED
    BY <1>1, <1>3, <2>1, UnperformedKeeps DEF MayPerform
<1>7. ASSUME NEW s \in Bridges
      PROVE  BridgeSettles(s)'
  <2>1. CASE s # a
    BY <1>1, <1>2, <1>3, <2>1, UnsettledKeeps
  <2>2. CASE s = a
    <3>0. BridgeSettles(s)
      BY DEF BridgesSettle
    <3>1. PICK c : emission[s].queue = <<Result(c, "failed", TRUE)>>
      BY <1>1, <2>2, <3>0 DEF BridgeSettles
    <3>2. r.cmd = c
      BY <2>2, <3>1 DEF r, Result
    <3>3. \A d \in Commands : row'[d] = "interrupted" => row[d] = "interrupted" /\ d # c
      BY <1>3, <3>2
    <3>4. \A d \in Commands : d # c /\ Settling(s, d) => Settling(s, d)'
      BY <1>1, <3>1 DEF Settling, Result
    <3>. QED
      BY <1>1, <1>2, <2>2, <3>0, <3>1, <3>3, <3>4 DEF BridgeSettles
  <2>. QED
    BY <2>1, <2>2
<1>. QED
  BY <1>4, <1>5, <1>6, <1>7 DEF BridgesSettle

LEMMA EmitSendsKeeps ==
  ASSUME CommandsInv, NEW a \in Actors, EmitSends(a)
  PROVE  CommandsInv'
<1>. USE Constants DEF CommandsInv
<1>1. /\ row' = row /\ ran' = ran /\ stray' = stray /\ conn' = conn /\ listed' = listed
      /\ req' = req /\ lock' = Nobody /\ lock = a /\ emission[a].pc = "sending"
  BY DEF EmitSends, durable, sockets, SectionHeld
<1>2. /\ Holds(emission, Actors, {"pc", "queue"})'
      /\ \A x \in Actors : x # a => emission'[x] = emission[x]
      /\ emission'[a].pc = "idle" /\ emission'[a].queue = Tail(emission[a].queue)
  BY DEF EmitSends, RecordsOK, Holds
<1>3. RecordsOK'
  BY <1>1, <1>2 DEF RecordsOK, Holds
<1>4. SectionHeld'
  BY <1>1, <1>2 DEF SectionHeld
<1>5. AcceptedOnce'
  <2>1. \A h \in Threads, c \in Commands : ~Accepting(h, c)
    BY <1>1 DEF Accepting
  <2>. QED
    BY <1>1, <2>1, UnperformedKeeps DEF MayPerform
<1>6. ASSUME NEW s \in Bridges
      PROVE  BridgeSettles(s)'
  <2>1. CASE s # a
    BY <1>1, <1>2, <2>1, UnsettledKeeps
  <2>2. CASE s = a
    <3>0. BridgeSettles(s)
      BY DEF BridgesSettle
    <3>1. PICK c : emission[s].queue = <<Result(c, "failed", TRUE)>>
      BY <1>1, <2>2, <3>0 DEF BridgeSettles
    <3>2. emission'[s].queue = <<>> /\ emission'[s].pc = "idle"
      BY <1>2, <2>2, <3>1
    <3>3. \A d \in Commands : Settling(s, d) => Settling(s, d)'
      BY <1>1, <2>2 DEF Settling
    <3>. QED
      BY <1>1, <3>0, <3>2, <3>3 DEF BridgeSettles
  <2>. QED
    BY <2>1, <2>2
<1>. QED
  BY <1>3, <1>4, <1>5, <1>6 DEF BridgesSettle

-----------------------------------------------------------------------------
\* A step that moves one request, outside begin_command.
LEMMA RequestMoves ==
  ASSUME RecordsOK, NEW h \in Threads, NEW q, {"pc", "cmd"} \subseteq DOMAIN q, q.pc # "act",
         req' = [req EXCEPT ![h] = q]
  PROVE  /\ Holds(req, Threads, {"pc", "cmd"})'
         /\ \A i \in Threads, c \in Commands : MayPerform(i, c)' => MayPerform(i, c) /\ i # h
BY DEF RecordsOK, Holds, MayPerform

LEMMA ArrivesKeeps ==
  ASSUME CommandsInv, NEW h \in Threads, NEW s \in Bridges, NEW c \in Commands, Arrives(h, s, c)
  PROVE  CommandsInv'
<1>. USE DEF CommandsInv
<1>. DEFINE q == [NoReq EXCEPT !.pc = "begin", !.sid = s, !.cmd = c]
<1>1. /\ row' = row /\ ran' = ran /\ stray' = stray /\ conn' = conn /\ listed' = listed
      /\ emission' = emission /\ lock' = lock /\ req' = [req EXCEPT ![h] = q]
  BY DEF Arrives, durable, sockets, history
<1>2. {"pc", "cmd"} \subseteq DOMAIN q /\ q.pc # "act"
  BY DEF NoReq
<1>. HIDE DEF q
<1>3. /\ Holds(req, Threads, {"pc", "cmd"})'
      /\ \A i \in Threads, d \in Commands : MayPerform(i, d)' => MayPerform(i, d)
  BY <1>1, <1>2, RequestMoves
<1>4. RecordsOK' /\ SectionHeld'
  BY <1>1, <1>3 DEF RecordsOK, Holds, SectionHeld
<1>5. AcceptedOnce'
  BY <1>1, <1>3, UnperformedKeeps DEF Accepting
<1>6. BridgesSettle'
  BY <1>1, UnsettledKeeps DEF BridgesSettle
<1>. QED
  BY <1>4, <1>5, <1>6

\* begin_command finds the row, and the command goes no further.
LEMMA BeginReplaysKeeps ==
  ASSUME CommandsInv, NEW h \in Threads, BeginReplays(h)
  PROVE  CommandsInv'
<1>. USE DEF CommandsInv
<1>1. /\ row' = row /\ ran' = ran /\ stray' = stray /\ conn' = conn /\ listed' = listed
      /\ emission' = emission /\ lock' = lock /\ req' = [req EXCEPT ![h] = NoReq]
  BY DEF BeginReplays, durable, sockets
<1>2. {"pc", "cmd"} \subseteq DOMAIN NoReq /\ NoReq.pc # "act"
  BY DEF NoReq
<1>3. /\ Holds(req, Threads, {"pc", "cmd"})'
      /\ \A i \in Threads, d \in Commands : MayPerform(i, d)' => MayPerform(i, d)
  BY <1>1, <1>2, RequestMoves
<1>4. RecordsOK' /\ SectionHeld'
  BY <1>1, <1>3 DEF RecordsOK, Holds, SectionHeld
<1>5. AcceptedOnce'
  BY <1>1, <1>3, UnperformedKeeps DEF Accepting
<1>6. BridgesSettle'
  BY <1>1, UnsettledKeeps DEF BridgesSettle
<1>. QED
  BY <1>4, <1>5, <1>6

\* It finds none: nobody may perform the command yet, and nobody has.
LEMMA BeginAcceptsKeeps ==
  ASSUME CommandsInv, NEW h \in Threads, BeginAccepts(h)
  PROVE  CommandsInv'
<1>. USE Constants DEF CommandsInv
<1>. DEFINE c == req[h].cmd
            e == [pc |-> "recording", queue |-> <<Result(c, "accepted", TRUE)>>]
<1>1. /\ row' = row /\ ran' = ran /\ stray' = stray /\ conn' = conn /\ listed' = listed
      /\ emission' = [emission EXCEPT ![h] = e] /\ req' = [req EXCEPT ![h].pc = "act"]
      /\ lock = Nobody /\ lock' = h /\ row[c] = "none"
  BY DEF BeginAccepts, durable, sockets, history, MayEnter
<1>2. {"pc", "queue"} \subseteq DOMAIN e /\ e.pc = "recording"
      /\ e.queue = <<Result(c, "accepted", TRUE)>>
  OBVIOUS
<1>. HIDE DEF e
<1>3. /\ Holds(emission, Actors, {"pc", "queue"})' /\ emission'[h] = e
      /\ \A a \in Actors : a # h => emission'[a] = emission[a]
  BY <1>1, <1>2 DEF RecordsOK, Holds
<1>4. /\ Holds(req, Threads, {"pc", "cmd"})' /\ req'[h].pc = "act" /\ req'[h].cmd = c
      /\ \A i \in Threads : i # h => req'[i] = req[i]
  BY <1>1 DEF RecordsOK, Holds
<1>5. RecordsOK'
  BY <1>1, <1>3, <1>4 DEF RecordsOK
<1>6. SectionHeld'
  BY <1>1, <1>3 DEF SectionHeld
<1>7. \A i \in Threads, d \in Commands : ~Accepting(i, d)
  BY <1>1 DEF Accepting
<1>8. AcceptedOnce'
  <2>. SUFFICES ASSUME NEW d \in Commands \ stray'
                PROVE  /\ ran'[d] <= 1 /\ (ran'[d] # 0 => row'[d] # "none")
                       /\ \A i \in Threads : MayPerform(i, d)' =>
                            /\ ran'[d] = 0 /\ (row'[d] # "none" \/ Accepting(i, d)')
                            /\ \A j \in Threads : MayPerform(j, d)' => j = i
    BY DEF AcceptedOnce
  <2>1. /\ ran[d] <= 1 /\ (ran[d] # 0 => row[d] # "none")
        /\ \A i \in Threads : MayPerform(i, d) =>
             ran[d] = 0 /\ row[d] # "none" /\ \A j \in Threads : MayPerform(j, d) => j = i
    BY <1>1, <1>7 DEF AcceptedOnce
  <2>2. CASE d = c
    <3>1. \A i \in Threads : MayPerform(i, d)' => i = h
      BY <1>1, <1>4, <2>1, <2>2 DEF MayPerform
    <3>2. Accepting(h, d)'
      BY <1>1, <1>2, <1>3, <2>2 DEF Accepting
    <3>. QED
      BY <1>1, <2>1, <2>2, <3>1, <3>2
  <2>3. CASE d # c
    <3>1. \A i \in Threads : MayPerform(i, d)' => MayPerform(i, d)
      BY <1>4, <2>3 DEF MayPerform
    <3>. QED
      BY <1>1, <2>1, <3>1
  <2>. QED
    BY <2>2, <2>3
<1>9. BridgesSettle'
  BY <1>1, <1>3, UnsettledKeeps DEF BridgesSettle
<1>. QED
  BY <1>5, <1>6, <1>8, <1>9

\* Its bridge has left: the command is let through without a receipt.
LEMMA BeginUnnamedKeeps ==
  ASSUME CommandsInv, NEW h \in Threads, BeginUnnamed(h)
  PROVE  CommandsInv'
<1>. USE DEF CommandsInv
<1>1. /\ row' = row /\ ran' = ran /\ stray' = stray \union {req[h].cmd} /\ conn' = conn
      /\ listed' = listed /\ emission' = emission /\ lock' = lock
      /\ req' = [req EXCEPT ![h].pc = "act"]
  BY DEF BeginUnnamed, durable, sockets
<1>2. /\ Holds(req, Threads, {"pc", "cmd"})' /\ req'[h].cmd = req[h].cmd
      /\ \A i \in Threads : i # h => req'[i] = req[i]
  BY <1>1 DEF RecordsOK, Holds
<1>3. RecordsOK' /\ SectionHeld'
  BY <1>1, <1>2 DEF RecordsOK, Holds, SectionHeld
<1>4. AcceptedOnce'
  <2>1. \A i \in Threads, d \in Commands \ stray' : MayPerform(i, d)' => MayPerform(i, d)
    BY <1>1, <1>2 DEF MayPerform
  <2>. QED
    BY <1>1, <2>1 DEF AcceptedOnce, Accepting
<1>5. BridgesSettle'
  BY <1>1, UnsettledKeeps DEF BridgesSettle
<1>. QED
  BY <1>3, <1>4, <1>5

-----------------------------------------------------------------------------
\* The handler's next step leaves the request anywhere but before the command.
Leaves(h) ==
  /\ Holds(req, Threads, {"pc", "cmd"})' /\ req'[h].pc # "act"
  /\ \A i \in Threads : i # h => req'[i] = req[i]

\* The first step of what a command asks for: the one thread that may perform it does.
LEMMA PerformsKeeps ==
  ASSUME CommandsInv, NEW h \in Threads, req[h].pc = "act", emission[h].queue = <<>>,
         ran' = [ran EXCEPT ![req[h].cmd] = @ + 1], Leaves(h),
         row' = row, conn' = conn, listed' = listed, lock' = lock, stray' = stray,
         emission' = emission \/ \E q : emission' = [emission EXCEPT ![h].queue = q]
  PROVE  CommandsInv'
<1>. USE DEF CommandsInv
<1>1. /\ Holds(emission, Actors, {"pc", "queue"})' /\ SectionHeld' /\ BridgesSettle'
      /\ \A i \in Threads, c \in Commands : Accepting(i, c) => Accepting(i, c)'
  BY OutsideKeeps
<1>2. /\ ran' \in [Commands -> Nat]
      /\ \A c \in Commands : ran'[c] = IF c = req[h].cmd THEN ran[c] + 1 ELSE ran[c]
  <2>1. ran \in [Commands -> Nat] /\ \A c \in Commands : ran[c] + 1 \in Nat
    BY DEF RecordsOK
  <2>. DEFINE d == req[h].cmd
  <2>2. ran' = [ran EXCEPT ![d] = ran[d] + 1]
    OBVIOUS
  <2>. HIDE DEF d
  <2>3. /\ ran' \in [Commands -> Nat]
        /\ \A c \in Commands : ran'[c] = IF c = d THEN ran[c] + 1 ELSE ran[c]
    <3>1. CASE d \in Commands
      BY <2>1, <2>2, <3>1
    <3>2. CASE d \notin Commands
      BY <2>1, <2>2, <3>2
    <3>. QED
      BY <3>1, <3>2
  <2>. QED
    BY <2>3 DEF d
<1>3. RecordsOK'
  BY <1>1, <1>2 DEF RecordsOK, Leaves
<1>4. AcceptedOnce'
  <2>. SUFFICES ASSUME NEW c \in Commands \ stray
                PROVE  /\ ran'[c] <= 1 /\ (ran'[c] # 0 => row[c] # "none")
                       /\ \A i \in Threads : MayPerform(i, c)' =>
                            /\ ran'[c] = 0 /\ (row[c] # "none" \/ Accepting(i, c)')
                            /\ \A j \in Threads : MayPerform(j, c)' => j = i
    BY DEF AcceptedOnce
  <2>1. /\ ran[c] <= 1 /\ (ran[c] # 0 => row[c] # "none")
        /\ \A i \in Threads : MayPerform(i, c) =>
             /\ ran[c] = 0 /\ (row[c] # "none" \/ Accepting(i, c))
             /\ \A j \in Threads : MayPerform(j, c) => j = i
    BY DEF AcceptedOnce
  <2>2. \A i \in Threads : MayPerform(i, c)' => MayPerform(i, c) /\ i # h
    BY DEF Leaves, MayPerform
  <2>3. CASE c = req[h].cmd
    <3>1. MayPerform(h, c) /\ ~Accepting(h, c)
      BY <2>3 DEF MayPerform, Accepting
    <3>2. ran'[c] = 1 /\ row[c] # "none"
      BY <1>2, <2>1, <2>3, <3>1
    <3>3. \A i \in Threads : ~MayPerform(i, c)'
      BY <2>1, <2>2, <3>1
    <3>. QED
      BY <3>2, <3>3
  <2>4. CASE c # req[h].cmd
    BY <1>1, <1>2, <2>1, <2>2, <2>4
  <2>. QED
    BY <2>3, <2>4
<1>. QED
  BY <1>1, <1>3, <1>4

\* Any later step of a handler, and the steps of a task.
LEMMA LaterKeeps ==
  ASSUME CommandsInv, NEW a \in Threads \union Runs, emission[a].queue = <<>> \/ a \in Runs,
         ran' = ran, req' = req \/ (a \in Threads /\ Leaves(a)),
         row' = row, conn' = conn, listed' = listed, lock' = lock, stray' = stray,
         emission' = emission \/ \E q : emission' = [emission EXCEPT ![a].queue = q]
  PROVE  CommandsInv'
<1>. USE DEF CommandsInv
<1>1. /\ Holds(emission, Actors, {"pc", "queue"})' /\ SectionHeld' /\ BridgesSettle'
      /\ \A i \in Threads, c \in Commands : Accepting(i, c) => Accepting(i, c)'
  BY OutsideKeeps
<1>2. RecordsOK'
  BY <1>1 DEF RecordsOK, Leaves, Holds
<1>3. \A i \in Threads, c \in Commands : MayPerform(i, c)' => MayPerform(i, c)
  BY DEF Leaves, MayPerform
<1>4. AcceptedOnce'
  BY <1>1, <1>3, UnperformedKeeps
<1>. QED
  BY <1>1, <1>2, <1>4

LEMMA HandleKeeps ==
  ASSUME CommandsInv, NEW h \in Threads, Handle(h)
  PROVE  CommandsInv'
<1>0. Holds(req, Threads, {"pc", "cmd"})
  BY DEF CommandsInv, RecordsOK
<1>1. CASE StartRefused(h) \/ CheckAnswers(h)
  <2>1. /\ req[h].pc = "act" /\ emission[h].queue = <<>> /\ req' = [req EXCEPT ![h] = NoReq]
        /\ ran' = [ran EXCEPT ![req[h].cmd] = @ + 1]
        /\ row' = row /\ conn' = conn /\ listed' = listed /\ lock' = lock /\ stray' = stray
    BY <1>1 DEF StartRefused, CheckAnswers, Performs, Answers, Quiet, durable, sockets
  <2>2. emission' = emission \/ \E q : emission' = [emission EXCEPT ![h].queue = q]
    BY <1>1 DEF StartRefused, CheckAnswers, Answers, Emits
  <2>3. Leaves(h)
    BY <1>0, <2>1 DEF Leaves, Holds, NoReq
  <2>. QED
    BY <2>1, <2>2, <2>3, PerformsKeeps
<1>2. CASE StartAdmitted(h) \/ CancelSelects(h)
  <2>1. /\ req[h].pc = "act" /\ emission[h].queue = <<>> /\ emission' = emission
        /\ ran' = [ran EXCEPT ![req[h].cmd] = @ + 1]
        /\ row' = row /\ conn' = conn /\ listed' = listed /\ lock' = lock /\ stray' = stray
    BY <1>2 DEF StartAdmitted, CancelSelects, Performs, Quiet, durable, sockets
  <2>2. \E pc \in {"opening", "selected"} : \E o : req' = [req EXCEPT ![h].pc = pc, ![h].owner = o]
    BY <1>2 DEF StartAdmitted, CancelSelects
  <2>3. Leaves(h)
    BY <1>0, <2>2 DEF Leaves, Holds
  <2>. QED
    BY <2>1, <2>3, PerformsKeeps
<1>3. CASE StartOpens(h) \/ StartScheduled(h) \/ StartUnschedulable(h)
  <2>1. /\ emission[h].queue = <<>> /\ ran' = ran
        /\ row' = row /\ conn' = conn /\ listed' = listed /\ lock' = lock /\ stray' = stray
    BY <1>3 DEF StartOpens, StartScheduled, StartUnschedulable, At, Quiet, durable, sockets, history
  <2>2. emission' = emission \/ \E q : emission' = [emission EXCEPT ![h].queue = q]
    BY <1>3 DEF StartOpens, StartScheduled, StartUnschedulable, Completed
  <2>3. req' = [req EXCEPT ![h] = NoReq] \/ req' = [req EXCEPT ![h].pc = "scheduling"]
    BY <1>3 DEF StartOpens, StartScheduled, StartUnschedulable
  <2>4. Leaves(h)
    BY <1>0, <2>3 DEF Leaves, Holds, NoReq
  <2>. QED
    BY <2>1, <2>2, <2>4, LaterKeeps
<1>4. CASE CancelReads(h) \/ CancelUpdates(h) \/ CancelSignals(h) \/ CancelReports(h)
  <2>1. /\ emission[h].queue = <<>> /\ ran' = ran
        /\ row' = row /\ conn' = conn /\ listed' = listed /\ lock' = lock /\ stray' = stray
    BY <1>4 DEF CancelReads, CancelUpdates, CancelSignals, CancelReports, At, Quiet, durable,
       sockets, history
  <2>2. emission' = emission \/ \E q : emission' = [emission EXCEPT ![h].queue = q]
    BY <1>4 DEF CancelReads, CancelUpdates, CancelSignals, CancelReports, Answers, Emits
  <2>3. Leaves(h)
    <3>1. CASE req' = [req EXCEPT ![h] = NoReq]
      BY <1>0, <3>1 DEF Leaves, Holds, NoReq
    <3>2. CASE \E ids : req' = [req EXCEPT ![h].pc = "read", ![h].ids = ids]
      BY <1>0, <3>2 DEF Leaves, Holds
    <3>3. CASE \E pc \in {"updated", "cancelled"} : req' = [req EXCEPT ![h].pc = pc]
      BY <1>0, <3>3 DEF Leaves, Holds
    <3>. QED
      BY <1>4, <3>1, <3>2, <3>3 DEF CancelReads, CancelUpdates, CancelSignals, CancelReports, Answers
  <2>. QED
    BY <2>1, <2>2, <2>3, LaterKeeps
<1>. QED
  BY <1>1, <1>2, <1>3, <1>4, BeginReplaysKeeps, BeginAcceptsKeeps, BeginUnnamedKeeps DEF Handle

LEMMA TaskKeeps ==
  ASSUME CommandsInv, NEW r \in Runs, TaskCompletes(r) \/ TaskEnds(r)
  PROVE  CommandsInv'
<1>1. /\ ran' = ran /\ req' = req
      /\ row' = row /\ conn' = conn /\ listed' = listed /\ lock' = lock /\ stray' = stray
  BY DEF TaskCompletes, TaskEnds, TaskClears, SlotCloses, durable, sockets, history
<1>2. emission' = emission \/ \E q : emission' = [emission EXCEPT ![r].queue = q]
  BY DEF TaskCompletes, TaskEnds, TaskClears, SlotCloses, Completed
<1>. QED
  BY <1>1, <1>2, LaterKeeps

-----------------------------------------------------------------------------
\* Connections; what they tell clients plays no part.
LEMMA ConnectionFrame ==
  ASSUME CommandsInv, row' = row, ran' = ran, req' = req, stray' = stray, lock' = lock,
         conn' \in [Bridges -> {"out", "listing", "replaying", "in", "gone"}],
         Bridges \subseteq DOMAIN listed',
         Holds(emission, Actors, {"pc", "queue"})',
         \A a \in Actors : emission'[a].pc = emission[a].pc,
         \A a \in Actors \ Bridges : emission'[a] = emission[a]
  PROVE  RecordsOK' /\ SectionHeld' /\ AcceptedOnce'
<1>. USE Constants DEF CommandsInv
<1>1. RecordsOK'
  BY DEF RecordsOK, Holds
<1>2. SectionHeld'
  BY DEF SectionHeld
<1>3. \A h \in Threads, c \in Commands : Accepting(h, c) => Accepting(h, c)'
  BY DEF Accepting
<1>4. AcceptedOnce'
  BY <1>3, UnperformedKeeps DEF MayPerform
<1>. QED
  BY <1>1, <1>2, <1>4

\* Between listing and its end a connecting bridge never drops a command it must settle.
LEMMA ConnectKeeps ==
  ASSUME CommandsInv, NEW s \in Bridges, Connects(s) \/ Connect(s)
  PROVE  CommandsInv'
<1>. USE Constants DEF CommandsInv
<1>1. /\ row' = row /\ ran' = ran /\ req' = req /\ stray' = stray /\ lock' = lock
  BY DEF Connects, Connect, ConnectLists, ConnectRecovers, ConnectReplays, ConnectEnds, durable,
     history
<1>2. /\ conn' \in [Bridges -> {"out", "listing", "replaying", "in", "gone"}]
      /\ \A x \in Bridges : x # s => conn'[x] = conn[x]
  BY DEF Connects, Connect, ConnectLists, ConnectRecovers, ConnectReplays, ConnectEnds, RecordsOK
<1>3. Bridges \subseteq DOMAIN listed' /\ \A x \in Bridges : x # s => listed'[x] = listed[x]
  BY DEF Connects, Connect, ConnectLists, ConnectRecovers, ConnectReplays, ConnectEnds, RecordsOK
<1>4. emission' = emission \/ \E q : emission' = [emission EXCEPT ![s].queue = q]
  BY DEF Connects, Connect, ConnectLists, ConnectRecovers, ConnectReplays, ConnectEnds, Emits
<1>5. /\ Holds(emission, Actors, {"pc", "queue"})'
      /\ \A a \in Actors : emission'[a].pc = emission[a].pc
      /\ \A a \in Actors : a # s => emission'[a] = emission[a]
  BY <1>4 DEF RecordsOK, Holds
<1>6. RecordsOK' /\ SectionHeld' /\ AcceptedOnce'
  BY <1>1, <1>2, <1>3, <1>5, ConnectionFrame
<1>7. BridgeSettles(s)'
  <2>0. BridgeSettles(s) /\ s \in DOMAIN listed /\ conn \in [Bridges -> {"out", "listing",
          "replaying", "in", "gone"}]
    BY DEF BridgesSettle, RecordsOK
  <2>1. CASE Connects(s)
    BY <1>1, <2>0, <2>1 DEF Connects, BridgeSettles
  <2>2. CASE ConnectLists(s)
    <3>1. emission' = emission /\ conn'[s] = "replaying"
          /\ listed'[s] = {[cmd |-> c, status |-> row[c]] : c \in {x \in Commands : row[x] # "none"}}
      BY <2>0, <2>2 DEF ConnectLists
    <3>2. ASSUME NEW c \in Commands, row[c] = "interrupted"
          PROVE  Settling(s, c)'
      <4>. DEFINE l == [cmd |-> c, status |-> row[c]]
      <4>1. l \in listed'[s]
        BY <3>1, <3>2
      <4>2. l.cmd = c /\ l.status = "interrupted"
        BY <3>2
      <4>. QED
        BY <4>1, <4>2 DEF Settling
    <3>. QED
      BY <1>1, <2>0, <3>1, <3>2 DEF BridgeSettles
  <2>3. CASE ConnectRecovers(s)
    <3>1. PICK l \in listed[s] :
            /\ l.status = "interrupted"
            /\ Emits(s, l.cmd, "failed", TRUE)
            /\ listed' = [listed EXCEPT ![s] = (@ \ {l}) \union {[l EXCEPT !.status = "failed"]}]
      BY <2>3 DEF ConnectRecovers
    <3>2. /\ emission[s].queue = <<>> /\ emission[s].pc = "idle"
          /\ conn[s] = "replaying" /\ conn' = conn
      BY <2>0, <2>3 DEF ConnectRecovers, Quiet, BridgeSettles
    <3>3. emission'[s].queue = <<Result(l.cmd, "failed", TRUE)>>
          /\ emission'[s].pc = "idle"
      <4>1. emission' = [emission EXCEPT ![s].queue =
                           Append(emission[s].queue, Result(l.cmd, "failed", TRUE))]
        BY <3>1 DEF Emits
      <4>2. Append(<<>>, Result(l.cmd, "failed", TRUE))
              = <<Result(l.cmd, "failed", TRUE)>>
        OBVIOUS
      <4>. QED
        BY <3>2, <4>1, <4>2 DEF RecordsOK, Holds
    <3>4. \A k \in listed[s] : k # l => k \in listed'[s]
      BY <2>0, <3>1
    <3>5. ASSUME NEW c \in Commands, Settling(s, c)
          PROVE  Settling(s, c)'
      <4>1. PICK k \in listed[s] : k.cmd = c /\ k.status = "interrupted"
        BY <3>2, <3>5 DEF Settling
      <4>2. CASE k = l
        BY <3>3, <4>1, <4>2 DEF Settling
      <4>3. CASE k # l
        BY <3>4, <4>1, <4>3 DEF Settling
      <4>. QED
        BY <4>2, <4>3
    <3>. QED
      BY <1>1, <2>0, <3>2, <3>3, <3>5 DEF BridgeSettles
  <2>4. CASE ConnectReplays(s)
    <3>1. PICK l \in listed[s] :
            l.status # "interrupted" /\ listed' = [listed EXCEPT ![s] = @ \ {l}]
      BY <2>4 DEF ConnectReplays
    <3>2. conn' = conn /\ emission' = emission
      BY <2>4 DEF ConnectReplays
    <3>3. \A k \in listed[s] : k # l => k \in listed'[s]
      BY <2>0, <3>1
    <3>4. \A c \in Commands : Settling(s, c) => Settling(s, c)'
      BY <3>1, <3>2, <3>3 DEF Settling
    <3>. QED
      BY <1>1, <2>0, <3>2, <3>4 DEF BridgeSettles
  <2>5. CASE ConnectEnds(s)
    <3>1. /\ conn[s] = "replaying" /\ listed[s] = {} /\ emission[s].queue = <<>>
          /\ conn'[s] = "in" /\ emission' = emission
      BY <2>0, <2>5 DEF ConnectEnds, Quiet
    <3>2. \A c \in Commands : ~Settling(s, c)
      BY <3>1 DEF Settling
    <3>. QED
      BY <1>1, <2>0, <3>1, <3>2 DEF BridgeSettles
  <2>. QED
    BY <2>1, <2>2, <2>3, <2>4, <2>5 DEF Connect
<1>8. BridgesSettle'
  BY <1>1, <1>2, <1>3, <1>5, <1>7, UnsettledKeeps DEF BridgesSettle
<1>. QED
  BY <1>6, <1>8

LEMMA DisconnectsKeeps ==
  ASSUME CommandsInv, NEW s \in Bridges, Disconnects(s)
  PROVE  CommandsInv'
<1>. USE Constants DEF CommandsInv
<1>1. /\ row' = row /\ ran' = ran /\ req' = req /\ stray' = stray /\ lock' = lock
      /\ conn' = conn /\ listed' = listed /\ emission' = emission
  BY DEF Disconnects, durable
<1>2. RecordsOK' /\ SectionHeld' /\ AcceptedOnce'
  BY <1>1, ConnectionFrame DEF RecordsOK, Holds
<1>3. BridgesSettle'
  BY <1>1, UnsettledKeeps DEF BridgesSettle
<1>. QED
  BY <1>2, <1>3

\* A restart forgets requests and connections, and no row.
LEMMA RestartsKeeps ==
  ASSUME CommandsInv, Restarts
  PROVE  CommandsInv'
<1>. USE Constants DEF CommandsInv
<1>1. RecordsOK'
  BY DEF Restarts, RecordsOK, Holds, Reconciled, NoReq, NotEmitting
<1>2. SectionHeld'
  BY DEF Restarts, SectionHeld, NotEmitting
<1>3. AcceptedOnce'
  <2>1. \A c \in Commands : row[c] # "none" => row'[c] # "none"
    BY DEF Restarts, Reconciled
  <2>2. (\A h \in Threads, c \in Commands : ~MayPerform(h, c)') /\ ran' = ran /\ stray' = stray
    BY DEF Restarts, MayPerform, NoReq
  <2>. QED
    BY <2>1, <2>2 DEF AcceptedOnce
<1>4. BridgesSettle'
  BY DEF Restarts, BridgesSettle, BridgeSettles, NotEmitting
<1>. QED
  BY <1>1, <1>2, <1>3, <1>4

LEMMA StepKeepsCommands ==
  ASSUME CommandsInv, [Next]_vars
  PROVE  CommandsInv'
<1>1. CASE UNCHANGED vars
  <2>. USE DEF CommandsInv
  <2>1. /\ row' = row /\ ran' = ran /\ req' = req /\ stray' = stray /\ lock' = lock
        /\ conn' = conn /\ listed' = listed /\ emission' = emission
    BY <1>1 DEF vars, durable, sockets, history
  <2>2. RecordsOK' /\ SectionHeld' /\ AcceptedOnce'
    BY <2>1, ConnectionFrame DEF RecordsOK, Holds
  <2>3. BridgesSettle'
    BY <2>1, Constants, UnsettledKeeps DEF BridgesSettle
  <2>. QED
    BY <2>2, <2>3
<1>2. CASE \E a \in Actors : Emit(a)
  BY <1>2, EmitDropsKeeps, EmitReadsKeeps, EmitRecordsKeeps, EmitSendsKeeps DEF Emit
<1>3. CASE Next /\ ~\E a \in Actors : Emit(a)
  BY <1>3, HandleKeeps, ArrivesKeeps, TaskKeeps, ConnectKeeps, DisconnectsKeeps, RestartsKeeps
     DEF Next
<1>. QED
  BY <1>1, <1>2, <1>3

\* The inductive invariant of the commands.
THEOREM CommandsInvariant == Spec => []CommandsInv
<1>1. CommandsInv /\ [Next]_vars => CommandsInv'
  BY StepKeepsCommands
<1>. QED
  BY InitCommands, <1>1, PTL DEF Spec

\* begin_command: however often a command is resent, concurrently, after a reconnect or
\* after a restart, one that was let through with a receipt is performed at most once.
THEOREM CommandsRunOnce == Spec => []AcceptedRunsOnce
<1>1. CommandsInv => AcceptedRunsOnce
  BY DEF CommandsInv, AcceptedOnce, AcceptedRunsOnce
<1>. QED
  BY <1>1, CommandsInvariant, PTL

\* reconcile_interrupted_jobs, on_connect: once a bridge has connected after a restart, no
\* command is left interrupted, whatever other bridges and threads do meanwhile.
THEOREM InterruptedAreSettled == Spec => []ConnectSettlesInterrupted
<1>1. CommandsInv => ConnectSettlesInterrupted
  BY DEF CommandsInv, BridgesSettle, BridgeSettles, ConnectSettlesInterrupted
<1>. QED
  BY <1>1, CommandsInvariant, PTL

-----------------------------------------------------------------------------
(* Types.  Each part is about the fields one group of actions writes.      *)

Statuses == {"accepted", "succeeded", "failed"}

RowsOK ==
  /\ row \in [Commands -> {"none", "running", "interrupted"} \union Terminal]
  /\ receipts \in [Commands -> Seq(Statuses)]

SocketsOK ==
  /\ bridges \in SUBSET Bridges
  /\ conn \in [Bridges -> {"out", "listing", "replaying", "in", "gone"}]
  /\ listed \in [Bridges -> SUBSET [cmd : Commands, status : {"running", "interrupted"} \union Terminal]]
  /\ inbox \in [Bridges -> SUBSET Receipt]
  /\ \A s \in bridges : conn[s] # "out"

JobsOK ==
  /\ job \in [Bridges -> Job] /\ \A s \in Bridges : Len(job[s].cancels) <= CancelLimit
  /\ slot \in SUBSET Bridges

TasksOK ==
  /\ task \in [Runs -> Task]
  /\ \A r \in Runs : IF task[r].pc = "none" THEN task[r] = NoTask ELSE task[r].owner \in Bridges

\* A request belongs to a bridge that has connected at some time; its owner is the run it
\* admits or the sid it cancels.
ReqOK(q) ==
  /\ q.pc # "idle" => q.sid \in Bridges /\ q.cmd \in Commands /\ conn[q.sid] # "out"
  /\ q.pc \in {"opening", "scheduling"} => q.owner \in Runs
  /\ q.pc \in {"selected", "read", "updated", "cancelled"} => q.owner \in Bridges
  /\ Len(q.ids) <= CancelLimit

ReqsOK == req \in [Threads -> Req] /\ \A h \in Threads : ReqOK(req[h])

\* The run a request has admitted waits for it, and for no other request.
Starting(h) == req[h].pc \in {"opening", "scheduling"}

StartsOK ==
  /\ \A h \in Threads : Starting(h) =>
       task[req[h].owner].pc = "admitted" /\ task[req[h].owner].owner = req[h].sid
  /\ \A h, i \in Threads : Starting(h) /\ Starting(i) /\ req[h].owner = req[i].owner => h = i

\* Inside the section there is a receipt to emit; a run has none before its scan ends.
EmissionsOK ==
  /\ emission \in [Actors -> Emission]
  /\ \A a \in Actors : emission[a].pc # "idle" => ~Quiet(a)
  /\ \A r \in Runs : task[r].pc \in {"none", "admitted", "body"} => Quiet(r)

CountsOK ==
  /\ lock \in {Nobody} \union Actors
  /\ ran \in [Commands -> Nat] /\ stray \in SUBSET Commands
  /\ requests \in 0..MaxRequests /\ restarts \in 0..MaxRestarts

TypesInv ==
  RowsOK /\ SocketsOK /\ JobsOK /\ TasksOK /\ ReqsOK /\ StartsOK /\ EmissionsOK /\ CountsOK

LEMMA InitTypes == Init => TypesInv
<1>. SUFFICES ASSUME Init PROVE TypesInv
  OBVIOUS
<1>. USE CommandsAssumption DEF Init
<1>1. RowsOK
  BY DEF RowsOK
<1>2. SocketsOK
  BY DEF SocketsOK
<1>3. JobsOK
  BY DEF JobsOK, Job, NoJob, Entry
<1>4. TasksOK
  BY DEF TasksOK, Task, NoTask, Nobody
<1>5. ReqsOK
  BY DEF ReqsOK, ReqOK, Req, NoReq, Nobody
<1>6. EmissionsOK
  BY Constants DEF EmissionsOK, Emission, NotEmitting, Quiet
<1>7. CountsOK
  BY DEF CountsOK
<1>8. StartsOK
  BY DEF StartsOK, Starting, NoReq
<1>. QED
  BY <1>1, <1>2, <1>3, <1>4, <1>5, <1>6, <1>7, <1>8 DEF TypesInv

LEMMA ConcatCalls ==
  ASSUME NEW a \in Seq(Call), NEW b \in Seq(Call)
  PROVE  /\ a \o b \in Seq(Call)
         /\ DOMAIN (a \o b) = 1..(Len(a) + Len(b))
         /\ \A i \in 1..(Len(a) + Len(b)) :
              (a \o b)[i] = IF i <= Len(a) THEN a[i] ELSE b[i - Len(a)]
<1>1. /\ a \o b \in Seq(Call)
      /\ Len(a \o b) = Len(a) + Len(b)
      /\ \A i \in 1..(Len(a) + Len(b)) :
           (a \o b)[i] = IF i <= Len(a) THEN a[i] ELSE b[i - Len(a)]
  BY ConcatProperties, Zenon
<1>2. DOMAIN (a \o b) = 1..Len(a \o b)
  BY <1>1, LenProperties, Zenon
<1>. QED
  BY <1>1, <1>2, Zenon

\* The calls a finished job owes: one for each command it has, in their order.
LEMMA OwedCalls ==
  ASSUME NEW j \in Job
  PROVE  /\ Owed(j) \in Seq(Call)
         /\ j.status \notin Over => Owed(j) = <<>>
         /\ j.status \in Over => \A i \in DOMAIN j.start :
              i \in DOMAIN Owed(j) /\ Owed(j)[i] = Result(j.start[i].cmd, StartResult(j.status),
                                                        j.start[i].named)
         /\ \A i \in DOMAIN Owed(j) :
              \/ \E k \in DOMAIN j.start :
                   Owed(j)[i] = Result(j.start[k].cmd, StartResult(j.status), j.start[k].named)
              \/ \E k \in DOMAIN j.cancels :
                   Owed(j)[i] = Result(j.cancels[k].cmd, CancelResult(j.status), j.cancels[k].named)
<1>1. ASSUME NEW entries \in Seq(Entry), NEW status \in {"succeeded", "failed"}
      PROVE  /\ Owing(entries, status) \in Seq(Call)
             /\ Len(Owing(entries, status)) = Len(entries)
             /\ \A i \in DOMAIN entries : Owing(entries, status)[i]
                   = Result(entries[i].cmd, status, entries[i].named)
  <2>1. ASSUME NEW i \in 1..Len(entries)
        PROVE  Result(entries[i].cmd, status, entries[i].named) \in Call
    <3>1. entries[i] \in Entry
      BY ElementOfSeq
    <3>. QED
      BY <3>1 DEF Result, Call, Entry
  <2>. QED
    BY <2>1 DEF Owing
<1>2. j.start \in Seq(Entry) /\ j.cancels \in Seq(Entry)
  BY DEF Job
<1>3. StartResult(j.status) \in {"succeeded", "failed"} /\ CancelResult(j.status) \in {"succeeded", "failed"}
  BY DEF StartResult, CancelResult
<1>. DEFINE x == Owing(j.start, StartResult(j.status))
            y == Owing(j.cancels, CancelResult(j.status))
<1>4. /\ x \in Seq(Call) /\ Len(x) = Len(j.start)
      /\ \A i \in DOMAIN j.start :
            x[i] = Result(j.start[i].cmd, StartResult(j.status), j.start[i].named)
  BY <1>1, <1>2, <1>3
<1>5. /\ y \in Seq(Call) /\ Len(y) = Len(j.cancels)
      /\ \A i \in DOMAIN j.cancels :
            y[i] = Result(j.cancels[i].cmd, CancelResult(j.status), j.cancels[i].named)
  BY <1>1, <1>2, <1>3
<1>6. Owed(j) = IF j.status \notin Over THEN <<>> ELSE x \o y
  BY DEF Owed, Reported, Over
<1>. HIDE DEF x, y
<1>7. CASE j.status \notin Over
  BY <1>6, <1>7
<1>8. CASE j.status \in Over
  <2>1. Owed(j) = x \o y
    BY <1>6, <1>8
  <2>2. x \o y \in Seq(Call) /\ DOMAIN (x \o y) = 1..(Len(x) + Len(y))
    BY <1>4, <1>5, ConcatCalls, Zenon
  <2>3. \A i \in 1..(Len(x) + Len(y)) : (x \o y)[i] = IF i <= Len(x) THEN x[i] ELSE y[i - Len(x)]
    BY <1>4, <1>5, ConcatCalls, Zenon
  <2>. DEFINE m == Len(x)  n == Len(y)
  <2>6. m \in Nat /\ n \in Nat /\ DOMAIN j.start = 1..m /\ DOMAIN j.cancels = 1..n
    BY <1>2, <1>4, <1>5, LenProperties
  <2>. HIDE DEF m, n
  <2>7. /\ DOMAIN Owed(j) = 1..(m + n)
        /\ \A i \in 1..(m + n) : Owed(j)[i] = IF i <= m THEN x[i] ELSE y[i - m]
    BY <2>1, <2>2, <2>3 DEF m, n
  <2>4. \A i \in DOMAIN j.start : i \in DOMAIN Owed(j) /\ Owed(j)[i] =
           Result(j.start[i].cmd, StartResult(j.status), j.start[i].named)
    <3>. SUFFICES ASSUME NEW i \in 1..m
                  PROVE  i \in DOMAIN Owed(j) /\ Owed(j)[i] = x[i]
      BY <1>4, <2>6
    <3>1. i \in 1..(m + n) /\ i <= m
      BY <2>6
    <3>. QED
      BY <2>7, <3>1
  <2>5. ASSUME NEW i \in DOMAIN Owed(j)
        PROVE  \/ \E k \in DOMAIN j.start :
                    Owed(j)[i] = Result(j.start[k].cmd, StartResult(j.status), j.start[k].named)
               \/ \E k \in DOMAIN j.cancels :
                    Owed(j)[i] = Result(j.cancels[k].cmd, CancelResult(j.status), j.cancels[k].named)
    <3>1. CASE i <= m
      <4>1. i \in DOMAIN j.start /\ Owed(j)[i] = x[i]
        BY <2>6, <2>7, <3>1
      <4>. QED
        BY <1>4, <4>1
    <3>2. CASE ~(i <= m)
      <4>1. i - m \in DOMAIN j.cancels /\ Owed(j)[i] = y[i - m]
        BY <2>6, <2>7, <3>2
      <4>. QED
        BY <1>5, <4>1
    <3>. QED
      BY <3>1, <3>2
  <2>. QED
    BY <1>8, <2>1, <2>2, <2>4, <2>5
<1>. QED
  BY <1>7, <1>8

LEMMA OneCall ==
  ASSUME NEW c \in Call
  PROVE  <<c>> \in Seq(Call) /\ <<c>> # <<>>
OBVIOUS

LEMMA CallQueue ==
  ASSUME NEW q \in Seq(Call)
  PROVE  /\ \A c \in Call : Append(q, c) \in Seq(Call)
         /\ q # <<>> => Head(q) \in Call /\ Tail(q) \in Seq(Call)
<1>1. ASSUME NEW c \in Call
      PROVE  Append(q, c) \in Seq(Call)
  OBVIOUS
<1>2. q # <<>> => Head(q) \in Call /\ Tail(q) \in Seq(Call)
  BY HeadTailProperties, Zenon
<1>. QED
  BY <1>1, <1>2

LEMMA QueueWrites ==
  ASSUME emission \in [Actors -> Emission], NEW a \in Actors, NEW q \in Seq(Call),
         emission' = [emission EXCEPT ![a].queue = q]
  PROVE  /\ emission' \in [Actors -> Emission]
         /\ emission'[a].queue = q /\ emission'[a].pc = emission[a].pc
         /\ \A x \in Actors : x # a => emission'[x] = emission[x]
BY DEF Emission

LEMMA PcWrites ==
  ASSUME emission \in [Actors -> Emission], NEW a \in Actors,
         NEW pc \in {"idle", "recording", "sending"}, emission' = [emission EXCEPT ![a].pc = pc]
  PROVE  /\ emission' \in [Actors -> Emission]
         /\ emission'[a].queue = emission[a].queue /\ emission'[a].pc = pc
         /\ \A x \in Actors : x # a => emission'[x] = emission[x]
BY DEF Emission

LEMMA SectionWrites ==
  ASSUME emission \in [Actors -> Emission], NEW a \in Actors, NEW e \in Emission,
         emission' = [emission EXCEPT ![a] = e]
  PROVE  /\ emission' \in [Actors -> Emission]
         /\ emission'[a] = e
         /\ \A x \in Actors : x # a => emission'[x] = emission[x]
OBVIOUS

\* A queue that grows or empties outside the section, for whoever may have one.
LEMMA EmissionsKeep ==
  ASSUME EmissionsOK, NEW a \in Actors, emission[a].pc = "idle",
         emission' \in [Actors -> Emission], emission'[a].pc = "idle",
         \A x \in Actors : x # a => emission'[x] = emission[x],
         a \in Runs => ~Quiet(a) \/ emission'[a].queue = <<>> \/ task'[a].pc = "reporting",
         \A r \in Runs : task'[r].pc \in {"none", "admitted", "body"} =>
           task[r].pc \in {"none", "admitted", "body"}
  PROVE  EmissionsOK'
<1>. USE Constants
<1>1. \A x \in Actors : emission'[x].pc # "idle" => ~Quiet(x)'
  BY DEF EmissionsOK, Quiet
<1>2. ASSUME NEW r \in Runs, task'[r].pc \in {"none", "admitted", "body"}
      PROVE  Quiet(r)'
  BY <1>2 DEF EmissionsOK, Quiet
<1>. QED
  BY <1>1, <1>2 DEF EmissionsOK

\* A step of one thread outside the section.
LEMMA RequestWrites ==
  ASSUME ReqsOK, NEW h \in Threads, NEW q \in Req, ReqOK(q), conn' = conn,
         req' = [req EXCEPT ![h] = q]
  PROVE  ReqsOK'
BY DEF ReqsOK, ReqOK

LEMMA NoReqTyped == NoReq \in Req /\ ReqOK(NoReq)
BY CommandsAssumption DEF Req, NoReq, ReqOK, Nobody

LEMMA RequestEnds ==
  ASSUME ReqsOK, NEW h \in Threads, conn' = conn, req' = [req EXCEPT ![h] = NoReq]
  PROVE  ReqsOK'
BY NoReqTyped, RequestWrites

LEMMA RequestSteps ==
  ASSUME ReqsOK, NEW h \in Threads, req[h].pc # "idle", conn' = conn,
         NEW pc \in {"begin", "act"}, req' = [req EXCEPT ![h].pc = pc]
  PROVE  ReqsOK'
<1>. DEFINE q == [req[h] EXCEPT !.pc = pc]
<1>1. q \in Req /\ ReqOK(q)
  BY DEF ReqsOK, Req, ReqOK
<1>2. req' = [req EXCEPT ![h] = q]
  OBVIOUS
<1>. HIDE DEF q
<1>. QED
  BY <1>1, <1>2, RequestWrites

\* The parts of a step that it leaves alone.
LEMMA RestKeeps ==
  /\ RowsOK /\ UNCHANGED durable => RowsOK'
  /\ SocketsOK /\ UNCHANGED <<sockets, inbox>> => SocketsOK'
  /\ JobsOK /\ UNCHANGED <<job, slot>> => JobsOK'
  /\ TasksOK /\ UNCHANGED task => TasksOK'
  /\ ReqsOK /\ UNCHANGED <<req, conn>> => ReqsOK'
  /\ EmissionsOK /\ UNCHANGED <<emission, task>> => EmissionsOK'
  /\ CountsOK /\ UNCHANGED <<lock, ran, stray, counts>> => CountsOK'
  /\ StartsOK /\ UNCHANGED <<req, task>> => StartsOK'
<1>1. RowsOK /\ UNCHANGED durable => RowsOK'
  BY DEF RowsOK, durable
<1>2. SocketsOK /\ UNCHANGED <<sockets, inbox>> => SocketsOK'
  BY DEF SocketsOK, sockets
<1>3. JobsOK /\ UNCHANGED <<job, slot>> => JobsOK'
  BY DEF JobsOK
<1>4. TasksOK /\ UNCHANGED task => TasksOK'
  BY DEF TasksOK
<1>5. ReqsOK /\ UNCHANGED <<req, conn>> => ReqsOK'
  BY DEF ReqsOK, ReqOK
<1>6. EmissionsOK /\ UNCHANGED <<emission, task>> => EmissionsOK'
  BY DEF EmissionsOK, Quiet
<1>7. CountsOK /\ UNCHANGED <<lock, ran, stray, counts>> => CountsOK'
  BY DEF CountsOK, counts
<1>8. StartsOK /\ UNCHANGED <<req, task>> => StartsOK'
  BY DEF StartsOK, Starting
<1>. QED
  BY <1>1, <1>2, <1>3, <1>4, <1>5, <1>6, <1>7, <1>8

\* A request that starts nothing after the step.
LEMMA RequestStartsNone ==
  ASSUME ReqsOK, StartsOK, NEW h \in Threads, ~Starting(h)', task' = task,
         \A i \in Threads : i # h => req'[i] = req[i]
  PROVE  StartsOK'
BY DEF StartsOK, Starting

LEMMA RequestGone ==
  ASSUME ReqsOK, StartsOK, NEW h \in Threads, NEW q, req' = [req EXCEPT ![h] = q],
         q.pc \notin {"opening", "scheduling"}, task' = task
  PROVE  StartsOK'
<1>1. req'[h].pc = q.pc /\ \A i \in Threads : i # h => req'[i] = req[i]
  BY DEF ReqsOK
<1>. QED
  BY <1>1, RequestStartsNone DEF Starting

LEMMA EmitTypes ==
  ASSUME TypesInv, NEW a \in Actors, Emit(a)
  PROVE  TypesInv'
<1>. USE Constants DEF TypesInv
<1>. DEFINE q == emission[a].queue
<1>1. /\ q \in Seq(Call) /\ q # <<>> /\ Head(q) \in Call /\ Tail(q) \in Seq(Call)
      /\ emission[a] = [pc |-> emission[a].pc, queue |-> q]
  <2>1. q \in Seq(Call) /\ emission[a] = [pc |-> emission[a].pc, queue |-> q]
    BY DEF EmissionsOK, Emission
  <2>2. q # <<>>
    BY DEF Emit, EmitDrops, EmitReads, EmitRecords, EmitSends, EmissionsOK, Quiet
  <2>. QED
    BY <2>1, <2>2, CallQueue
<1>2. UNCHANGED <<sockets, scans, req, ran, stray, counts>>
  BY DEF Emit, EmitDrops, EmitReads, EmitRecords, EmitSends, history
<1>3. JobsOK' /\ TasksOK' /\ ReqsOK' /\ StartsOK'
  BY <1>2, RestKeeps DEF scans, sockets
<1>4. CountsOK'
  BY <1>2 DEF Emit, EmitDrops, EmitReads, EmitRecords, EmitSends, CountsOK, counts
<1>5. RowsOK'
  <2>1. CASE UNCHANGED durable
    BY <2>1, RestKeeps
  <2>2. CASE EmitRecords(a)
    <3>. DEFINE r == Head(q)
    <3>1. /\ row' = [row EXCEPT ![r.cmd] = RowStatus(r.status)]
          /\ receipts' = [receipts EXCEPT ![r.cmd] = Append(receipts[r.cmd], r.status)]
      BY <2>2 DEF EmitRecords
    <3>2. r.cmd \in Commands /\ r.status \in Statuses
      BY <1>1 DEF Call, Statuses
    <3>. HIDE DEF r
    <3>3. Append(receipts[r.cmd], r.status) \in Seq(Statuses)
      BY <3>2 DEF RowsOK
    <3>. QED
      BY <3>1, <3>2, <3>3, RowStatusIsKnown DEF RowsOK
  <2>. QED
    BY <2>1, <2>2 DEF Emit, EmitDrops, EmitReads, EmitSends
<1>6. SocketsOK'
  <2>1. CASE UNCHANGED inbox
    BY <1>2, <2>1, RestKeeps
  <2>2. CASE EmitSends(a)
    <3>1. Told(Head(q)) \in Receipt
      BY <1>1 DEF Told, Call, Receipt
    <3>2. inbox' = [s \in Bridges |-> IF s \in Recipients(a) THEN inbox[s] \union {Told(Head(q))}
                                       ELSE inbox[s]]
      BY <2>2 DEF EmitSends
    <3>. QED
      BY <1>2, <3>1, <3>2 DEF SocketsOK, sockets
  <2>. QED
    BY <2>1, <2>2 DEF Emit, EmitDrops, EmitReads, EmitRecords, history
<1>7. EmissionsOK'
  <2>0. emission \in [Actors -> Emission]
    BY DEF EmissionsOK
  <2>3. /\ emission' \in [Actors -> Emission]
        /\ \A x \in Actors : x # a => emission'[x] = emission[x]
        /\ emission'[a].pc # "idle" => emission'[a].queue # <<>>
    <3>1. CASE emission[a].pc = "idle" /\ emission' = [emission EXCEPT ![a].queue = Tail(q)]
      BY <1>1, <2>0, <3>1, QueueWrites
    <3>2. CASE \E pc \in {"recording", "sending"} : emission' = [emission EXCEPT ![a].pc = pc]
      BY <1>1, <2>0, <3>2, PcWrites
    <3>3. CASE emission' = [emission EXCEPT ![a] = [pc |-> "idle", queue |-> Tail(q)]]
      <4>. DEFINE e == [pc |-> "idle", queue |-> Tail(q)]
      <4>1. e \in Emission /\ e.pc = "idle"
        BY <1>1 DEF Emission
      <4>. HIDE DEF e
      <4>2. emission' = [emission EXCEPT ![a] = e]
        BY <3>3 DEF e
      <4>. QED
        BY <2>0, <4>1, <4>2, SectionWrites
    <3>. QED
      BY <3>1, <3>2, <3>3 DEF Emit, EmitDrops, EmitReads, EmitRecords, EmitSends
  <2>4. \A x \in Actors : emission'[x].pc # "idle" => ~Quiet(x)'
    BY <2>3 DEF EmissionsOK, Quiet
  <2>5. ASSUME NEW r \in Runs, task'[r].pc \in {"none", "admitted", "body"}
        PROVE  Quiet(r)'
    <3>1. Quiet(r)
      BY <1>2, <2>5 DEF EmissionsOK, scans
    <3>2. r # a
      BY <1>1, <3>1 DEF Quiet
    <3>. QED
      BY <2>3, <3>1, <3>2 DEF Quiet
  <2>. QED
    BY <2>3, <2>4, <2>5 DEF EmissionsOK
<1>. QED
  BY <1>3, <1>4, <1>5, <1>6, <1>7

LEMMA NoJobTyped == NoJob \in Job
BY DEF NoJob, Job, Entry

LEMMA ArrivesTypes ==
  ASSUME TypesInv, NEW h \in Threads, NEW s \in Bridges, NEW c \in Commands, Arrives(h, s, c)
  PROVE  TypesInv'
<1>. USE DEF TypesInv
<1>1. UNCHANGED <<durable, sockets, scans, emission, lock, history, restarts>>
  BY DEF Arrives
<1>2. RowsOK' /\ SocketsOK' /\ JobsOK' /\ TasksOK' /\ EmissionsOK'
  BY <1>1, RestKeeps DEF scans, history
<1>3. CountsOK'
  BY CommandsAssumption DEF Arrives, CountsOK, history
<1>4. ReqsOK'
  <2>. DEFINE q == [NoReq EXCEPT !.pc = "begin", !.sid = s, !.cmd = c]
  <2>1. q \in Req /\ ReqOK(q)
    <3>1. NoReq \in Req /\ NoReq.ids = <<>>
      BY NoReqTyped DEF NoReq
    <3>2. conn[s] # "out"
      BY DEF SocketsOK, Arrives
    <3>3. CancelLimit \in Nat
      BY CommandsAssumption
    <3>4. q \in Req
      BY <3>1 DEF Req
    <3>5. q.pc = "begin" /\ q.sid = s /\ q.cmd = c /\ q.ids = <<>>
      BY <3>1 DEF Req
    <3>. HIDE DEF q
    <3>6. ReqOK(q)
      BY <3>2, <3>3, <3>5 DEF ReqOK
    <3>. QED
      BY <3>4, <3>6
  <2>2. req' = [req EXCEPT ![h] = q] /\ conn' = conn
    BY DEF Arrives, sockets
  <2>. HIDE DEF q
  <2>. QED
    BY <2>1, <2>2, RequestWrites
<1>5. StartsOK'
  <2>. DEFINE q == [NoReq EXCEPT !.pc = "begin", !.sid = s, !.cmd = c]
  <2>1. req' = [req EXCEPT ![h] = q] /\ task' = task
    BY <1>1 DEF Arrives, scans
  <2>2. q.pc = "begin"
    BY DEF NoReq
  <2>. HIDE DEF q
  <2>. QED
    BY <2>1, <2>2, RequestGone
<1>. QED
  BY <1>2, <1>3, <1>4, <1>5

LEMMA BeginTypes ==
  ASSUME TypesInv, NEW h \in Threads, BeginReplays(h) \/ BeginAccepts(h) \/ BeginUnnamed(h)
  PROVE  TypesInv'
<1>. USE Constants DEF TypesInv
<1>1. UNCHANGED <<durable, sockets, scans, ran, counts>> /\ req[h].pc = "begin"
  BY DEF BeginReplays, BeginAccepts, BeginUnnamed, history
<1>2. req[h].cmd \in Commands /\ req[h].sid \in Bridges
  BY <1>1 DEF ReqsOK, ReqOK
<1>3. RowsOK' /\ JobsOK' /\ TasksOK'
  BY <1>1, RestKeeps DEF scans
<1>4. ReqsOK'
  <2>1. conn' = conn
    BY <1>1 DEF sockets
  <2>2. CASE BeginReplays(h)
    BY <2>1, <2>2, RequestEnds DEF BeginReplays
  <2>3. CASE BeginAccepts(h) \/ BeginUnnamed(h)
    <3>1. req' = [req EXCEPT ![h].pc = "act"] /\ req[h].pc # "idle"
      BY <1>1, <2>3 DEF BeginAccepts, BeginUnnamed
    <3>. QED
      BY <2>1, <3>1, RequestSteps
  <2>. QED
    BY <2>2, <2>3
<1>5. SocketsOK'
  <2>1. CASE UNCHANGED inbox
    BY <1>1, <2>1, RestKeeps
  <2>2. CASE BeginReplays(h)
    <3>1. Evidence(req[h].cmd) \subseteq Receipt
      BY <1>2 DEF Evidence, Receipt, RowsOK, Statuses
    <3>. QED
      BY <1>1, <1>2, <2>2, <3>1 DEF BeginReplays, SocketsOK, sockets
  <2>. QED
    BY <2>1, <2>2 DEF BeginAccepts, BeginUnnamed, history
<1>6. EmissionsOK'
  <2>1. CASE UNCHANGED emission
    BY <1>1, <2>1, RestKeeps DEF scans
  <2>2. CASE BeginAccepts(h)
    <3>. DEFINE e == [pc |-> "recording", queue |-> <<Result(req[h].cmd, "accepted", TRUE)>>]
    <3>1. e \in Emission /\ e.queue # <<>>
      <4>1. Result(req[h].cmd, "accepted", TRUE) \in Call
        BY <1>2 DEF Result, Call
      <4>2. <<Result(req[h].cmd, "accepted", TRUE)>> \in Seq(Call)
            /\ <<Result(req[h].cmd, "accepted", TRUE)>> # <<>>
        BY <4>1, OneCall
      <4>. QED
        BY <4>2 DEF Emission
    <3>2. emission' = [emission EXCEPT ![h] = e] /\ task' = task
      BY <1>1, <2>2 DEF BeginAccepts, scans
    <3>. HIDE DEF e
    <3>3. /\ emission' \in [Actors -> Emission] /\ emission'[h] = e
          /\ \A x \in Actors : x # h => emission'[x] = emission[x]
      BY <3>1, <3>2, SectionWrites DEF EmissionsOK
    <3>. QED
      BY <3>1, <3>2, <3>3 DEF EmissionsOK, Quiet
  <2>. QED
    BY <2>1, <2>2 DEF BeginReplays, BeginUnnamed
<1>7. CountsOK'
  BY <1>1, <1>2 DEF BeginReplays, BeginAccepts, BeginUnnamed, CountsOK, history, counts
<1>8. StartsOK'
  <2>1. req'[h].pc \notin {"opening", "scheduling"}
        /\ \A i \in Threads : i # h => req'[i] = req[i]
    <3>1. CASE req' = [req EXCEPT ![h] = NoReq]
      BY <3>1 DEF ReqsOK, NoReq
    <3>2. CASE req' = [req EXCEPT ![h].pc = "act"]
      BY <3>2 DEF ReqsOK, Req
    <3>. QED
      BY <3>1, <3>2 DEF BeginReplays, BeginAccepts, BeginUnnamed
  <2>2. task' = task
    BY <1>1 DEF scans
  <2>. QED
    BY <2>1, <2>2, RequestStartsNone DEF Starting
<1>. QED
  BY <1>3, <1>4, <1>5, <1>6, <1>7, <1>8

\* A thread that emits nothing yet is outside the section.
LEMMA QuietIsIdle ==
  ASSUME EmissionsOK, NEW a \in Actors
  PROVE  /\ Quiet(a) => emission[a].pc = "idle" /\ emission[a].queue = <<>>
         /\ emission[a].queue \in Seq(Call)
BY DEF EmissionsOK, Quiet, Emission

LEMMA ThreadQueues ==
  ASSUME EmissionsOK, NEW h \in Threads, Quiet(h), NEW q \in Seq(Call),
         emission' = [emission EXCEPT ![h].queue = q],
         \A r \in Runs : task'[r].pc \in {"none", "admitted", "body"} =>
           task[r].pc \in {"none", "admitted", "body"}
  PROVE  EmissionsOK'
<1>. USE Constants
<1>1. /\ emission' \in [Actors -> Emission]
      /\ emission'[h].queue = q /\ emission'[h].pc = emission[h].pc
      /\ \A x \in Actors : x # h => emission'[x] = emission[x]
  BY QueueWrites DEF EmissionsOK
<1>2. emission[h].pc = "idle" /\ h \notin Runs
  BY QuietIsIdle
<1>. QED
  BY <1>1, <1>2, EmissionsKeep

LEMMA AnswersTypes ==
  ASSUME TypesInv, NEW h \in Threads, Quiet(h), req[h].pc # "idle",
         NEW status \in {"succeeded", "failed"}, Answers(h, status), task' = task, conn' = conn
  PROVE  EmissionsOK' /\ ReqsOK' /\ StartsOK'
<1>. USE Constants DEF TypesInv
<1>1. req[h].cmd \in Commands
  BY DEF ReqsOK, ReqOK
<1>. DEFINE q == Append(emission[h].queue, Result(req[h].cmd, status, Named(req[h].sid)))
<1>2. q \in Seq(Call)
  <2>1. Result(req[h].cmd, status, Named(req[h].sid)) \in Call
    BY <1>1 DEF Result, Call, Named
  <2>. QED
    BY <2>1, QuietIsIdle, CallQueue
<1>3. emission' = [emission EXCEPT ![h].queue = q]
  BY DEF Answers, Emits
<1>. HIDE DEF q
<1>4. EmissionsOK'
  BY <1>2, <1>3, ThreadQueues
<1>5. ReqsOK'
  BY RequestEnds DEF Answers
<1>6. StartsOK'
  <2>1. NoReq.pc = "idle"
    BY DEF NoReq
  <2>. QED
    BY <2>1, RequestGone DEF Answers
<1>. QED
  BY <1>4, <1>5, <1>6

LEMMA PerformsTypes ==
  ASSUME TypesInv, NEW h \in Threads, NEW kind, Performs(h, kind), UNCHANGED <<lock, counts>>
  PROVE  CountsOK' /\ req[h].cmd \in Commands /\ req[h].sid \in Bridges
<1>1. req[h].cmd \in Commands /\ req[h].sid \in Bridges
  BY DEF Performs, TypesInv, ReqsOK, ReqOK
<1>. DEFINE c == req[h].cmd
<1>2. ran' = [ran EXCEPT ![c] = ran[c] + 1] /\ stray' = stray
  BY DEF Performs
<1>3. ran \in [Commands -> Nat] /\ c \in Commands
  BY <1>1 DEF TypesInv, CountsOK
<1>. HIDE DEF c
<1>4. ran' \in [Commands -> Nat]
  BY <1>2, <1>3
<1>. QED
  BY <1>1, <1>2, <1>4 DEF TypesInv, CountsOK, counts

LEMMA RefusedTypes ==
  ASSUME TypesInv, NEW h \in Threads, StartRefused(h) \/ CheckAnswers(h)
  PROVE  TypesInv'
<1>. USE DEF TypesInv
<1>1. UNCHANGED <<durable, sockets, scans, lock, counts, inbox>> /\ Quiet(h) /\ req[h].pc # "idle"
  BY DEF StartRefused, CheckAnswers, Performs
<1>2. PICK status \in {"succeeded", "failed"} : Answers(h, status)
  BY DEF StartRefused, CheckAnswers
<1>3. EmissionsOK' /\ ReqsOK' /\ StartsOK'
  BY <1>1, <1>2, AnswersTypes DEF scans, sockets
<1>4. CountsOK'
  BY <1>1, PerformsTypes DEF StartRefused, CheckAnswers
<1>5. RowsOK' /\ SocketsOK' /\ JobsOK' /\ TasksOK'
  BY <1>1, RestKeeps DEF scans
<1>. QED
  BY <1>3, <1>4, <1>5

LEMMA AdmittedTypes ==
  ASSUME TypesInv, NEW h \in Threads, StartAdmitted(h)
  PROVE  TypesInv'
<1>. USE Constants DEF TypesInv
<1>1. UNCHANGED <<durable, sockets, slot, emission, lock, counts, inbox>>
      /\ Performs(h, Starts) /\ req[h].pc = "act"
  BY DEF StartAdmitted, Performs
<1>2. CountsOK' /\ req[h].cmd \in Commands /\ req[h].sid \in Bridges
  BY <1>1, PerformsTypes
<1>3. PICK r \in Runs :
       /\ task[r].pc = "none"
       /\ job' = [job EXCEPT ![req[h].sid] = [NoJob EXCEPT !.status = "running",
               !.start = <<[cmd |-> req[h].cmd, named |-> Named(req[h].sid)]>>]]
       /\ task' = [task EXCEPT ![r] =
            [NoTask EXCEPT !.pc = "admitted", !.owner = req[h].sid, !.cmd = req[h].cmd]]
       /\ req' = [req EXCEPT ![h].pc = "opening", ![h].owner = r]
  BY DEF StartAdmitted
<1>4. RowsOK' /\ SocketsOK'
  BY <1>1, RestKeeps
<1>5. JobsOK'
  <2>. DEFINE j == [NoJob EXCEPT !.status = "running",
                     !.start = <<[cmd |-> req[h].cmd, named |-> Named(req[h].sid)]>>]
  <2>1. j \in Job /\ j.cancels = <<>>
    <3>. DEFINE e == [cmd |-> req[h].cmd, named |-> Named(req[h].sid)]
    <3>1. e \in Entry
      BY <1>2 DEF Entry, Named
    <3>2. NoJob \in Job /\ NoJob.cancels = <<>>
      BY NoJobTyped DEF NoJob
    <3>. HIDE DEF e
    <3>3. <<e>> \in Seq(Entry)
      BY <3>1
    <3>4. [NoJob EXCEPT !.status = "running", !.start = <<e>>] \in Job
          /\ [NoJob EXCEPT !.status = "running", !.start = <<e>>].cancels = NoJob.cancels
      BY <3>2, <3>3 DEF Job
    <3>. QED
      BY <3>2, <3>4 DEF e
  <2>2. job' = [job EXCEPT ![req[h].sid] = j] /\ slot' = slot
    BY <1>1, <1>3
  <2>. HIDE DEF j
  <2>. QED
    BY <1>2, <2>1, <2>2, CommandsAssumption DEF JobsOK
<1>6. TasksOK'
  BY <1>2, <1>3 DEF TasksOK, Task, NoTask
<1>7. ReqsOK'
  <2>. DEFINE q == [req[h] EXCEPT !.pc = "opening", !.owner = r]
  <2>1. q \in Req /\ ReqOK(q)
    BY <1>1, <1>2 DEF ReqsOK, Req, ReqOK
  <2>2. req' = [req EXCEPT ![h] = q] /\ conn' = conn
    BY <1>1, <1>3 DEF sockets
  <2>. HIDE DEF q
  <2>. QED
    BY <2>1, <2>2, RequestWrites
<1>8. EmissionsOK'
  BY <1>1, <1>3 DEF EmissionsOK, TasksOK, Task, NoTask, Quiet
<1>9. StartsOK'
  <2>1. /\ req'[h].pc = "opening" /\ req'[h].owner = r /\ req'[h].sid = req[h].sid
        /\ \A i \in Threads : i # h => req'[i] = req[i]
    BY <1>3 DEF ReqsOK, Req
  <2>2. /\ task'[r].pc = "admitted" /\ task'[r].owner = req[h].sid
        /\ \A x \in Runs : x # r => task'[x] = task[x]
    BY <1>3 DEF TasksOK, NoTask
  <2>3. \A i \in Threads : Starting(i) => req[i].owner \in Runs /\ req[i].owner # r
    BY <1>3 DEF StartsOK, ReqsOK, ReqOK, Starting
  <2>. QED
    BY <2>1, <2>2, <2>3 DEF StartsOK, Starting
<1>. QED
  BY <1>2, <1>4, <1>5, <1>6, <1>7, <1>8, <1>9

\* A request that goes on with the same bridge and command.
LEMMA RequestAdvances ==
  ASSUME ReqsOK, NEW h \in Threads, req[h].pc # "idle", conn' = conn,
         NEW pc \in {"scheduling", "selected", "updated", "cancelled"},
         NEW o \in Runs \union Bridges, NEW ids \in Seq(Entry), Len(ids) <= CancelLimit,
         pc = "scheduling" => o \in Runs, pc # "scheduling" => o \in Bridges,
         req' = [req EXCEPT ![h].pc = pc, ![h].owner = o, ![h].ids = ids]
  PROVE  ReqsOK'
<1>. DEFINE q == [req[h] EXCEPT !.pc = pc, !.owner = o, !.ids = ids]
<1>1. q \in Req /\ ReqOK(q)
  BY DEF ReqsOK, Req, ReqOK
<1>2. req' = [req EXCEPT ![h] = q]
  OBVIOUS
<1>. HIDE DEF q
<1>. QED
  BY <1>1, <1>2, RequestWrites

\* complete() of an owner's record, by a caller that emits nothing yet.
LEMMA CompletedTypes ==
  ASSUME TypesInv, NEW a \in Actors, NEW o \in Bridges, NEW v \in Over,
         Completed(a, o, v), slot' = slot
  PROVE  /\ JobsOK' /\ job'[o] \in Job
         /\ Owed(job'[o]) \in Seq(Call)
         /\ emission' = [emission EXCEPT ![a].queue = Owed(job'[o])]
<1>1. job' = [job EXCEPT ![o].status = v]
  BY DEF Completed
<1>2. job[o] \in Job /\ job \in [Bridges -> Job]
  BY DEF TypesInv, JobsOK
<1>3. [job[o] EXCEPT !.status = v] \in Job /\ [job[o] EXCEPT !.status = v].cancels = job[o].cancels
  BY <1>2 DEF Job
<1>4. JobsOK' /\ job'[o] \in Job
  BY <1>1, <1>2, <1>3 DEF TypesInv, JobsOK
<1>. QED
  BY <1>4, OwedCalls DEF Completed

LEMMA LaterStartTypes ==
  ASSUME TypesInv, NEW h \in Threads,
         StartOpens(h) \/ StartScheduled(h) \/ StartUnschedulable(h)
  PROVE  TypesInv'
<1>. USE Constants DEF TypesInv
<1>1. UNCHANGED <<durable, sockets, inbox, lock, ran, stray, counts>> /\ Quiet(h)
      /\ req[h].pc \in {"opening", "scheduling"}
  BY DEF StartOpens, StartScheduled, StartUnschedulable, history, At
<1>2. RowsOK' /\ SocketsOK' /\ CountsOK' /\ conn' = conn
  BY <1>1, RestKeeps DEF sockets
<1>3. req[h] \in Req /\ ReqOK(req[h]) /\ req[h].sid \in Bridges /\ req[h].owner \in Runs
  BY <1>1 DEF ReqsOK, ReqOK
<1>4. CASE StartOpens(h)
  <2>1. req' = [req EXCEPT ![h].pc = "scheduling"] /\ UNCHANGED <<job, task, emission>>
    BY <1>4 DEF StartOpens
  <2>2. req' = [req EXCEPT ![h] = [req[h] EXCEPT !.pc = "scheduling"]]
    BY <2>1
  <2>. DEFINE q == [req[h] EXCEPT !.pc = "scheduling"]
  <2>3. q \in Req /\ ReqOK(q)
    BY <1>1, <1>3 DEF Req, ReqOK
  <2>. HIDE DEF q
  <2>4. ReqsOK'
    BY <1>2, <2>2, <2>3, RequestWrites DEF q
  <2>5. TasksOK' /\ EmissionsOK'
    BY <2>1, RestKeeps
  <2>6. JobsOK'
    BY <1>3, <1>4 DEF StartOpens, JobsOK
  <2>7. StartsOK'
    <3>1. /\ Starting(h) /\ req'[h].owner = req[h].owner /\ req'[h].sid = req[h].sid
          /\ \A i \in Threads : i # h => req'[i] = req[i]
      BY <1>1, <2>1 DEF Starting, ReqsOK, Req
    <3>. QED
      BY <2>1, <3>1 DEF StartsOK, Starting
  <2>. QED
    BY <1>2, <2>4, <2>5, <2>6, <2>7
<1>5. CASE StartScheduled(h)
  <2>1. /\ req' = [req EXCEPT ![h] = NoReq] /\ UNCHANGED <<job, slot, emission>>
        /\ task' = [task EXCEPT ![req[h].owner].pc = "body"] /\ task[req[h].owner].pc = "admitted"
    BY <1>1, <1>3, <1>5 DEF StartScheduled, StartsOK, Starting
  <2>. DEFINE r == req[h].owner
  <2>2. r \in Runs /\ task[r] \in Task /\ task[r].owner = req[h].sid
    BY <1>1, <1>3 DEF StartsOK, Starting, TasksOK
  <2>3. /\ task'[r].pc = "body" /\ task'[r].owner = task[r].owner /\ task'[r] \in Task
        /\ \A x \in Runs : x # r => task'[x] = task[x]
        /\ task' \in [Runs -> Task]
    BY <2>1, <2>2 DEF TasksOK, Task
  <2>4. TasksOK'
    BY <1>3, <2>2, <2>3 DEF TasksOK
  <2>5. EmissionsOK'
    BY <2>1, <2>2, <2>3 DEF EmissionsOK, Quiet
  <2>6. JobsOK' /\ ReqsOK'
    BY <1>2, <2>1, RestKeeps, RequestEnds
  <2>7. StartsOK'
    <3>1. ~Starting(h)' /\ \A i \in Threads : i # h => req'[i] = req[i]
      BY <2>1 DEF Starting, ReqsOK, NoReq
    <3>2. \A i \in Threads : i # h /\ Starting(i) => req[i].owner # r /\ req[i].owner \in Runs
      BY <1>1 DEF StartsOK, Starting, ReqsOK, ReqOK
    <3>. QED
      BY <2>3, <3>1, <3>2 DEF StartsOK, Starting
  <2>. QED
    BY <1>2, <2>4, <2>5, <2>6, <2>7
<1>6. CASE StartUnschedulable(h)
  <2>1. /\ req' = [req EXCEPT ![h] = NoReq] /\ slot' = slot /\ Completed(h, req[h].sid, "failed")
        /\ task' = [task EXCEPT ![req[h].owner].pc = "closing", ![req[h].owner].verdict = "failed"]
    BY <1>6 DEF StartUnschedulable
  <2>. DEFINE r == req[h].owner
  <2>2. r \in Runs /\ task[r] \in Task /\ task[r].owner = req[h].sid
    BY <1>1, <1>3 DEF StartsOK, Starting, TasksOK
  <2>3. /\ task'[r].pc = "closing" /\ task'[r].owner = task[r].owner /\ task'[r] \in Task
        /\ \A x \in Runs : x # r => task'[x] = task[x]
        /\ task' \in [Runs -> Task]
    BY <2>1, <2>2 DEF TasksOK, Task, Over
  <2>4. TasksOK'
    BY <1>3, <2>2, <2>3 DEF TasksOK
  <2>5. /\ JobsOK' /\ Owed(job'[req[h].sid]) \in Seq(Call)
        /\ emission' = [emission EXCEPT ![h].queue = Owed(job'[req[h].sid])]
    <3>1. "failed" \in Over
      BY DEF Over
    <3>. QED
      BY <1>3, <2>1, <3>1, CompletedTypes
  <2>6. EmissionsOK'
    <3>1. \A x \in Runs : task'[x].pc \in {"none", "admitted", "body"} =>
            task[x].pc \in {"none", "admitted", "body"}
      BY <2>3
    <3>. QED
      BY <1>1, <2>5, <3>1, ThreadQueues
  <2>7. ReqsOK'
    BY <1>2, <2>1, RequestEnds
  <2>8. StartsOK'
    <3>1. ~Starting(h)' /\ \A i \in Threads : i # h => req'[i] = req[i]
      BY <2>1 DEF Starting, ReqsOK, NoReq
    <3>2. \A i \in Threads : i # h /\ Starting(i) => req[i].owner # r /\ req[i].owner \in Runs
      BY <1>1 DEF StartsOK, Starting, ReqsOK, ReqOK
    <3>. QED
      BY <2>3, <3>1, <3>2 DEF StartsOK, Starting
  <2>. QED
    BY <1>2, <2>4, <2>5, <2>6, <2>7, <2>8
<1>. QED
  BY <1>4, <1>5, <1>6

LEMMA TaskTypes ==
  ASSUME TypesInv, NEW r \in Runs, TaskCompletes(r) \/ TaskEnds(r)
  PROVE  TypesInv'
<1>. USE Constants DEF TypesInv
<1>1. UNCHANGED <<durable, sockets, req, lock, history, counts>>
  BY DEF TaskCompletes, TaskEnds, TaskClears, SlotCloses
<1>2. RowsOK' /\ SocketsOK' /\ ReqsOK' /\ CountsOK'
  BY <1>1, RestKeeps DEF sockets, history
<1>3. task[r] \in Task /\ task[r].pc \in {"body", "reporting", "closing"} /\ task[r].owner \in Bridges
  BY DEF TaskCompletes, TaskEnds, TaskClears, SlotCloses, TasksOK
<1>4. /\ task' \in [Runs -> Task] /\ \A x \in Runs : x # r => task'[x] = task[x]
      /\ task'[r].pc \in {"reporting", "closing", "done"} /\ task'[r].owner = task[r].owner
  <2>1. CASE TaskCompletes(r)
    <3>1. PICK v \in Over : task' = [task EXCEPT ![r].pc = "reporting", ![r].verdict = v]
      BY <2>1 DEF TaskCompletes
    <3>. QED
      BY <1>3, <3>1 DEF TasksOK, Task
  <2>2. CASE TaskEnds(r)
    BY <1>3, <2>2 DEF TaskEnds, TaskClears, SlotCloses, TasksOK, Task
  <2>. QED
    BY <2>1, <2>2
<1>5. TasksOK'
  BY <1>3, <1>4 DEF TasksOK
<1>6. StartsOK'
  BY <1>1, <1>3, <1>4 DEF StartsOK, Starting, ReqsOK, ReqOK
<1>7. \A x \in Runs : task'[x].pc \in {"none", "admitted", "body"} =>
        task[x].pc \in {"none", "admitted", "body"} /\ x # r
  BY <1>4
<1>8. JobsOK' /\ EmissionsOK'
  <2>1. CASE TaskCompletes(r)
    <3>0. PICK v \in Over : /\ Completed(r, task[r].owner, v)
                           /\ task' = [task EXCEPT ![r].pc = "reporting", ![r].verdict = v]
      BY <2>1 DEF TaskCompletes
    <3>1. Completed(r, task[r].owner, v) /\ task'[r].pc = "reporting"
      BY <1>3, <3>0 DEF TasksOK, Task
    <3>2. slot' = slot /\ Quiet(r)
      BY <2>1 DEF TaskCompletes, EmissionsOK
    <3>3. /\ JobsOK' /\ Owed(job'[task[r].owner]) \in Seq(Call)
          /\ emission' = [emission EXCEPT ![r].queue = Owed(job'[task[r].owner])]
      BY <1>3, <3>1, <3>2, CompletedTypes
    <3>. DEFINE q == Owed(job'[task[r].owner])
    <3>. HIDE DEF q
    <3>4. /\ emission' \in [Actors -> Emission]
          /\ emission'[r].queue = q /\ emission'[r].pc = emission[r].pc
          /\ \A x \in Actors : x # r => emission'[x] = emission[x]
      BY <3>3, QueueWrites DEF q, EmissionsOK
    <3>5. emission[r].pc = "idle"
      BY <3>2, QuietIsIdle
    <3>6. EmissionsOK'
      BY <1>7, <3>1, <3>4, <3>5, EmissionsKeep
    <3>. QED
      BY <3>3, <3>6
  <2>2. CASE TaskEnds(r)
    <3>1. emission' = emission
      BY <2>2 DEF TaskEnds, TaskClears, SlotCloses
    <3>2. EmissionsOK'
      BY <1>7, <3>1 DEF EmissionsOK, Quiet
    <3>3. JobsOK'
      <4>1. CASE TaskClears(r)
        <5>1. /\ job' = [job EXCEPT ![task[r].owner] = IF @.disconnected THEN NoJob ELSE @]
              /\ slot' = slot
          BY <4>1 DEF TaskClears
        <5>2. NoJob \in Job /\ NoJob.cancels = <<>>
          BY NoJobTyped DEF NoJob
        <5>. QED
          BY <1>3, <5>1, <5>2, CommandsAssumption DEF JobsOK
      <4>2. CASE SlotCloses(r)
        BY <4>2 DEF SlotCloses, JobsOK
      <4>. QED
        BY <2>2, <4>1, <4>2 DEF TaskEnds
    <3>. QED
      BY <3>2, <3>3
  <2>. QED
    BY <2>1, <2>2
<1>. QED
  BY <1>2, <1>5, <1>6, <1>8

LEMMA CancelTypes ==
  ASSUME TypesInv, NEW h \in Threads,
         CancelSelects(h) \/ CancelReads(h) \/ CancelUpdates(h) \/ CancelSignals(h) \/ CancelReports(h)
  PROVE  TypesInv'
<1>. USE Constants DEF TypesInv
<1>1. UNCHANGED <<durable, sockets, slot, task, lock, inbox, stray, counts>> /\ Quiet(h)
      /\ req[h].pc \in {"act", "selected", "read", "updated", "cancelled"}
  BY DEF CancelSelects, CancelReads, CancelUpdates, CancelSignals, CancelReports, Performs, At, scans,
     history
<1>2. RowsOK' /\ SocketsOK' /\ TasksOK' /\ conn' = conn
  BY <1>1, RestKeeps DEF sockets
<1>3. req[h] \in Req /\ ReqOK(req[h]) /\ req[h].sid \in Bridges /\ req[h].cmd \in Commands
  BY <1>1 DEF ReqsOK, ReqOK
<1>4. CASE CancelSelects(h)
  <2>1. CountsOK' /\ UNCHANGED <<job, emission>>
    BY <1>4, PerformsTypes DEF CancelSelects, scans
  <2>2. PICK o \in Bridges : req' = [req EXCEPT ![h].pc = "selected", ![h].owner = o]
    BY <1>3, <1>4 DEF CancelSelects, Candidates, JobsOK
  <2>3. ReqsOK' /\ StartsOK'
    <3>. DEFINE q == [req[h] EXCEPT !.pc = "selected", !.owner = o]
    <3>1. q \in Req /\ ReqOK(q) /\ q.pc = "selected"
      BY <1>1, <1>3 DEF Req, ReqOK
    <3>2. req' = [req EXCEPT ![h] = q]
      BY <2>2
    <3>. HIDE DEF q
    <3>. QED
      BY <1>1, <1>2, <3>1, <3>2, RequestWrites, RequestGone
  <2>. QED
    BY <1>1, <1>2, <2>1, <2>3, RestKeeps
<1>5. CASE CancelReads(h)
  <2>1. CountsOK' /\ JobsOK' /\ req[h].pc = "selected" /\ req[h].owner \in Bridges
    BY <1>1, <1>3, <1>5, RestKeeps DEF CancelReads, scans, history, At, ReqOK
  <2>2. CASE \E status \in {"succeeded", "failed"} : Answers(h, status)
    <3>1. EmissionsOK' /\ ReqsOK' /\ StartsOK'
      BY <1>1, <1>2, <2>1, <2>2, AnswersTypes
    <3>. QED
      BY <1>2, <2>1, <3>1
  <2>3. CASE ~\E status \in {"succeeded", "failed"} : Answers(h, status)
    <3>. DEFINE current == job[req[h].owner]
                ids == Append(current.cancels, [cmd |-> req[h].cmd, named |-> Named(req[h].sid)])
    <3>1. /\ req' = [req EXCEPT ![h].pc = "read", ![h].ids = ids] /\ emission' = emission
          /\ ~(Len(current.cancels) >= CancelLimit)
      BY <1>5, <2>3 DEF CancelReads
    <3>2. ids \in Seq(Entry) /\ Len(ids) <= CancelLimit
      <4>1. [cmd |-> req[h].cmd, named |-> Named(req[h].sid)] \in Entry
        BY <1>3 DEF Entry, Named
      <4>2. current.cancels \in Seq(Entry) /\ CancelLimit \in Nat
        BY <2>1, CommandsAssumption DEF JobsOK, Job
      <4>. QED
        BY <3>1, <4>1, <4>2
    <3>. HIDE DEF ids
    <3>. DEFINE q == [req[h] EXCEPT !.pc = "read", !.ids = ids]
    <3>3. q \in Req /\ ReqOK(q) /\ q.pc = "read"
      BY <1>3, <2>1, <3>2 DEF Req, ReqOK
    <3>4. req' = [req EXCEPT ![h] = q]
      BY <3>1
    <3>. HIDE DEF q
    <3>5. ReqsOK' /\ StartsOK'
      BY <1>1, <1>2, <3>3, <3>4, RequestWrites, RequestGone
    <3>. QED
      BY <1>1, <1>2, <2>1, <3>1, <3>5, RestKeeps
  <2>. QED
    BY <2>2, <2>3
<1>6. CASE CancelUpdates(h) \/ CancelSignals(h)
  <2>1. CountsOK' /\ req[h].pc \in {"read", "updated"} /\ req[h].owner \in Bridges
        /\ UNCHANGED <<emission, task>>
    BY <1>1, <1>3, <1>6, RestKeeps DEF CancelUpdates, CancelSignals, history, At, ReqOK
  <2>2. EmissionsOK'
    BY <2>1, RestKeeps
  <2>3. ReqsOK' /\ StartsOK'
    <3>1. PICK pc \in {"updated", "cancelled"} : req' = [req EXCEPT ![h].pc = pc]
      BY <1>6 DEF CancelUpdates, CancelSignals
    <3>. DEFINE q == [req[h] EXCEPT !.pc = pc]
    <3>2. q \in Req /\ ReqOK(q) /\ q.pc \in {"updated", "cancelled"}
      BY <1>3, <2>1 DEF Req, ReqOK
    <3>3. req' = [req EXCEPT ![h] = q]
      BY <3>1
    <3>. HIDE DEF q
    <3>. QED
      BY <1>1, <1>2, <3>2, <3>3, RequestWrites, RequestGone
  <2>4. JobsOK'
    <3>. DEFINE o == req[h].owner
    <3>1. o \in Bridges /\ job \in [Bridges -> Job] /\ job[o] \in Job /\ Len(job[o].cancels) <= CancelLimit
          /\ req[h].ids \in Seq(Entry) /\ Len(req[h].ids) <= CancelLimit
      BY <1>3, <2>1 DEF JobsOK, Req, ReqOK
    <3>. HIDE DEF o
    <3>2. CASE \E ids \in Seq(Entry) : Len(ids) <= CancelLimit /\ job' = [job EXCEPT ![o].cancels = ids]
      <4>1. PICK ids \in Seq(Entry) : Len(ids) <= CancelLimit /\ job' = [job EXCEPT ![o].cancels = ids]
        BY <3>2
      <4>2. [job[o] EXCEPT !.cancels = ids] \in Job /\ [job[o] EXCEPT !.cancels = ids].cancels = ids
        BY <3>1 DEF Job
      <4>. QED
        BY <1>1, <3>1, <4>1, <4>2 DEF JobsOK
    <3>3. CASE \E status \in {"cancelling", job[o].status} : job' = [job EXCEPT ![o].status = status]
      <4>1. PICK status \in {"cancelling", job[o].status} : job' = [job EXCEPT ![o].status = status]
        BY <3>3
      <4>2. [job[o] EXCEPT !.status = status] \in Job
            /\ [job[o] EXCEPT !.status = status].cancels = job[o].cancels
        BY <3>1 DEF Job
      <4>. QED
        BY <1>1, <3>1, <4>1, <4>2 DEF JobsOK
    <3>4. CASE CancelUpdates(h)
      <4>1. job' = [job EXCEPT ![o].cancels = IF job[o].status = "none" THEN job[o].cancels ELSE req[h].ids]
        BY <3>4 DEF CancelUpdates, o
      <4>2. job[o].cancels \in Seq(Entry)
        BY <3>1 DEF Job
      <4>. QED
        BY <3>1, <3>2, <4>1, <4>2
    <3>5. CASE CancelSignals(h)
      <4>1. PICK expected \in BOOLEAN :
              job' = [job EXCEPT ![o].status = IF job[o].status = "running" /\ expected THEN "cancelling"
                                               ELSE job[o].status]
        BY <3>5 DEF CancelSignals, o
      <4>. QED
        BY <3>3, <4>1
    <3>. QED
      BY <1>6, <3>4, <3>5
  <2>. QED
    BY <1>2, <2>1, <2>2, <2>3, <2>4
<1>7. CASE CancelReports(h)
  <2>1. /\ CountsOK' /\ JobsOK' /\ req' = [req EXCEPT ![h] = NoReq]
        /\ emission' = [emission EXCEPT ![h].queue = Owed(job[req[h].owner])]
        /\ req[h].owner \in Bridges
    BY <1>1, <1>3, <1>7, RestKeeps DEF CancelReports, scans, history, At, ReqOK
  <2>2. Owed(job[req[h].owner]) \in Seq(Call)
    BY <2>1, OwedCalls DEF JobsOK
  <2>3. EmissionsOK'
    BY <1>1, <2>1, <2>2, ThreadQueues
  <2>4. ReqsOK' /\ StartsOK'
    <3>1. NoReq.pc = "idle"
      BY DEF NoReq
    <3>. QED
      BY <1>1, <1>2, <2>1, <3>1, RequestEnds, RequestGone
  <2>. QED
    BY <1>2, <2>1, <2>3, <2>4
<1>. QED
  BY <1>4, <1>5, <1>6, <1>7

LEMMA HandleTypes ==
  ASSUME TypesInv, NEW h \in Threads, Handle(h)
  PROVE  TypesInv'
BY BeginTypes, RefusedTypes, AdmittedTypes, LaterStartTypes, CancelTypes DEF Handle

LEMMA ConnectTypes ==
  ASSUME TypesInv, NEW s \in Bridges, Connects(s) \/ Connect(s) \/ Disconnects(s)
  PROVE  TypesInv'
<1>. USE Constants DEF TypesInv
<1>1. UNCHANGED <<durable, slot, task, req, lock, ran, stray, counts>>
  BY DEF Connects, Connect, ConnectLists, ConnectRecovers, ConnectReplays, ConnectEnds, Disconnects,
     scans, history
<1>2. RowsOK' /\ TasksOK' /\ StartsOK' /\ CountsOK'
  BY <1>1, RestKeeps
<1>3. /\ conn' \in [Bridges -> {"out", "listing", "replaying", "in", "gone"}]
      /\ \A x \in Bridges : conn[x] # "out" => conn'[x] # "out"
  BY DEF Connects, Connect, ConnectLists, ConnectRecovers, ConnectReplays, ConnectEnds, Disconnects,
     SocketsOK
<1>4. ReqsOK'
  BY <1>1, <1>3 DEF ReqsOK, ReqOK
<1>5. JobsOK'
  <2>1. CASE UNCHANGED job
    BY <1>1, <2>1 DEF JobsOK
  <2>2. CASE Disconnects(s)
    <3>1. job' = [job EXCEPT ![s] = IF Active(s) THEN [@ EXCEPT !.disconnected = TRUE] ELSE NoJob]
      BY <2>2 DEF Disconnects
    <3>2. [job[s] EXCEPT !.disconnected = TRUE] \in Job
          /\ [job[s] EXCEPT !.disconnected = TRUE].cancels = job[s].cancels
      BY DEF JobsOK, Job
    <3>3. NoJob \in Job /\ NoJob.cancels = <<>>
      BY NoJobTyped DEF NoJob
    <3>. QED
      BY <1>1, <3>1, <3>2, <3>3, CommandsAssumption DEF JobsOK
  <2>. QED
    BY <2>1, <2>2 DEF Connects, Connect, ConnectLists, ConnectRecovers, ConnectReplays, ConnectEnds,
       scans
<1>6. EmissionsOK'
  <2>1. CASE UNCHANGED emission
    BY <1>1, <2>1, RestKeeps
  <2>2. CASE ConnectRecovers(s)
    <3>1. PICK l \in listed[s] : Emits(s, l.cmd, "failed", TRUE)
      BY <2>2 DEF ConnectRecovers
    <3>2. Quiet(s)
      BY <2>2 DEF ConnectRecovers
    <3>. DEFINE q == Append(emission[s].queue, Result(l.cmd, "failed", TRUE))
    <3>3. q \in Seq(Call)
      <4>1. Result(l.cmd, "failed", TRUE) \in Call
        BY DEF Result, Call, SocketsOK
      <4>. QED
        BY <4>1, CallQueue, QuietIsIdle
    <3>4. emission' = [emission EXCEPT ![s].queue = q]
      BY <3>1 DEF Emits
    <3>. HIDE DEF q
    <3>5. /\ emission' \in [Actors -> Emission] /\ emission'[s].pc = emission[s].pc
          /\ \A x \in Actors : x # s => emission'[x] = emission[x]
      BY <3>3, <3>4, QueueWrites DEF EmissionsOK
    <3>6. emission[s].pc = "idle" /\ s \notin Runs /\ task' = task
      BY <1>1, <3>2, QuietIsIdle
    <3>. QED
      BY <3>5, <3>6, EmissionsKeep
  <2>. QED
    BY <2>1, <2>2 DEF Connects, Connect, ConnectLists, ConnectReplays, ConnectEnds, Disconnects
<1>7. SocketsOK'
  <2>1. CASE Connects(s) \/ ConnectEnds(s) \/ Disconnects(s)
    BY <1>3, <2>1 DEF Connects, ConnectEnds, Disconnects, SocketsOK, history
  <2>2. CASE ConnectLists(s)
    <3>1. {[cmd |-> c, status |-> row[c]] : c \in {x \in Commands : row[x] # "none"}}
            \in SUBSET [cmd : Commands, status : {"running", "interrupted"} \union Terminal]
      BY DEF RowsOK
    <3>. QED
      BY <1>3, <2>2, <3>1 DEF ConnectLists, SocketsOK, history
  <2>3. CASE ConnectRecovers(s)
    <3>1. PICK l \in listed[s] :
            listed' = [listed EXCEPT ![s] = (@ \ {l}) \union {[l EXCEPT !.status = "failed"]}]
      BY <2>3 DEF ConnectRecovers
    <3>2. [l EXCEPT !.status = "failed"] \in
             [cmd : Commands, status : {"running", "interrupted"} \union Terminal]
      BY DEF SocketsOK, Terminal
    <3>3. (listed[s] \ {l}) \union {[l EXCEPT !.status = "failed"]} \in
             SUBSET [cmd : Commands, status : {"running", "interrupted"} \union Terminal]
      BY <3>2 DEF SocketsOK
    <3>4. bridges' = bridges /\ conn' = conn /\ inbox' = inbox
      BY <2>3 DEF ConnectRecovers, history
    <3>. QED
      BY <3>1, <3>3, <3>4 DEF SocketsOK
  <2>4. CASE ConnectReplays(s)
    <3>1. PICK l \in listed[s] :
            /\ inbox' = [inbox EXCEPT ![s] = IF Named(s) THEN @ \union Evidence(l.cmd) ELSE @]
            /\ listed' = [listed EXCEPT ![s] = @ \ {l}]
      BY <2>4 DEF ConnectReplays
    <3>2. l.cmd \in Commands
      BY DEF SocketsOK
    <3>3. Evidence(l.cmd) \subseteq Receipt
      BY <3>2 DEF Evidence, Receipt, RowsOK, Statuses
    <3>4. bridges' = bridges /\ conn' = conn
      BY <2>4 DEF ConnectReplays
    <3>. QED
      BY <3>1, <3>3, <3>4 DEF SocketsOK
  <2>. QED
    BY <2>1, <2>2, <2>3, <2>4 DEF Connect
<1>. QED
  BY <1>2, <1>4, <1>5, <1>6, <1>7

LEMMA RestartsTypes ==
  ASSUME TypesInv, Restarts
  PROVE  TypesInv'
<1>. USE Constants, CommandsAssumption DEF TypesInv, Restarts
<1>1. RowsOK'
  BY DEF RowsOK, Reconciled
<1>2. SocketsOK'
  BY DEF SocketsOK
<1>3. JobsOK'
  BY NoJobTyped DEF JobsOK, NoJob
<1>4. TasksOK'
  <2>1. NoTask \in Task /\ NoTask.pc = "none"
    BY DEF NoTask, Task, Nobody
  <2>. QED
    BY <2>1 DEF TasksOK, Task
<1>5. ReqsOK'
  BY NoReqTyped DEF ReqsOK, ReqOK, NoReq
<1>6. StartsOK'
  BY DEF StartsOK, Starting, NoReq
<1>7. EmissionsOK'
  BY DEF EmissionsOK, Emission, NotEmitting, Quiet
<1>8. CountsOK'
  BY DEF CountsOK
<1>. QED
  BY <1>1, <1>2, <1>3, <1>4, <1>5, <1>6, <1>7, <1>8

LEMMA StepTypes ==
  ASSUME TypesInv, [Next]_vars
  PROVE  TypesInv'
<1>1. CASE UNCHANGED vars
  BY <1>1, RestKeeps DEF TypesInv, vars, durable, sockets, scans, history
<1>2. CASE Next
  BY <1>2, EmitTypes, HandleTypes, ArrivesTypes, TaskTypes, ConnectTypes, RestartsTypes DEF Next
<1>. QED
  BY <1>1, <1>2

THEOREM TypesInvariant == Spec => []TypesInv
<1>1. TypesInv /\ [Next]_vars => TypesInv'
  BY StepTypes
<1>. QED
  BY InitTypes, <1>1, PTL DEF Spec

\* Every field keeps its type, a row holds the registry's statuses and never the protocol's
\* (daedalus_commands.py:48), and no job has more pending cancellations than the limit.
THEOREM CommandsTyped == Spec => []CommandsTypeOK
<1>1. TypesInv => CommandsTypeOK
  BY DEF TypesInv, RowsOK, SocketsOK, JobsOK, TasksOK, ReqsOK, EmissionsOK, CountsOK, CommandsTypeOK,
     Statuses
<1>. QED
  BY <1>1, TypesInvariant, PTL

-----------------------------------------------------------------------------
(* The ledger.  A row and its receipts agree, and what is about to be said  *)
(* agrees with the row: only begin_command says "accepted", of a command    *)
(* without a row, and everybody else answers commands that have one.        *)

Booked(c) ==
  \/ row[c] = "none" /\ receipts[c] = <<>>
  \/ row[c] \in {"running", "interrupted"} /\ receipts[c] = <<"accepted">>
  \/ row[c] = "completed" /\ receipts[c] = <<"accepted", "succeeded">>
  \/ row[c] = "failed" /\ receipts[c] = <<"accepted", "failed">>

RowsAreBooked == \A c \in Commands : Booked(c)

\* Named entries are of commands on record.
OnRecord(entries) == \A i \in DOMAIN entries : entries[i].named => row[entries[i].cmd] # "none"

Answer(call) == call.status # "accepted" /\ (call.named => row[call.cmd] # "none")

QueueOK(a) ==
  /\ \A i \in DOMAIN emission[a].queue :
       Answer(emission[a].queue[i]) \/ (i = 1 /\ emission[a].pc # "idle")
  /\ emission[a].pc # "idle" => emission[a].queue[1].named
  /\ emission[a].pc = "recording" =>
       IF emission[a].queue[1].status = "accepted" THEN row[emission[a].queue[1].cmd] = "none"
       ELSE row[emission[a].queue[1].cmd] \in {"running", "interrupted"}

QueuesOK == \A a \in Actors : QueueOK(a)

EntriesOnRecord ==
  /\ \A s \in Bridges : OnRecord(job[s].start) /\ OnRecord(job[s].cancels)
  /\ \A h \in Threads : OnRecord(req[h].ids)
  /\ \A s \in Bridges : \A l \in listed[s] : row[l.cmd] # "none"

\* While its bridge is there, a command that is being handled is on record, or will be
\* before its handler goes on.
RequestsOnRecord ==
  \A h \in Threads :
    req[h].pc \notin {"idle", "begin"} /\ req[h].sid \in bridges =>
      row[req[h].cmd] # "none" \/ Accepting(h, req[h].cmd)

LedgerInv == RowsAreBooked /\ QueuesOK /\ EntriesOnRecord /\ RequestsOnRecord

LEMMA InitLedger == Init => LedgerInv
<1>. SUFFICES ASSUME Init PROVE LedgerInv
  OBVIOUS
<1>1. RowsAreBooked
  BY DEF Init, RowsAreBooked, Booked
<1>2. QueuesOK
  BY DEF Init, QueuesOK, QueueOK, NotEmitting
<1>3. EntriesOnRecord
  BY DEF Init, EntriesOnRecord, OnRecord, NoJob, NoReq
<1>4. RequestsOnRecord
  BY DEF Init, RequestsOnRecord, NoReq
<1>. QED
  BY <1>1, <1>2, <1>3, <1>4 DEF LedgerInv

\* Only two kinds of step write rows.
LEMMA RowSteps ==
  ASSUME [Next]_vars
  PROVE  UNCHANGED durable \/ Restarts \/ \E a \in Actors : EmitRecords(a)
<1>1. \A a \in Actors : Emit(a) => UNCHANGED durable \/ EmitRecords(a)
  BY DEF Emit, EmitDrops, EmitReads, EmitSends
<1>2. \A h \in Threads : Handle(h) => UNCHANGED durable
  BY DEF Handle, BeginReplays, BeginAccepts, BeginUnnamed, StartRefused, StartAdmitted, StartOpens,
     StartScheduled, StartUnschedulable, CancelSelects, CancelReads, CancelUpdates, CancelSignals,
     CancelReports, CheckAnswers
<1>3. \A h \in Threads, s \in Bridges, c \in Commands : Arrives(h, s, c) => UNCHANGED durable
  BY DEF Arrives
<1>4. \A r \in Runs : TaskCompletes(r) \/ TaskEnds(r) => UNCHANGED durable
  BY DEF TaskCompletes, TaskEnds, TaskClears, SlotCloses
<1>5. \A s \in Bridges : Connects(s) \/ Connect(s) \/ Disconnects(s) => UNCHANGED durable
  BY DEF Connects, Connect, ConnectLists, ConnectRecovers, ConnectReplays, ConnectEnds, Disconnects
<1>6. UNCHANGED vars => UNCHANGED durable
  BY DEF vars
<1>. QED
  BY <1>1, <1>2, <1>3, <1>4, <1>5, <1>6 DEF Next

\* What one actor is recording.
LEMMA Recording ==
  ASSUME TypesInv, NEW a \in Actors, EmitRecords(a)
  PROVE  \E c \in Call :
           /\ emission[a].queue \in Seq(Call) /\ emission[a].queue # <<>>
           /\ c = emission[a].queue[1] /\ c = Head(emission[a].queue)
           /\ row' = [row EXCEPT ![c.cmd] = RowStatus(c.status)]
           /\ receipts' = [receipts EXCEPT ![c.cmd] = Append(receipts[c.cmd], c.status)]
<1>1. emission[a].queue \in Seq(Call) /\ emission[a].queue # <<>>
  BY DEF TypesInv, EmissionsOK, Emission, EmitRecords, Quiet
<1>2. Head(emission[a].queue) \in Call /\ Head(emission[a].queue) = emission[a].queue[1]
  BY <1>1, CallQueue
<1>. DEFINE c == Head(emission[a].queue)
<1>3. /\ row' = [row EXCEPT ![c.cmd] = RowStatus(c.status)]
      /\ receipts' = [receipts EXCEPT ![c.cmd] = Append(receipts[c.cmd], c.status)]
  BY DEF EmitRecords
<1>. QED
  BY <1>1, <1>2, <1>3

\* A command on record stays on record.
LEMMA RowsStay ==
  ASSUME TypesInv, [Next]_vars, NEW c \in Commands, row[c] # "none"
  PROVE  row'[c] # "none"
<1>1. CASE UNCHANGED durable
  BY <1>1 DEF durable
<1>2. CASE Restarts
  BY <1>2 DEF Restarts, Reconciled
<1>3. CASE \E a \in Actors : EmitRecords(a)
  <2>1. PICK a \in Actors : EmitRecords(a)
    BY <1>3
  <2>2. PICK d : row' = [row EXCEPT ![d.cmd] = RowStatus(d.status)]
    BY <2>1, Recording
  <2>. QED
    BY <2>2, RowStatusIsKnown DEF TypesInv, RowsOK, Terminal
<1>. QED
  BY <1>1, <1>2, <1>3, RowSteps

LEMMA AppendedPair ==
  ASSUME NEW S, NEW x \in S, NEW y \in S
  PROVE  Append(<<x>>, y) = <<x, y>>
<1>1. Append(<<x>>, y) \in Seq(S) /\ <<x, y>> \in Seq(S)
  OBVIOUS
<1>2. Len(Append(<<x>>, y)) = 2 /\ Len(<<x, y>>) = 2
  OBVIOUS
<1>3. \A i \in 1..2 : Append(<<x>>, y)[i] = <<x, y>>[i]
  OBVIOUS
<1>. QED
  BY <1>1, <1>2, <1>3, SeqEqual

LEMMA SettledPairs ==
  /\ Append(<<"accepted">>, "succeeded") = <<"accepted", "succeeded">>
  /\ Append(<<"accepted">>, "failed") = <<"accepted", "failed">>
<1>1. "accepted" \in Statuses /\ "succeeded" \in Statuses /\ "failed" \in Statuses
  BY DEF Statuses
<1>. QED
  BY <1>1, AppendedPair

LEMMA BookingStep ==
  ASSUME TypesInv, LedgerInv, [Next]_vars
  PROVE  RowsAreBooked'
<1>1. CASE UNCHANGED durable
  BY <1>1 DEF LedgerInv, RowsAreBooked, Booked, durable
<1>2. CASE Restarts
  BY <1>2 DEF LedgerInv, RowsAreBooked, Booked, Restarts, Reconciled
<1>3. CASE \E a \in Actors : EmitRecords(a)
  <2>1. PICK a \in Actors : EmitRecords(a)
    BY <1>3
  <2>2. PICK c \in Call :
           /\ c = emission[a].queue[1]
           /\ row' = [row EXCEPT ![c.cmd] = RowStatus(c.status)]
           /\ receipts' = [receipts EXCEPT ![c.cmd] = Append(receipts[c.cmd], c.status)]
    BY <2>1, Recording
  <2>3. IF c.status = "accepted" THEN row[c.cmd] = "none" ELSE row[c.cmd] \in {"running", "interrupted"}
    BY <2>1, <2>2 DEF LedgerInv, QueuesOK, QueueOK, EmitRecords
  <2>4. c.cmd \in Commands /\ c.status \in Statuses /\ Booked(c.cmd)
    BY DEF Call, Statuses, LedgerInv, RowsAreBooked
  <2>5. /\ row'[c.cmd] = RowStatus(c.status) /\ receipts'[c.cmd] = Append(receipts[c.cmd], c.status)
        /\ \A d \in Commands : d # c.cmd => row'[d] = row[d] /\ receipts'[d] = receipts[d]
    BY <2>2, <2>4 DEF TypesInv, RowsOK
  <2>6. Booked(c.cmd)'
    <3>1. CASE c.status = "accepted"
      <4>1. receipts[c.cmd] = <<>> /\ RowStatus(c.status) = "running"
        BY <2>3, <2>4, <3>1 DEF Booked, RowStatus
      <4>2. receipts'[c.cmd] = <<"accepted">>
        BY <2>5, <3>1, <4>1
      <4>. QED
        BY <2>5, <4>1, <4>2 DEF Booked
    <3>2. CASE c.status = "succeeded"
      <4>1. receipts[c.cmd] = <<"accepted">> /\ RowStatus(c.status) = "completed"
        BY <2>3, <2>4, <3>2 DEF Booked, RowStatus
      <4>2. receipts'[c.cmd] = <<"accepted", "succeeded">>
        BY <2>5, <3>2, <4>1, SettledPairs
      <4>. QED
        BY <2>5, <4>1, <4>2 DEF Booked
    <3>3. CASE c.status = "failed"
      <4>1. receipts[c.cmd] = <<"accepted">> /\ RowStatus(c.status) = "failed"
        BY <2>3, <2>4, <3>3 DEF Booked, RowStatus
      <4>2. receipts'[c.cmd] = <<"accepted", "failed">>
        BY <2>5, <3>3, <4>1, SettledPairs
      <4>. QED
        BY <2>5, <4>1, <4>2 DEF Booked
    <3>. QED
      BY <2>4, <3>1, <3>2, <3>3 DEF Statuses
  <2>7. \A d \in Commands : d # c.cmd => Booked(d)'
    BY <2>5 DEF LedgerInv, RowsAreBooked, Booked
  <2>. QED
    BY <2>6, <2>7 DEF RowsAreBooked
<1>. QED
  BY <1>1, <1>2, <1>3, RowSteps

\* An actor outside the section changes its queue to answers only.
LEMMA AnswersKeep ==
  ASSUME LedgerInv, row' = row, NEW a \in Actors, emission'[a].pc = "idle",
         \A x \in Actors : x # a => emission'[x] = emission[x],
         \A i \in DOMAIN emission'[a].queue : Answer(emission'[a].queue[i])
  PROVE  QueuesOK'
<1>1. ASSUME NEW x \in Actors, x # a
      PROVE  QueueOK(x)'
  <2>1. emission'[x] = emission[x] /\ QueueOK(x)
    BY <1>1 DEF LedgerInv, QueuesOK
  <2>. QED
    BY <2>1 DEF QueueOK, Answer
<1>2. QueueOK(a)'
  BY DEF QueueOK, Answer
<1>. QED
  BY <1>1, <1>2 DEF QueuesOK

LEMMA TailQueue ==
  ASSUME NEW q \in Seq(Call), q # <<>>
  PROVE  \A i \in DOMAIN Tail(q) : i + 1 \in DOMAIN q /\ Tail(q)[i] = q[i + 1] /\ i + 1 # 1
<1>1. /\ Tail(q) \in Seq(Call) /\ Len(Tail(q)) = Len(q) - 1
      /\ \A i \in 1..Len(Tail(q)) : Tail(q)[i] = q[i + 1]
  BY HeadTailProperties, Zenon
<1>2. Len(q) \in Nat /\ DOMAIN q = 1..Len(q) /\ DOMAIN Tail(q) = 1..Len(Tail(q))
  BY <1>1
<1>. QED
  BY <1>1, <1>2

LEMMA EmitQueues ==
  ASSUME TypesInv, CommandsInv, LedgerInv, NEW a \in Actors, Emit(a)
  PROVE  QueuesOK'
<1>. DEFINE q == emission[a].queue
<1>. USE DEF TypesInv
<1>1. /\ q \in Seq(Call) /\ q # <<>> /\ Head(q) = q[1] /\ q[1] \in Call /\ Tail(q) \in Seq(Call)
      /\ 1 \in DOMAIN q /\ emission \in [Actors -> Emission]
  <2>1. q \in Seq(Call) /\ emission \in [Actors -> Emission]
    BY DEF EmissionsOK, Emission
  <2>2. q # <<>>
    BY DEF Emit, EmitDrops, EmitReads, EmitRecords, EmitSends, EmissionsOK, Quiet
  <2>. QED
    BY <2>1, <2>2, CallQueue
<1>2. QueueOK(a)
  BY DEF LedgerInv, QueuesOK
<1>3. \A i \in DOMAIN Tail(q) : Answer(Tail(q)[i])
  BY <1>1, <1>2, TailQueue DEF QueueOK
<1>4. CASE emission[a].pc = "idle" /\ emission' = [emission EXCEPT ![a].queue = Tail(q)] /\ row' = row
  <2>1. /\ emission'[a].queue = Tail(q) /\ emission'[a].pc = "idle"
        /\ \A x \in Actors : x # a => emission'[x] = emission[x]
    BY <1>1, <1>4, QueueWrites
  <2>. HIDE DEF q
  <2>. QED
    BY <1>3, <1>4, <2>1, AnswersKeep
<1>5. CASE EmitReads(a) /\ ~Saved(Head(q).cmd)
  <2>1. /\ emission' = [emission EXCEPT ![a].pc = "recording"] /\ row' = row
        /\ emission[a].pc = "idle" /\ q[1].named
    BY <1>1, <1>5 DEF EmitReads, durable
  <2>2. /\ emission'[a].queue = q /\ emission'[a].pc = "recording"
        /\ \A x \in Actors : x # a => emission'[x] = emission[x]
    BY <1>1, <2>1, PcWrites
  <2>3. Answer(q[1])
    BY <1>1, <1>2, <2>1 DEF QueueOK
  <2>4. row[q[1].cmd] \in {"running", "interrupted"}
    <3>1. q[1].cmd \in Commands
      BY <1>1 DEF Call
    <3>. QED
      BY <1>1, <1>5, <2>1, <2>3, <3>1 DEF Answer, Saved, RowsOK
  <2>5. QueueOK(a)'
    BY <1>2, <2>1, <2>2, <2>3, <2>4 DEF QueueOK, Answer
  <2>6. ASSUME NEW x \in Actors, x # a
        PROVE  QueueOK(x)'
    <3>1. emission'[x] = emission[x] /\ QueueOK(x)
      BY <2>2, <2>6 DEF LedgerInv, QueuesOK
    <3>. QED
      BY <2>1, <3>1 DEF QueueOK, Answer
  <2>. QED
    BY <2>5, <2>6 DEF QueuesOK
<1>6. CASE EmitRecords(a)
  <2>1. /\ emission' = [emission EXCEPT ![a].pc = "sending"] /\ lock = a /\ emission[a].pc = "recording"
    BY <1>6 DEF EmitRecords, CommandsInv, SectionHeld
  <2>2. /\ emission'[a].queue = q /\ emission'[a].pc = "sending"
        /\ \A x \in Actors : x # a => emission'[x] = emission[x]
    BY <1>1, <2>1, PcWrites
  <2>3. PICK c \in Call : row' = [row EXCEPT ![c.cmd] = RowStatus(c.status)]
    BY <1>6, Recording
  <2>4. \A d \in Commands : row[d] # "none" => row'[d] # "none"
    BY <2>3, RowStatusIsKnown DEF RowsOK, Terminal
  <2>5. \A d \in Call : Answer(d) => Answer(d)'
    BY <2>4 DEF Answer, Call
  <2>6. \A x \in Actors : \A i \in DOMAIN emission[x].queue : emission[x].queue[i] \in Call
    BY <1>1 DEF Emission
  <2>7. QueueOK(a)'
    BY <1>2, <2>1, <2>2, <2>5, <2>6 DEF QueueOK
  <2>8. ASSUME NEW x \in Actors, x # a
        PROVE  QueueOK(x)'
    <3>1. emission'[x] = emission[x] /\ QueueOK(x) /\ emission[x].pc # "recording"
      BY <2>1, <2>2, <2>8 DEF LedgerInv, QueuesOK, CommandsInv, SectionHeld
    <3>. QED
      BY <2>5, <2>6, <3>1 DEF QueueOK
  <2>. QED
    BY <2>7, <2>8 DEF QueuesOK
<1>7. CASE EmitSends(a)
  <2>. DEFINE e == [pc |-> "idle", queue |-> Tail(q)]
  <2>1. e \in Emission /\ e.pc = "idle" /\ e.queue = Tail(q)
    BY <1>1 DEF Emission
  <2>2. emission' = [emission EXCEPT ![a] = e] /\ row' = row
    BY <1>7 DEF EmitSends, durable
  <2>. HIDE DEF e
  <2>3. emission'[a] = e /\ \A x \in Actors : x # a => emission'[x] = emission[x]
    BY <1>1, <2>1, <2>2, SectionWrites
  <2>. HIDE DEF q
  <2>. QED
    BY <1>3, <2>1, <2>2, <2>3, AnswersKeep
<1>8. CASE EmitDrops(a) \/ (EmitReads(a) /\ Saved(Head(q).cmd))
  <2>1. emission[a].pc = "idle" /\ emission' = [emission EXCEPT ![a].queue = Tail(q)] /\ row' = row
    <3>1. CASE EmitDrops(a)
      BY <3>1 DEF EmitDrops, durable
    <3>2. CASE EmitReads(a) /\ Saved(Head(q).cmd)
      BY <3>2 DEF EmitReads, durable
    <3>. QED
      BY <1>8, <3>1, <3>2
  <2>. QED
    BY <1>4, <2>1
<1>. QED
  BY <1>5, <1>6, <1>7, <1>8 DEF Emit

\* The receipts a finished job owes answer commands on record.
LEMMA OwedAnswers ==
  ASSUME NEW j \in Job, OnRecord(j.start), OnRecord(j.cancels)
  PROVE  \A i \in DOMAIN Owed(j) : Answer(Owed(j)[i])
<1>. SUFFICES ASSUME NEW i \in DOMAIN Owed(j)
              PROVE  Answer(Owed(j)[i])
  OBVIOUS
<1>1. StartResult(j.status) # "accepted" /\ CancelResult(j.status) # "accepted"
  BY DEF StartResult, CancelResult
<1>2. CASE \E k \in DOMAIN j.start :
             Owed(j)[i] = Result(j.start[k].cmd, StartResult(j.status), j.start[k].named)
  BY <1>1, <1>2 DEF Answer, OnRecord, Result
<1>3. CASE \E k \in DOMAIN j.cancels :
             Owed(j)[i] = Result(j.cancels[k].cmd, CancelResult(j.status), j.cancels[k].named)
  BY <1>1, <1>3 DEF Answer, OnRecord, Result
<1>. QED
  BY <1>2, <1>3, OwedCalls

\* A named handler past begin_command has its command on record.
LEMMA NamedOnRecord ==
  ASSUME TypesInv, LedgerInv, NEW h \in Threads, Quiet(h), req[h].pc \notin {"idle", "begin"}
  PROVE  Named(req[h].sid) => row[req[h].cmd] # "none"
<1>1. ~Accepting(h, req[h].cmd)
  BY Constants, QuietIsIdle DEF Accepting, TypesInv
<1>. QED
  BY <1>1 DEF LedgerInv, RequestsOnRecord, Named

LEMMA ThreadAnswers ==
  ASSUME TypesInv, LedgerInv, row' = row, NEW a \in Actors, Quiet(a), NEW q \in Seq(Call),
         emission' = [emission EXCEPT ![a].queue = q], \A i \in DOMAIN q : Answer(q[i])
  PROVE  QueuesOK'
<1>1. /\ emission'[a].queue = q /\ emission'[a].pc = "idle"
      /\ \A x \in Actors : x # a => emission'[x] = emission[x]
  BY QueueWrites, QuietIsIdle DEF TypesInv, EmissionsOK
<1>. QED
  BY <1>1, AnswersKeep

LEMMA AnswersQueues ==
  ASSUME TypesInv, LedgerInv, row' = row, NEW h \in Threads, Quiet(h),
         req[h].pc \notin {"idle", "begin"},
         NEW status \in {"succeeded", "failed"}, Answers(h, status)
  PROVE  QueuesOK'
<1>. DEFINE c == Result(req[h].cmd, status, Named(req[h].sid))
<1>1. emission[h].queue = <<>> /\ h \in Actors
  BY Constants, QuietIsIdle DEF TypesInv
<1>2. emission' = [emission EXCEPT ![h].queue = Append(<<>>, c)]
  BY <1>1 DEF Answers, Emits
<1>3. c \in Call
  BY DEF Result, Call, Named, TypesInv, ReqsOK, ReqOK
<1>4. Answer(c)
  BY NamedOnRecord DEF Answer, Result
<1>. HIDE DEF c
<1>5. Append(<<>>, c) \in Seq(Call) /\ \A i \in DOMAIN Append(<<>>, c) : Append(<<>>, c)[i] = c
  BY <1>3
<1>. QED
  BY <1>1, <1>2, <1>4, <1>5, ThreadAnswers

LEMMA SameQueues ==
  ASSUME LedgerInv, row' = row, emission' = emission
  PROVE  QueuesOK'
BY DEF LedgerInv, QueuesOK, QueueOK, Answer

LEMMA HandleQueues ==
  ASSUME TypesInv, LedgerInv, NEW h \in Threads, Handle(h)
  PROVE  QueuesOK'
<1>. USE Constants
<1>1. row' = row
  BY DEF Handle, BeginReplays, BeginAccepts, BeginUnnamed, StartRefused, StartAdmitted, StartOpens,
     StartScheduled, StartUnschedulable, CancelSelects, CancelReads, CancelUpdates, CancelSignals,
     CancelReports, CheckAnswers, durable
<1>2. CASE UNCHANGED emission
  BY <1>1, <1>2, SameQueues
<1>3. CASE BeginAccepts(h)
  <2>. DEFINE e == [pc |-> "recording", queue |-> <<Result(req[h].cmd, "accepted", TRUE)>>]
  <2>1. emission' = [emission EXCEPT ![h] = e] /\ row[req[h].cmd] = "none"
    BY <1>3 DEF BeginAccepts
  <2>2. e.queue[1].status = "accepted" /\ e.queue[1].named /\ e.queue[1].cmd = req[h].cmd
        /\ e.pc = "recording" /\ DOMAIN e.queue = {1}
    BY DEF Result
  <2>3. emission'[h] = e /\ \A x \in Actors : x # h => emission'[x] = emission[x]
    BY <2>1 DEF TypesInv, EmissionsOK
  <2>. HIDE DEF e
  <2>4. QueueOK(h)'
    BY <1>1, <2>1, <2>2, <2>3 DEF QueueOK
  <2>5. ASSUME NEW x \in Actors, x # h
        PROVE  QueueOK(x)'
    <3>1. emission'[x] = emission[x] /\ QueueOK(x)
      BY <2>3, <2>5 DEF LedgerInv, QueuesOK
    <3>. QED
      BY <1>1, <3>1 DEF QueueOK, Answer
  <2>. QED
    BY <2>4, <2>5 DEF QueuesOK
<1>4. CASE StartRefused(h) \/ CheckAnswers(h)
  <2>1. Quiet(h) /\ req[h].pc = "act"
    BY <1>4 DEF StartRefused, CheckAnswers, Performs
  <2>2. PICK status \in {"succeeded", "failed"} : Answers(h, status)
    BY <1>4 DEF StartRefused, CheckAnswers
  <2>. QED
    BY <1>1, <2>1, <2>2, AnswersQueues
<1>5. CASE CancelReads(h)
  <2>1. Quiet(h) /\ req[h].pc = "selected"
    BY <1>5 DEF CancelReads, At
  <2>2. CASE \E status \in {"succeeded", "failed"} : Answers(h, status)
    BY <1>1, <2>1, <2>2, AnswersQueues
  <2>. QED
    BY <1>2, <1>5, <2>2 DEF CancelReads
<1>6. CASE StartUnschedulable(h)
  <2>. DEFINE o == req[h].sid
  <2>1. Quiet(h) /\ o \in Bridges
    BY <1>6 DEF StartUnschedulable, At, TypesInv, ReqsOK, ReqOK
  <2>2. "failed" \in Over /\ Completed(h, o, "failed") /\ slot' = slot
    BY <1>6 DEF StartUnschedulable, Over
  <2>3. /\ job'[o] \in Job /\ Owed(job'[o]) \in Seq(Call)
        /\ emission' = [emission EXCEPT ![h].queue = Owed(job'[o])]
    BY <2>1, <2>2, CompletedTypes
  <2>4. job'[o].start = job[o].start /\ job'[o].cancels = job[o].cancels
    BY <2>1, <2>2 DEF Completed, TypesInv, JobsOK, Job
  <2>5. OnRecord(job'[o].start) /\ OnRecord(job'[o].cancels)
    BY <2>1, <2>4 DEF LedgerInv, EntriesOnRecord
  <2>6. \A i \in DOMAIN Owed(job'[o]) : Answer(Owed(job'[o])[i])
    BY <2>3, <2>5, OwedAnswers
  <2>. QED
    BY <1>1, <2>1, <2>3, <2>6, ThreadAnswers
<1>7. CASE CancelReports(h)
  <2>. DEFINE o == req[h].owner
  <2>1. Quiet(h) /\ o \in Bridges /\ emission' = [emission EXCEPT ![h].queue = Owed(job[o])]
    BY <1>7 DEF CancelReports, At, TypesInv, ReqsOK, ReqOK
  <2>2. job[o] \in Job /\ OnRecord(job[o].start) /\ OnRecord(job[o].cancels)
    BY <2>1 DEF TypesInv, JobsOK, LedgerInv, EntriesOnRecord
  <2>3. Owed(job[o]) \in Seq(Call) /\ \A i \in DOMAIN Owed(job[o]) : Answer(Owed(job[o])[i])
    BY <2>2, OwedCalls, OwedAnswers
  <2>. QED
    BY <1>1, <2>1, <2>3, ThreadAnswers
<1>. QED
  BY <1>2, <1>3, <1>4, <1>5, <1>6, <1>7 DEF Handle, BeginReplays, BeginUnnamed, StartAdmitted,
     StartOpens, StartScheduled, CancelSelects, CancelUpdates, CancelSignals

LEMMA QueuesStep ==
  ASSUME TypesInv, CommandsInv, LedgerInv, [Next]_vars
  PROVE  QueuesOK'
<1>. USE Constants
<1>1. CASE UNCHANGED vars
  BY <1>1, SameQueues DEF vars, durable
<1>2. ASSUME NEW h \in Threads, NEW s \in Bridges, NEW c \in Commands, Arrives(h, s, c)
      PROVE  QueuesOK'
  BY <1>2, SameQueues DEF Arrives, durable
<1>3. ASSUME NEW r \in Runs, TaskCompletes(r) \/ TaskEnds(r)
      PROVE  QueuesOK'
  <2>1. CASE TaskEnds(r)
    BY <2>1, SameQueues DEF TaskEnds, TaskClears, SlotCloses, durable
  <2>2. CASE TaskCompletes(r)
    <3>. DEFINE o == task[r].owner
    <3>1. PICK v \in Over : Completed(r, o, v)
      BY <2>2 DEF TaskCompletes
    <3>2. Quiet(r) /\ o \in Bridges /\ slot' = slot /\ row' = row
      BY <2>2 DEF TaskCompletes, TypesInv, EmissionsOK, TasksOK, durable
    <3>3. /\ job'[o] \in Job /\ Owed(job'[o]) \in Seq(Call)
          /\ emission' = [emission EXCEPT ![r].queue = Owed(job'[o])]
      BY <3>1, <3>2, CompletedTypes
    <3>4. job'[o].start = job[o].start /\ job'[o].cancels = job[o].cancels
      BY <3>1, <3>2 DEF Completed, TypesInv, JobsOK, Job
    <3>5. OnRecord(job'[o].start) /\ OnRecord(job'[o].cancels)
      BY <3>2, <3>4 DEF LedgerInv, EntriesOnRecord
    <3>6. \A i \in DOMAIN Owed(job'[o]) : Answer(Owed(job'[o])[i])
      BY <3>3, <3>5, OwedAnswers
    <3>. QED
      BY <3>2, <3>3, <3>6, ThreadAnswers
  <2>. QED
    BY <1>3, <2>1, <2>2
<1>4. ASSUME NEW s \in Bridges, Connects(s) \/ Connect(s) \/ Disconnects(s)
      PROVE  QueuesOK'
  <2>1. row' = row
    BY <1>4 DEF Connects, Connect, ConnectLists, ConnectRecovers, ConnectReplays, ConnectEnds,
       Disconnects, durable
  <2>2. CASE ConnectRecovers(s)
    <3>1. PICK l \in listed[s] : Emits(s, l.cmd, "failed", TRUE)
      BY <2>2 DEF ConnectRecovers
    <3>2. Quiet(s)
      BY <2>2 DEF ConnectRecovers
    <3>. DEFINE c == Result(l.cmd, "failed", TRUE)
    <3>3. emission' = [emission EXCEPT ![s].queue = Append(<<>>, c)]
      BY <3>1, <3>2, QuietIsIdle DEF Emits, TypesInv
    <3>4. c \in Call
      BY DEF Result, Call, TypesInv, SocketsOK
    <3>5. Answer(c)
      BY DEF Answer, Result, LedgerInv, EntriesOnRecord
    <3>. HIDE DEF c
    <3>6. Append(<<>>, c) \in Seq(Call) /\ \A i \in DOMAIN Append(<<>>, c) : Append(<<>>, c)[i] = c
      BY <3>4
    <3>. QED
      BY <2>1, <3>2, <3>3, <3>5, <3>6, ThreadAnswers
  <2>3. CASE UNCHANGED emission
    BY <2>1, <2>3, SameQueues
  <2>. QED
    BY <1>4, <2>2, <2>3 DEF Connects, Connect, ConnectLists, ConnectReplays, ConnectEnds, Disconnects
<1>5. CASE Restarts
  BY <1>5 DEF Restarts, QueuesOK, QueueOK, NotEmitting
<1>. QED
  BY <1>1, <1>2, <1>3, <1>4, <1>5, EmitQueues, HandleQueues DEF Next

LEMMA EntriesStay ==
  ASSUME TypesInv, [Next]_vars, NEW entries \in Seq(Entry), OnRecord(entries)
  PROVE  \A i \in DOMAIN entries : entries[i].named => row'[entries[i].cmd] # "none"
<1>1. \A i \in DOMAIN entries : entries[i] \in Entry
  OBVIOUS
<1>2. \A i \in DOMAIN entries : entries[i].cmd \in Commands
  BY <1>1 DEF Entry
<1>. QED
  BY <1>2, RowsStay DEF OnRecord

\* The steps that write records of the registry.
LEMMA JobSteps ==
  ASSUME [Next]_vars
  PROVE  \/ UNCHANGED job \/ Restarts
         \/ \E h \in Threads : StartAdmitted(h) \/ StartUnschedulable(h) \/ CancelUpdates(h)
                               \/ CancelSignals(h)
         \/ \E r \in Runs : TaskCompletes(r) \/ TaskClears(r)
         \/ \E s \in Bridges : Disconnects(s)
<1>1. \A h \in Threads : Handle(h) =>
        \/ UNCHANGED job \/ StartAdmitted(h) \/ StartUnschedulable(h) \/ CancelUpdates(h)
        \/ CancelSignals(h)
  BY DEF Handle, BeginReplays, BeginAccepts, BeginUnnamed, StartRefused, StartOpens, StartScheduled,
     CancelSelects, CancelReads, CancelReports, CheckAnswers, scans
<1>2. /\ \A a \in Actors : Emit(a) => UNCHANGED job
      /\ \A h \in Threads, x \in Bridges, c \in Commands : Arrives(h, x, c) => UNCHANGED job
      /\ \A r \in Runs : TaskEnds(r) => UNCHANGED job \/ TaskClears(r)
      /\ \A x \in Bridges : Connects(x) \/ Connect(x) => UNCHANGED job
      /\ UNCHANGED vars => UNCHANGED job
  BY DEF Emit, EmitDrops, EmitReads, EmitRecords, EmitSends, Arrives, TaskEnds, SlotCloses, Connects,
     Connect, ConnectLists, ConnectRecovers, ConnectReplays, ConnectEnds, vars, scans
<1>. QED
  BY <1>1, <1>2 DEF Next

\* complete() and cancel() change the status of a record only.
LEMMA RecordFields ==
  ASSUME NEW j \in Job, NEW v
  PROVE  /\ [j EXCEPT !.status = v].status = v /\ [j EXCEPT !.status = v].start = j.start
         /\ [j EXCEPT !.status = v].cancels = j.cancels
         /\ [j EXCEPT !.status = v].disconnected = j.disconnected
BY DEF Job

\* A record starts with the command it was admitted for.
LEMMA StartEntries ==
  ASSUME TypesInv, [Next]_vars, NEW s \in Bridges
  PROVE  \/ job'[s].start = job[s].start \/ job'[s].start = <<>>
         \/ \E h \in Threads : /\ StartAdmitted(h)
                               /\ job'[s].start = <<[cmd |-> req[h].cmd, named |-> Named(req[h].sid)]>>
<1>. USE DEF TypesInv, JobsOK
<1>1. ASSUME NEW h \in Threads, StartAdmitted(h)
      PROVE  \/ job'[s].start = job[s].start
             \/ job'[s].start = <<[cmd |-> req[h].cmd, named |-> Named(req[h].sid)]>>
  BY <1>1 DEF StartAdmitted, NoJob
<1>2. ASSUME NEW h \in Threads, StartUnschedulable(h) \/ CancelUpdates(h) \/ CancelSignals(h)
      PROVE  job'[s].start = job[s].start
  <2>1. ASSUME NEW o, NEW v, job' = [job EXCEPT ![o].status = v]
        PROVE  job'[s].start = job[s].start
    BY <2>1, RecordFields
  <2>2. CASE CancelUpdates(h)
    BY <2>2 DEF CancelUpdates, Job
  <2>. QED
    BY <1>2, <2>1, <2>2 DEF StartUnschedulable, CancelSignals, Completed
<1>3. ASSUME NEW r \in Runs, TaskCompletes(r) \/ TaskClears(r)
      PROVE  job'[s].start = job[s].start \/ job'[s].start = <<>>
  <2>1. CASE TaskCompletes(r)
    BY <2>1 DEF TaskCompletes, Completed, Job
  <2>2. CASE TaskClears(r)
    BY <2>2 DEF TaskClears, NoJob
  <2>. QED
    BY <1>3, <2>1, <2>2
<1>4. ASSUME NEW x \in Bridges, Disconnects(x)
      PROVE  job'[s].start = job[s].start \/ job'[s].start = <<>>
  BY <1>4 DEF Disconnects, NoJob, Job
<1>5. CASE Restarts
  BY <1>5 DEF Restarts, NoJob
<1>. QED
  BY <1>1, <1>2, <1>3, <1>4, <1>5, JobSteps

\* What a record owes to cancellations is what it had or what one of them has stored.
LEMMA CancelEntries ==
  ASSUME TypesInv, [Next]_vars, NEW s \in Bridges
  PROVE  \/ job'[s].cancels = job[s].cancels \/ job'[s].cancels = <<>>
         \/ \E h \in Threads : CancelUpdates(h) /\ job'[s].cancels = req[h].ids
<1>. USE DEF TypesInv, JobsOK
<1>1. ASSUME NEW h \in Threads, StartAdmitted(h)
      PROVE  job'[s].cancels = job[s].cancels \/ job'[s].cancels = <<>>
  BY <1>1 DEF StartAdmitted, NoJob
<1>2. ASSUME NEW h \in Threads, StartUnschedulable(h) \/ CancelSignals(h)
      PROVE  job'[s].cancels = job[s].cancels
  <2>1. ASSUME NEW o, NEW v, job' = [job EXCEPT ![o].status = v]
        PROVE  job'[s].cancels = job[s].cancels
    BY <2>1, RecordFields
  <2>. QED
    BY <1>2, <2>1 DEF StartUnschedulable, CancelSignals, Completed
<1>3. ASSUME NEW h \in Threads, CancelUpdates(h)
      PROVE  job'[s].cancels = job[s].cancels \/ job'[s].cancels = req[h].ids
  BY <1>3 DEF CancelUpdates, Job
<1>4. ASSUME NEW r \in Runs, TaskCompletes(r) \/ TaskClears(r)
      PROVE  job'[s].cancels = job[s].cancels \/ job'[s].cancels = <<>>
  <2>1. CASE TaskCompletes(r)
    BY <2>1 DEF TaskCompletes, Completed, Job
  <2>2. CASE TaskClears(r)
    BY <2>2 DEF TaskClears, NoJob
  <2>. QED
    BY <1>4, <2>1, <2>2
<1>5. ASSUME NEW x \in Bridges, Disconnects(x)
      PROVE  job'[s].cancels = job[s].cancels \/ job'[s].cancels = <<>>
  BY <1>5 DEF Disconnects, NoJob, Job
<1>6. CASE Restarts
  BY <1>6 DEF Restarts, NoJob
<1>. QED
  BY <1>1, <1>2, <1>3, <1>4, <1>5, <1>6, JobSteps

\* Past begin_command a handler works for the request it began with.
LEMMA RequestContinues ==
  ASSUME TypesInv, [Next]_vars, NEW h \in Threads, req'[h].pc \notin {"idle", "begin"}
  PROVE  /\ req[h].pc # "idle" /\ req'[h].sid = req[h].sid /\ req'[h].cmd = req[h].cmd
         /\ req[h].pc = "begin" => BeginAccepts(h) \/ BeginUnnamed(h)
         /\ \/ req'[h].ids = req[h].ids
            \/ /\ CancelReads(h)
               /\ req'[h].ids = Append(job[req[h].owner].cancels,
                                       [cmd |-> req[h].cmd, named |-> Named(req[h].sid)])
<1>. USE DEF TypesInv, ReqsOK, Req
<1>1. CASE UNCHANGED req
  BY <1>1 DEF BeginAccepts, BeginUnnamed
<1>2. ASSUME NEW i \in Threads, i # h, Handle(i)
      PROVE  req'[h] = req[h]
  BY <1>2 DEF Handle, BeginReplays, BeginAccepts, BeginUnnamed, StartRefused, StartAdmitted,
     StartOpens, StartScheduled, StartUnschedulable, CancelSelects, CancelReads, CancelUpdates,
     CancelSignals, CancelReports, CheckAnswers, Answers
<1>3. CASE Handle(h)
  <2>1. CASE BeginReplays(h) \/ StartRefused(h) \/ StartScheduled(h) \/ StartUnschedulable(h)
             \/ CancelReports(h) \/ CheckAnswers(h)
    BY <2>1 DEF BeginReplays, StartRefused, StartScheduled, StartUnschedulable, CancelReports,
       CheckAnswers, Answers, NoReq
  <2>2. CASE BeginAccepts(h) \/ BeginUnnamed(h)
    BY <2>2 DEF BeginAccepts, BeginUnnamed
  <2>3. CASE StartAdmitted(h) \/ StartOpens(h) \/ CancelSelects(h) \/ CancelUpdates(h)
             \/ CancelSignals(h)
    BY <2>3 DEF StartAdmitted, StartOpens, CancelSelects, CancelUpdates, CancelSignals, Performs, At
  <2>4. CASE CancelReads(h)
    BY <2>4 DEF CancelReads, At, Answers, NoReq
  <2>. QED
    BY <1>3, <2>1, <2>2, <2>3, <2>4 DEF Handle
<1>4. ASSUME NEW i \in Threads, NEW s \in Bridges, NEW c \in Commands, Arrives(i, s, c)
      PROVE  req'[h] = req[h]
  BY <1>4 DEF Arrives, NoReq
<1>5. CASE Restarts
  BY <1>5 DEF Restarts, NoReq
<1>6. /\ \A a \in Actors : Emit(a) => UNCHANGED req
      /\ \A r \in Runs : TaskCompletes(r) \/ TaskEnds(r) => UNCHANGED req
      /\ \A x \in Bridges : Connects(x) \/ Connect(x) \/ Disconnects(x) => UNCHANGED req
      /\ UNCHANGED vars => UNCHANGED req
  BY DEF Emit, EmitDrops, EmitReads, EmitRecords, EmitSends, TaskCompletes, TaskEnds, TaskClears,
     SlotCloses, Connects, Connect, ConnectLists, ConnectRecovers, ConnectReplays, ConnectEnds,
     Disconnects, vars
<1>7. req'[h] = req[h] =>
        /\ req[h].pc \notin {"idle", "begin"}
        /\ req'[h].sid = req[h].sid /\ req'[h].cmd = req[h].cmd /\ req'[h].ids = req[h].ids
  OBVIOUS
<1>. QED
  BY <1>1, <1>2, <1>3, <1>4, <1>5, <1>6, <1>7 DEF Next

\* At its ends a request holds no list it has read.
LEMMA RequestRests ==
  ASSUME TypesInv, [Next]_vars, NEW h \in Threads, req'[h].pc \in {"idle", "begin"}
  PROVE  req'[h].ids = <<>> \/ req'[h].ids = req[h].ids
<1>. USE DEF TypesInv, ReqsOK, Req
<1>1. ASSUME NEW i \in Threads, i # h, Handle(i)
      PROVE  req'[h] = req[h]
  BY <1>1 DEF Handle, BeginReplays, BeginAccepts, BeginUnnamed, StartRefused, StartAdmitted,
     StartOpens, StartScheduled, StartUnschedulable, CancelSelects, CancelReads, CancelUpdates,
     CancelSignals, CancelReports, CheckAnswers, Answers
<1>2. CASE Handle(h)
  <2>1. CASE BeginReplays(h) \/ StartRefused(h) \/ StartScheduled(h) \/ StartUnschedulable(h)
             \/ CancelReports(h) \/ CheckAnswers(h)
    BY <2>1 DEF BeginReplays, StartRefused, StartScheduled, StartUnschedulable, CancelReports,
       CheckAnswers, Answers, NoReq
  <2>2. CASE BeginAccepts(h) \/ BeginUnnamed(h) \/ StartAdmitted(h) \/ StartOpens(h)
             \/ CancelSelects(h) \/ CancelUpdates(h) \/ CancelSignals(h)
    BY <2>2 DEF BeginAccepts, BeginUnnamed, StartAdmitted, StartOpens, CancelSelects, CancelUpdates,
       CancelSignals
  <2>3. CASE CancelReads(h)
    BY <2>3 DEF CancelReads, Answers, NoReq
  <2>. QED
    BY <1>2, <2>1, <2>2, <2>3 DEF Handle
<1>3. ASSUME NEW i \in Threads, NEW s \in Bridges, NEW c \in Commands, Arrives(i, s, c)
      PROVE  req'[h].ids = <<>> \/ req'[h].ids = req[h].ids
  BY <1>3 DEF Arrives, NoReq
<1>4. CASE Restarts
  BY <1>4 DEF Restarts, NoReq
<1>5. /\ \A a \in Actors : Emit(a) => UNCHANGED req
      /\ \A r \in Runs : TaskCompletes(r) \/ TaskEnds(r) => UNCHANGED req
      /\ \A x \in Bridges : Connects(x) \/ Connect(x) \/ Disconnects(x) => UNCHANGED req
      /\ UNCHANGED vars => UNCHANGED req
  BY DEF Emit, EmitDrops, EmitReads, EmitRecords, EmitSends, TaskCompletes, TaskEnds, TaskClears,
     SlotCloses, Connects, Connect, ConnectLists, ConnectRecovers, ConnectReplays, ConnectEnds,
     Disconnects, vars
<1>. QED
  BY <1>1, <1>2, <1>3, <1>4, <1>5 DEF Next

\* What a connecting bridge has listed was there when it read the table.
LEMMA ListedRows ==
  ASSUME TypesInv, [Next]_vars, NEW s \in Bridges, NEW l \in listed'[s]
  PROVE  ConnectLists(s) \/ \E k \in listed[s] : k.cmd = l.cmd
<1>. USE DEF TypesInv, SocketsOK
<1>1. ASSUME NEW x \in Bridges, ConnectRecovers(x)
      PROVE  \E k \in listed[s] : k.cmd = l.cmd
  <2>1. PICK k \in listed[x] :
           listed' = [listed EXCEPT ![x] = (@ \ {k}) \union {[k EXCEPT !.status = "failed"]}]
    BY <1>1 DEF ConnectRecovers
  <2>2. [k EXCEPT !.status = "failed"].cmd = k.cmd
    OBVIOUS
  <2>. QED
    BY <2>1, <2>2
<1>2. ASSUME NEW x \in Bridges, ConnectReplays(x) \/ (ConnectLists(x) /\ x # s)
      PROVE  \E k \in listed[s] : k.cmd = l.cmd
  BY <1>2 DEF ConnectReplays, ConnectLists
<1>3. ~Restarts
  BY DEF Restarts
<1>4. /\ \A a \in Actors : Emit(a) => UNCHANGED listed
      /\ \A r \in Runs : TaskCompletes(r) \/ TaskEnds(r) => UNCHANGED listed
      /\ \A x \in Bridges : Connects(x) \/ ConnectEnds(x) \/ Disconnects(x) => UNCHANGED listed
      /\ \A h \in Threads, x \in Bridges, c \in Commands : Arrives(h, x, c) => UNCHANGED listed
      /\ UNCHANGED vars => UNCHANGED listed
  BY DEF Emit, EmitDrops, EmitReads, EmitRecords, EmitSends, TaskCompletes, TaskEnds, TaskClears,
     SlotCloses, Connects, ConnectEnds, Disconnects, Arrives, vars, sockets
<1>5. \A h \in Threads : Handle(h) => UNCHANGED listed
  BY DEF Handle, BeginReplays, BeginAccepts, BeginUnnamed, StartRefused, StartAdmitted,
     StartOpens, StartScheduled, StartUnschedulable, CancelSelects, CancelReads, CancelUpdates,
     CancelSignals, CancelReports, CheckAnswers, sockets
<1>. QED
  BY <1>1, <1>2, <1>3, <1>4, <1>5 DEF Next, Connect

\* A sid becomes a bridge once, when it connects.
LEMMA BridgesJoin ==
  ASSUME [Next]_vars, NEW s \in bridges', s \notin bridges
  PROVE  conn[s] = "out"
<1>1. \A x \in Bridges : Connects(x) /\ s \in bridges' => conn[s] = "out"
  BY DEF Connects
<1>2. Restarts => bridges' = {}
  BY DEF Restarts
<1>3. \A x \in Bridges : Disconnects(x) => bridges' \subseteq bridges
  BY DEF Disconnects
<1>4. /\ \A a \in Actors : Emit(a) => UNCHANGED bridges
      /\ \A r \in Runs : TaskCompletes(r) \/ TaskEnds(r) => UNCHANGED bridges
      /\ \A x \in Bridges : Connect(x) => UNCHANGED bridges
      /\ \A h \in Threads, x \in Bridges, c \in Commands : Arrives(h, x, c) => UNCHANGED bridges
      /\ UNCHANGED vars => UNCHANGED bridges
  BY DEF Emit, EmitDrops, EmitReads, EmitRecords, EmitSends, TaskCompletes, TaskEnds, TaskClears,
     SlotCloses, Connect, ConnectLists, ConnectRecovers, ConnectReplays, ConnectEnds, Arrives, vars,
     sockets
<1>5. \A h \in Threads : Handle(h) => UNCHANGED bridges
  BY DEF Handle, BeginReplays, BeginAccepts, BeginUnnamed, StartRefused, StartAdmitted,
     StartOpens, StartScheduled, StartUnschedulable, CancelSelects, CancelReads, CancelUpdates,
     CancelSignals, CancelReports, CheckAnswers, sockets
<1>. QED
  BY <1>1, <1>2, <1>3, <1>4, <1>5 DEF Next

\* Inside the section nobody else disturbs an emission.
LEMMA OnlyTheHolder ==
  ASSUME TypesInv, CommandsInv, [Next]_vars, ~Restarts, NEW a \in Actors,
         emission[a].pc \in {"recording", "sending"}
  PROVE  \/ emission'[a] = emission[a] /\ lock' = lock
         \/ EmitRecords(a) \/ EmitSends(a)
<1>. USE Constants
<1>1. lock = a /\ a # Nobody /\ ~Quiet(a) /\ emission \in [Actors -> Emission]
  BY DEF CommandsInv, SectionHeld, TypesInv, EmissionsOK
<1>2. \A b \in Actors : b # a => emission[b].pc = "idle"
  BY <1>1 DEF CommandsInv, SectionHeld, Emission
<1>3. ASSUME NEW b \in Actors, Emit(b)
      PROVE  \/ emission'[a] = emission[a] /\ lock' = lock
             \/ EmitRecords(a) \/ EmitSends(a)
  <2>1. CASE b = a
    BY <1>3, <2>1 DEF Emit, EmitDrops, EmitReads
  <2>2. CASE b # a
    <3>1. EmitDrops(b)
      BY <1>1, <1>2, <1>3, <2>2 DEF Emit, EmitReads, EmitRecords, EmitSends, MayEnter
    <3>. QED
      BY <1>1, <2>2, <3>1 DEF EmitDrops
  <2>. QED
    BY <2>1, <2>2
<1>4. ASSUME NEW h \in Threads, Handle(h)
      PROVE  emission'[a] = emission[a] /\ lock' = lock
  <2>1. ~BeginReplays(h) /\ ~BeginAccepts(h) /\ ~BeginUnnamed(h)
    BY <1>1 DEF BeginReplays, BeginAccepts, BeginUnnamed, MayEnter
  <2>2. Quiet(h) /\ lock' = lock
    BY <1>4, <2>1 DEF Handle, StartRefused, StartAdmitted, StartOpens, StartScheduled,
       StartUnschedulable, CancelSelects, CancelReads, CancelUpdates, CancelSignals,
       CancelReports, CheckAnswers, Performs, At
  <2>3. h # a
    BY <1>1, <2>2
  <2>4. emission' = emission \/ \E q : emission' = [emission EXCEPT ![h].queue = q]
    BY <1>4, <2>1 DEF Handle, StartRefused, StartAdmitted, StartOpens, StartScheduled,
       StartUnschedulable, CancelSelects, CancelReads, CancelUpdates, CancelSignals,
       CancelReports, CheckAnswers, Completed, Answers, Emits
  <2>. QED
    BY <1>1, <2>2, <2>3, <2>4
<1>5. ASSUME NEW r \in Runs, TaskCompletes(r) \/ TaskEnds(r)
      PROVE  emission'[a] = emission[a] /\ lock' = lock
  <2>1. CASE TaskCompletes(r)
    <3>1. Quiet(r) /\ lock' = lock /\ \E q : emission' = [emission EXCEPT ![r].queue = q]
      BY <2>1 DEF TaskCompletes, Completed, TypesInv, EmissionsOK
    <3>. QED
      BY <1>1, <3>1
  <2>2. CASE TaskEnds(r)
    BY <2>2 DEF TaskEnds, TaskClears, SlotCloses
  <2>. QED
    BY <1>5, <2>1, <2>2
<1>6. ASSUME NEW s \in Bridges, Connects(s) \/ Connect(s) \/ Disconnects(s)
      PROVE  emission'[a] = emission[a] /\ lock' = lock
  <2>1. CASE ConnectRecovers(s)
    <3>1. Quiet(s) /\ lock' = lock /\ \E q : emission' = [emission EXCEPT ![s].queue = q]
      BY <2>1 DEF ConnectRecovers, Emits
    <3>. QED
      BY <1>1, <3>1
  <2>. QED
    BY <1>6, <2>1 DEF Connects, Connect, ConnectLists, ConnectReplays, ConnectEnds, Disconnects
<1>7. \A h \in Threads, x \in Bridges, c \in Commands :
        Arrives(h, x, c) => emission'[a] = emission[a] /\ lock' = lock
  BY DEF Arrives
<1>8. UNCHANGED vars => emission'[a] = emission[a] /\ lock' = lock
  BY DEF vars
<1>. QED
  BY <1>3, <1>4, <1>5, <1>6, <1>7, <1>8 DEF Next

\* An acceptance that is being written gets written.
LEMMA AcceptingStays ==
  ASSUME TypesInv, CommandsInv, [Next]_vars, ~Restarts, NEW h \in Threads, NEW c \in Commands,
         Accepting(h, c)
  PROVE  row'[c] # "none" \/ Accepting(h, c)'
<1>1. CASE emission'[h] = emission[h] /\ lock' = lock
  BY <1>1 DEF Accepting
<1>2. CASE EmitRecords(h)
  <2>1. PICK d \in Call : /\ d = Head(emission[h].queue)
                          /\ row' = [row EXCEPT ![d.cmd] = RowStatus(d.status)]
    BY <1>2, Recording, Constants
  <2>2. d = Result(c, "accepted", TRUE)
    BY <2>1 DEF Accepting
  <2>3. d.cmd = c
    BY <2>2 DEF Result
  <2>. QED
    BY <2>1, <2>3, RowStatusIsKnown DEF TypesInv, RowsOK, Terminal
<1>3. ~EmitSends(h)
  BY DEF EmitSends, Accepting
<1>. QED
  BY <1>1, <1>2, <1>3, Constants, OnlyTheHolder DEF Accepting

LEMMA RequestsStep ==
  ASSUME TypesInv, CommandsInv, LedgerInv, [Next]_vars
  PROVE  RequestsOnRecord'
<1>. SUFFICES ASSUME NEW h \in Threads, NEW c, NEW s, req'[h].cmd = c, req'[h].sid = s,
                     req'[h].pc \notin {"idle", "begin"}, s \in bridges'
              PROVE  row'[c] # "none" \/ Accepting(h, c)'
  BY DEF RequestsOnRecord, Accepting
<1>1. /\ req[h].pc # "idle" /\ req[h].sid = s /\ req[h].cmd = c
      /\ req[h].pc = "begin" => BeginAccepts(h) \/ BeginUnnamed(h)
  BY RequestContinues
<1>2. c \in Commands /\ s \in Bridges /\ conn[s] # "out"
  BY <1>1 DEF TypesInv, ReqsOK, ReqOK
<1>3. ~Restarts
  BY DEF Restarts, NoReq
<1>4. CASE BeginAccepts(h)
  <2>1. emission' = [emission EXCEPT ![h] = [pc |-> "recording", queue |-> <<Result(c, "accepted", TRUE)>>]]
        /\ lock' = h
    BY <1>1, <1>4 DEF BeginAccepts
  <2>. QED
    BY <2>1, Constants DEF Accepting, TypesInv, EmissionsOK
<1>5. CASE BeginUnnamed(h)
  <2>1. s \notin bridges /\ bridges' = bridges
    BY <1>1, <1>5 DEF BeginUnnamed, Named, sockets
  <2>. QED
    BY <2>1
<1>6. CASE req[h].pc # "begin"
  <2>1. s \in bridges
    BY <1>2, BridgesJoin
  <2>2. row[c] # "none" \/ Accepting(h, c)
    BY <1>1, <1>6, <2>1 DEF LedgerInv, RequestsOnRecord
  <2>. QED
    BY <1>2, <1>3, <2>2, RowsStay, AcceptingStays
<1>. QED
  BY <1>1, <1>4, <1>5, <1>6

\* Entries are made of commands that have been let through.
LEMMA EntriesStep ==
  ASSUME TypesInv, CommandsInv, LedgerInv, [Next]_vars
  PROVE  EntriesOnRecord'
<1>1. ASSUME NEW s \in Bridges
      PROVE  OnRecord(job[s].start)' /\ OnRecord(job[s].cancels)'
  <2>1. /\ job[s].start \in Seq(Entry) /\ OnRecord(job[s].start)
        /\ job[s].cancels \in Seq(Entry) /\ OnRecord(job[s].cancels)
    BY DEF TypesInv, JobsOK, Job, LedgerInv, EntriesOnRecord
  <2>2. /\ \A i \in DOMAIN job[s].start :
             job[s].start[i].named => row'[job[s].start[i].cmd] # "none"
        /\ \A i \in DOMAIN job[s].cancels :
             job[s].cancels[i].named => row'[job[s].cancels[i].cmd] # "none"
    BY <2>1, EntriesStay
  <2>3. ASSUME NEW h \in Threads, StartAdmitted(h),
               job'[s].start = <<[cmd |-> req[h].cmd, named |-> Named(req[h].sid)]>>
        PROVE  OnRecord(job[s].start)'
    <3>1. Quiet(h) /\ req[h].pc = "act" /\ row' = row
      BY <2>3 DEF StartAdmitted, Performs, durable
    <3>2. Named(req[h].sid) => row'[req[h].cmd] # "none"
      BY <3>1, NamedOnRecord
    <3>. QED
      BY <2>3, <3>2 DEF OnRecord
  <2>4. ASSUME NEW h \in Threads, CancelUpdates(h), job'[s].cancels = req[h].ids
        PROVE  OnRecord(job[s].cancels)'
    <3>1. req[h].ids \in Seq(Entry) /\ OnRecord(req[h].ids)
      BY DEF TypesInv, ReqsOK, Req, LedgerInv, EntriesOnRecord
    <3>2. \A i \in DOMAIN req[h].ids : req[h].ids[i].named => row'[req[h].ids[i].cmd] # "none"
      BY <3>1, EntriesStay
    <3>. QED
      BY <2>4, <3>2 DEF OnRecord
  <2>5. OnRecord(job[s].start)'
    <3>1. CASE job'[s].start = job[s].start \/ job'[s].start = <<>>
      BY <2>2, <3>1 DEF OnRecord
    <3>. QED
      BY <2>3, <3>1, StartEntries, Zenon
  <2>6. OnRecord(job[s].cancels)'
    BY <2>2, <2>4, CancelEntries DEF OnRecord
  <2>. QED
    BY <2>5, <2>6
<1>2. ASSUME NEW h \in Threads
      PROVE  OnRecord(req[h].ids)'
  <2>1. req[h].ids \in Seq(Entry) /\ OnRecord(req[h].ids)
    BY DEF TypesInv, ReqsOK, Req, LedgerInv, EntriesOnRecord
  <2>2. \A i \in DOMAIN req[h].ids : req[h].ids[i].named => row'[req[h].ids[i].cmd] # "none"
    BY <2>1, EntriesStay
  <2>3. CASE req'[h].ids = req[h].ids
    BY <2>2, <2>3 DEF OnRecord
  <2>4. CASE CancelReads(h) /\ req'[h].ids = Append(job[req[h].owner].cancels,
                                       [cmd |-> req[h].cmd, named |-> Named(req[h].sid)])
    <3>. DEFINE o == req[h].owner  e == [cmd |-> req[h].cmd, named |-> Named(req[h].sid)]
    <3>1. /\ Quiet(h) /\ req[h].pc = "selected" /\ o \in Bridges /\ req[h].cmd \in Commands
          /\ row' = row
      BY <2>4 DEF CancelReads, At, TypesInv, ReqsOK, ReqOK, durable
    <3>2. e \in Entry
      BY <3>1 DEF Entry, Named
    <3>3. e.named => row'[e.cmd] # "none"
      BY <3>1, NamedOnRecord
    <3>4. job[o].cancels \in Seq(Entry) /\ OnRecord(job[o].cancels)
      BY <3>1 DEF TypesInv, JobsOK, Job, LedgerInv, EntriesOnRecord
    <3>5. \A i \in DOMAIN job[o].cancels : job[o].cancels[i].named => row'[job[o].cancels[i].cmd] # "none"
      BY <3>4, EntriesStay
    <3>. HIDE DEF e, o
    <3>6. \A i \in DOMAIN Append(job[o].cancels, e) :
             Append(job[o].cancels, e)[i].named => row'[Append(job[o].cancels, e)[i].cmd] # "none"
      BY <3>2, <3>3, <3>4, <3>5
    <3>. QED
      BY <2>4, <3>6 DEF OnRecord, e, o
  <2>5. CASE req'[h].pc \in {"idle", "begin"}
    BY <2>2, <2>5, RequestRests DEF OnRecord
  <2>. QED
    BY <2>3, <2>4, <2>5, RequestContinues
<1>3. ASSUME NEW s \in Bridges, NEW l \in listed'[s]
      PROVE  row'[l.cmd] # "none"
  <2>2. CASE ConnectLists(s)
    BY <1>3, <2>2 DEF ConnectLists, durable, TypesInv, SocketsOK
  <2>3. CASE \E k \in listed[s] : k.cmd = l.cmd
    <3>1. PICK k \in listed[s] : k.cmd = l.cmd
      BY <2>3
    <3>2. k.cmd \in Commands /\ row[k.cmd] # "none"
      BY DEF TypesInv, SocketsOK, LedgerInv, EntriesOnRecord
    <3>. QED
      BY <3>1, <3>2, RowsStay
  <2>. QED
    BY <1>3, <2>2, <2>3, ListedRows
<1>. QED
  BY <1>1, <1>2, <1>3 DEF EntriesOnRecord

LEMMA LedgerStep ==
  ASSUME TypesInv, CommandsInv, LedgerInv, [Next]_vars
  PROVE  LedgerInv'
BY BookingStep, QueuesStep, EntriesStep, RequestsStep DEF LedgerInv

THEOREM LedgerInvariant == Spec => []LedgerInv
<1>1. TypesInv /\ CommandsInv /\ LedgerInv /\ [Next]_vars => LedgerInv'
  BY LedgerStep
<1>. QED
  BY InitLedger, <1>1, TypesInvariant, CommandsInvariant, PTL DEF Spec

\* emit_command_result: a command has one acceptance and then at most one terminal receipt,
\* which stays, whoever answers it: its handler, the completion listener, a cancellation
\* that reports the same scan, a second complete() or the recovery of several bridges.
THEOREM ReceiptsStayFinal == Spec => []ReceiptsAreFinal
<1>1. ASSUME LedgerInv, NEW c \in Commands
      PROVE  /\ receipts[c] \in {<<>>, <<"accepted">>, <<"accepted", "succeeded">>,
                                <<"accepted", "failed">>}
             /\ row[c] = "none" <=> receipts[c] = <<>>
  <2>1. Booked(c)
    BY <1>1 DEF LedgerInv, RowsAreBooked
  <2>2. /\ <<"accepted">> # <<>> /\ <<"accepted", "succeeded">> # <<>>
        /\ <<"accepted", "failed">> # <<>>
    OBVIOUS
  <2>. QED
    BY <2>1, <2>2 DEF Booked
<1>2. LedgerInv => ReceiptsAreFinal
  BY <1>1 DEF ReceiptsAreFinal
<1>. QED
  BY <1>2, LedgerInvariant, PTL

-----------------------------------------------------------------------------
(* Every connected bridge follows.  A receipt reaches a bridge's inbox, or  *)
(* another actor is about to send it; what is recorded before the bridge    *)
(* joined comes with the replay of its list; and what its own on_connect    *)
(* records, which is not sent to it, is on that list still.                 *)

Has(s, r) ==
  \/ r \in inbox[s]
  \/ \E a \in Actors : a # s /\ emission[a].pc = "sending" /\ Told(Head(emission[a].queue)) = r

Knows(s, c) == \A r \in Evidence(c) : Has(s, r)
Listed(s, c) == \E l \in listed[s] : l.cmd = c

\* on_connect alone emits for its bridge, and only of what it has listed.
EmitsListed(s) ==
  ~Quiet(s) => conn[s] = "replaying" /\ Listed(s, Head(emission[s].queue).cmd)

Follows(s) ==
  /\ conn[s] = "in" => \A c \in Commands : Knows(s, c)
  /\ conn[s] = "replaying" => \A c \in Commands : Listed(s, c) \/ Knows(s, c)

FollowInv ==
  /\ \A s \in Bridges : EmitsListed(s)
  /\ \A s \in bridges : Follows(s)

\* Who changes the queue of an actor.
LEMMA QueueSteps ==
  ASSUME TypesInv, [Next]_vars, NEW a \in Actors
  PROVE  \/ emission'[a].queue = emission[a].queue
         \/ Emit(a) /\ emission'[a].queue = Tail(emission[a].queue)
         \/ a \in Threads /\ Handle(a)
         \/ a \in Runs /\ TaskCompletes(a)
         \/ a \in Bridges /\ ConnectRecovers(a)
         \/ Restarts
<1>. USE Constants
<1>1. emission \in [Actors -> Emission]
  BY DEF TypesInv, EmissionsOK
<1>2. ASSUME NEW b \in Actors, Emit(b)
      PROVE  \/ emission'[a].queue = emission[a].queue
             \/ a = b /\ emission'[a].queue = Tail(emission[a].queue)
  <2>1. CASE EmitDrops(b)
    BY <1>1, <2>1 DEF EmitDrops, Emission
  <2>2. CASE EmitReads(b)
    <3>1. CASE emission' = [emission EXCEPT ![b].queue = Tail(@)]
      BY <1>1, <3>1 DEF Emission
    <3>2. CASE emission' = [emission EXCEPT ![b].pc = "recording"]
      BY <1>1, <3>2 DEF Emission
    <3>. QED
      BY <2>2, <3>1, <3>2 DEF EmitReads
  <2>3. CASE EmitRecords(b)
    BY <1>1, <2>3 DEF EmitRecords, Emission
  <2>4. CASE EmitSends(b)
    BY <1>1, <2>4 DEF EmitSends
  <2>. QED
    BY <1>2, <2>1, <2>2, <2>3, <2>4 DEF Emit
<1>3. ASSUME NEW h \in Threads, Handle(h)
      PROVE  emission'[a] = emission[a] \/ a = h
  <2>1. \/ emission' = emission \/ \E q : emission' = [emission EXCEPT ![h].queue = q]
        \/ \E e : emission' = [emission EXCEPT ![h] = e]
    BY <1>3 DEF Handle, BeginReplays, BeginAccepts, BeginUnnamed, StartRefused, StartAdmitted,
       StartOpens, StartScheduled, StartUnschedulable, CancelSelects, CancelReads, CancelUpdates,
       CancelSignals, CancelReports, CheckAnswers, Completed, Answers, Emits
  <2>. QED
    BY <1>1, <2>1
<1>4. ASSUME NEW r \in Runs, TaskCompletes(r) \/ TaskEnds(r)
      PROVE  emission'[a] = emission[a] \/ (a = r /\ TaskCompletes(r))
  <2>1. CASE TaskCompletes(r)
    <3>1. \E q : emission' = [emission EXCEPT ![r].queue = q]
      BY <2>1 DEF TaskCompletes, Completed
    <3>. QED
      BY <1>1, <2>1, <3>1
  <2>2. CASE TaskEnds(r)
    BY <2>2 DEF TaskEnds, TaskClears, SlotCloses
  <2>. QED
    BY <1>4, <2>1, <2>2
<1>5. ASSUME NEW s \in Bridges, Connects(s) \/ Connect(s) \/ Disconnects(s)
      PROVE  emission'[a] = emission[a] \/ (a = s /\ ConnectRecovers(s))
  <2>1. CASE ConnectRecovers(s)
    <3>1. \E q : emission' = [emission EXCEPT ![s].queue = q]
      BY <2>1 DEF ConnectRecovers, Emits
    <3>. QED
      BY <1>1, <2>1, <3>1
  <2>. QED
    BY <1>5, <2>1 DEF Connects, Connect, ConnectLists, ConnectReplays, ConnectEnds, Disconnects
<1>6. \A h \in Threads, x \in Bridges, c \in Commands : Arrives(h, x, c) => emission'[a] = emission[a]
  BY DEF Arrives
<1>7. UNCHANGED vars => emission'[a] = emission[a]
  BY DEF vars
<1>. QED
  BY <1>2, <1>3, <1>4, <1>5, <1>6, <1>7 DEF Next

\* Only a disconnection or a restart empties an inbox.
LEMMA InboxGrows ==
  ASSUME TypesInv, [Next]_vars, ~Restarts, NEW s \in Bridges, ~Disconnects(s)
  PROVE  inbox[s] \subseteq inbox'[s]
<1>. USE DEF TypesInv, SocketsOK
<1>1. ASSUME NEW a \in Actors, EmitSends(a)
      PROVE  inbox[s] \subseteq inbox'[s]
  BY <1>1 DEF EmitSends
<1>2. ASSUME NEW h \in Threads, BeginReplays(h)
      PROVE  inbox[s] \subseteq inbox'[s]
  BY <1>2 DEF BeginReplays
<1>3. ASSUME NEW x \in Bridges, ConnectReplays(x) \/ (Disconnects(x) /\ x # s)
      PROVE  inbox[s] \subseteq inbox'[s]
  BY <1>3 DEF ConnectReplays, Disconnects
<1>4. /\ \A a \in Actors : Emit(a) => UNCHANGED inbox \/ EmitSends(a)
      /\ \A r \in Runs : TaskCompletes(r) \/ TaskEnds(r) => UNCHANGED inbox
      /\ \A x \in Bridges : Connects(x) \/ Connect(x) => UNCHANGED inbox \/ ConnectReplays(x)
      /\ \A h \in Threads, x \in Bridges, c \in Commands : Arrives(h, x, c) => UNCHANGED inbox
      /\ UNCHANGED vars => UNCHANGED inbox
  BY DEF Emit, EmitDrops, EmitReads, EmitRecords, TaskCompletes, TaskEnds, TaskClears, SlotCloses,
     Connects, Connect, ConnectLists, ConnectRecovers, ConnectEnds, Arrives, vars, history
<1>5. \A h \in Threads : Handle(h) => UNCHANGED inbox \/ BeginReplays(h)
  BY DEF Handle, BeginAccepts, BeginUnnamed, StartRefused, StartAdmitted, StartOpens,
     StartScheduled, StartUnschedulable, CancelSelects, CancelReads, CancelUpdates, CancelSignals,
     CancelReports, CheckAnswers, Performs, history
<1>. QED
  BY <1>1, <1>2, <1>3, <1>4, <1>5 DEF Next

\* How a bridge gets on with on_connect.
LEMMA ConnSteps ==
  ASSUME TypesInv, [Next]_vars, ~Restarts, NEW s \in Bridges
  PROVE  \/ conn'[s] = conn[s] /\ (listed'[s] = listed[s] \/ ConnectRecovers(s) \/ ConnectReplays(s))
         \/ Connects(s) /\ conn'[s] = "listing"
         \/ ConnectLists(s) /\ conn'[s] = "replaying"
         \/ ConnectEnds(s) /\ conn'[s] = "in" /\ listed'[s] = {}
<1>. USE DEF TypesInv, SocketsOK
<1>1. ASSUME NEW x \in Bridges, x # s, Connects(x) \/ Connect(x) \/ Disconnects(x)
      PROVE  conn'[s] = conn[s] /\ listed'[s] = listed[s]
  BY <1>1 DEF Connects, Connect, ConnectLists, ConnectRecovers, ConnectReplays, ConnectEnds,
     Disconnects
<1>2. CASE Connects(s) \/ ConnectLists(s) \/ ConnectEnds(s)
  BY <1>2 DEF Connects, ConnectLists, ConnectEnds
<1>3. CASE ConnectRecovers(s) \/ ConnectReplays(s) \/ Disconnects(s)
  BY <1>3 DEF ConnectRecovers, ConnectReplays, Disconnects
<1>4. /\ \A a \in Actors : Emit(a) => UNCHANGED <<conn, listed>>
      /\ \A r \in Runs : TaskCompletes(r) \/ TaskEnds(r) => UNCHANGED <<conn, listed>>
      /\ \A h \in Threads, x \in Bridges, c \in Commands :
           Arrives(h, x, c) => UNCHANGED <<conn, listed>>
      /\ UNCHANGED vars => UNCHANGED <<conn, listed>>
  BY DEF Emit, EmitDrops, EmitReads, EmitRecords, EmitSends, TaskCompletes, TaskEnds, TaskClears,
     SlotCloses, Arrives, vars, sockets
<1>5. \A h \in Threads : Handle(h) => UNCHANGED <<conn, listed>>
  BY DEF Handle, BeginReplays, BeginAccepts, BeginUnnamed, StartRefused, StartAdmitted,
     StartOpens, StartScheduled, StartUnschedulable, CancelSelects, CancelReads, CancelUpdates,
     CancelSignals, CancelReports, CheckAnswers, sockets
<1>. QED
  BY <1>1, <1>2, <1>3, <1>4, <1>5 DEF Next, Connect

LEMMA InitFollow == Init => FollowInv
BY Constants DEF Init, FollowInv, EmitsListed, Quiet, NotEmitting

\* The call of a bridge's own on_connect, while there is one.
LEMMA OwnCall ==
  ASSUME TypesInv, CommandsInv, NEW s \in Bridges, ~Quiet(s)
  PROVE  \E c \in Commands : emission[s].queue = <<Result(c, "failed", TRUE)>>
                             /\ Head(emission[s].queue).cmd = c /\ Tail(emission[s].queue) = <<>>
<1>1. PICK c : emission[s].queue = <<Result(c, "failed", TRUE)>>
  BY DEF CommandsInv, BridgesSettle, BridgeSettles, Quiet
<1>2. Head(emission[s].queue) \in Call
  BY <1>1, Constants, QuietIsIdle, CallQueue DEF TypesInv, Quiet
<1>3. Head(emission[s].queue).cmd = c /\ Tail(emission[s].queue) = <<>>
  BY <1>1 DEF Result
<1>4. c \in Commands
  BY <1>2, <1>3 DEF Call
<1>. QED
  BY <1>1, <1>3, <1>4

LEMMA EmitsListedStep ==
  ASSUME TypesInv, CommandsInv, FollowInv, [Next]_vars, NEW s \in Bridges
  PROVE  EmitsListed(s)'
<1>. USE Constants
<1>1. CASE Restarts
  BY <1>1 DEF Restarts, EmitsListed, Quiet, NotEmitting
<1>2. CASE ~Restarts /\ emission'[s].queue = emission[s].queue /\ ~Quiet(s)
  <2>1. conn[s] = "replaying" /\ Listed(s, Head(emission[s].queue).cmd)
    BY <1>2 DEF FollowInv, EmitsListed
  <2>2. conn'[s] = conn[s] /\ listed'[s] = listed[s]
    BY <1>2, <2>1, ConnSteps DEF Connects, ConnectLists, ConnectEnds, ConnectReplays, ConnectRecovers
  <2>. QED
    BY <1>2, <2>1, <2>2 DEF EmitsListed, Listed
<1>3. CASE emission'[s].queue = emission[s].queue /\ Quiet(s)
  BY <1>3 DEF EmitsListed, Quiet
<1>4. CASE Emit(s) /\ emission'[s].queue = Tail(emission[s].queue)
  <2>1. ~Quiet(s)
    BY <1>4 DEF Emit, EmitDrops, EmitReads, EmitRecords, EmitSends, TypesInv, EmissionsOK
  <2>. QED
    BY <1>4, <2>1, OwnCall DEF EmitsListed, Quiet
<1>5. CASE ConnectRecovers(s)
  <2>1. PICK l \in listed[s] :
          /\ Emits(s, l.cmd, "failed", TRUE)
          /\ listed' = [listed EXCEPT ![s] = (@ \ {l}) \union {[l EXCEPT !.status = "failed"]}]
    BY <1>5 DEF ConnectRecovers
  <2>2. conn'[s] = "replaying" /\ emission[s].queue = <<>>
    BY <1>5 DEF ConnectRecovers, Quiet
  <2>3. Result(l.cmd, "failed", TRUE) \in Call
    BY DEF TypesInv, SocketsOK, Result, Call
  <2>4. emission'[s].queue = Append(<<>>, Result(l.cmd, "failed", TRUE))
    BY <2>1, <2>2 DEF Emits, TypesInv, EmissionsOK, Emission
  <2>5. Head(emission'[s].queue) = Result(l.cmd, "failed", TRUE)
    BY <2>3, <2>4
  <2>6. [l EXCEPT !.status = "failed"] \in listed'[s] /\ [l EXCEPT !.status = "failed"].cmd = l.cmd
    BY <2>1 DEF TypesInv, SocketsOK
  <2>. QED
    <3>1. Head(emission'[s].queue).cmd = l.cmd
      BY <2>5 DEF Result
    <3>2. Listed(s, Head(emission[s].queue).cmd)'
      BY <2>6, <3>1 DEF Listed
    <3>. QED
      BY <2>2, <3>2 DEF EmitsListed
<1>. QED
  BY <1>1, <1>2, <1>3, <1>4, <1>5, QueueSteps

\* A receipt that has reached a bridge, or is about to, stays known to it.
LEMMA HasStays ==
  ASSUME TypesInv, CommandsInv, [Next]_vars, NEW s \in bridges, s \in bridges', NEW r, Has(s, r)
  PROVE  Has(s, r)'
<1>1. s \in Bridges /\ ~Restarts /\ ~Disconnects(s)
  BY DEF TypesInv, SocketsOK, Restarts, Disconnects
<1>2. inbox[s] \subseteq inbox'[s]
  BY <1>1, InboxGrows
<1>3. CASE r \in inbox[s]
  BY <1>2, <1>3 DEF Has
<1>4. ASSUME NEW a \in Actors, a # s, emission[a].pc = "sending", Told(Head(emission[a].queue)) = r
      PROVE  Has(s, r)'
  <2>1. CASE emission'[a] = emission[a]
    BY <1>4, <2>1 DEF Has, Told
  <2>2. CASE EmitSends(a)
    <3>1. s \in Recipients(a)
      BY <1>4 DEF Recipients
    <3>2. r \in inbox'[s]
      BY <1>1, <1>4, <2>2, <3>1 DEF EmitSends
    <3>. QED
      BY <3>2 DEF Has
  <2>3. ~EmitRecords(a)
    BY <1>4 DEF EmitRecords
  <2>. QED
    BY <1>1, <1>4, <2>1, <2>2, <2>3, OnlyTheHolder
<1>. QED
  BY <1>3, <1>4 DEF Has

\* What is known of a command stays so: a receipt that is being recorded is about to be
\* sent, except to the bridge whose on_connect records it.
LEMMA KnowsStays ==
  ASSUME TypesInv, CommandsInv, [Next]_vars, NEW s \in bridges, s \in bridges',
         NEW c \in Commands, Knows(s, c), ~(EmitRecords(s) /\ Head(emission[s].queue).cmd = c)
  PROVE  Knows(s, c)'
<1>1. \A r \in Evidence(c) : Has(s, r)'
  BY HasStays DEF Knows
<1>2. CASE receipts'[c] = receipts[c]
  <2>1. Evidence(c)' = Evidence(c)
    BY <1>2 DEF Evidence
  <2>. QED
    BY <1>1, <2>1 DEF Knows
<1>3. CASE \E a \in Actors : EmitRecords(a)
  <2>1. PICK a \in Actors : EmitRecords(a)
    BY <1>3
  <2>2. PICK d \in Call :
           /\ d = Head(emission[a].queue)
           /\ receipts' = [receipts EXCEPT ![d.cmd] = Append(receipts[d.cmd], d.status)]
    BY <2>1, Recording
  <2>3. d.cmd \in Commands /\ d.status \in Statuses /\ receipts \in [Commands -> Seq(Statuses)]
    BY DEF Call, Statuses, TypesInv, RowsOK
  <2>4. CASE d.cmd # c
    BY <1>2, <2>2, <2>3, <2>4
  <2>5. CASE d.cmd = c
    <3>1. a # s
      BY <2>1, <2>2, <2>5
    <3>2. emission'[a].pc = "sending" /\ emission'[a].queue = emission[a].queue
      BY <2>1, PcWrites DEF EmitRecords, TypesInv, EmissionsOK
    <3>3. Has(s, Told(d))'
      BY <2>2, <3>1, <3>2 DEF Has, Told
    <3>4. receipts'[c] = Append(receipts[c], d.status)
      BY <2>2, <2>3, <2>5
    <3>5. \A i \in DOMAIN receipts'[c] :
             receipts'[c][i] = d.status \/ (i \in DOMAIN receipts[c] /\ receipts'[c][i] = receipts[c][i])
      BY <2>3, <3>4
    <3>6. \A r \in Evidence(c)' : r = Told(d) \/ r \in Evidence(c)
      BY <2>5, <3>5 DEF Evidence, Told
    <3>. QED
      BY <1>1, <3>3, <3>6 DEF Knows
  <2>. QED
    BY <2>4, <2>5
<1>4. CASE UNCHANGED durable \/ Restarts
  BY <1>2, <1>4 DEF durable, Restarts
<1>. QED
  BY <1>3, <1>4, RowSteps

LEMMA FollowsStep ==
  ASSUME TypesInv, CommandsInv, LedgerInv, FollowInv, [Next]_vars, NEW s \in bridges'
  PROVE  Follows(s)'
<1>1. ~Restarts /\ ~Disconnects(s)
  BY DEF Restarts, Disconnects
<1>2. s \in Bridges
  BY StepTypes DEF TypesInv, SocketsOK
<1>3. CASE s \notin bridges
  <2>1. conn[s] = "out"
    BY <1>3, BridgesJoin
  <2>2. conn'[s] \in {"out", "listing"}
    BY <1>1, <1>2, <2>1, ConnSteps DEF ConnectLists, ConnectEnds
  <2>. QED
    BY <2>2 DEF Follows
<1>4. CASE s \in bridges
  <2>1. Follows(s) /\ EmitsListed(s)
    BY <1>2, <1>4 DEF FollowInv
  <2>0. Quiet(s) => ~EmitRecords(s)
    BY <1>2, Constants, QuietIsIdle DEF EmitRecords, TypesInv
  <2>2. ASSUME NEW c \in Commands, Knows(s, c), ~EmitRecords(s)
        PROVE  Knows(s, c)'
    BY <1>4, <2>2, KnowsStays
  <2>3. CASE ConnectLists(s)
    <3>1. ASSUME NEW c \in Commands
          PROVE  Listed(s, c)' \/ Knows(s, c)'
      <4>1. CASE row[c] = "none"
        <5>1. receipts'[c] = <<>>
          BY <2>3, <4>1 DEF LedgerInv, RowsAreBooked, Booked, ConnectLists, durable
        <5>. QED
          BY <5>1 DEF Knows, Evidence
      <4>2. CASE row[c] # "none"
        <5>1. [cmd |-> c, status |-> row[c]] \in listed'[s]
          BY <1>2, <2>3, <4>2 DEF ConnectLists, TypesInv, SocketsOK
        <5>. QED
          BY <5>1 DEF Listed
      <4>. QED
        BY <4>1, <4>2
    <3>2. conn'[s] = "replaying"
      BY <1>2, <2>3 DEF ConnectLists, TypesInv, SocketsOK
    <3>. QED
      BY <3>1, <3>2 DEF Follows
  <2>4. CASE ConnectEnds(s)
    <3>1. conn[s] = "replaying" /\ listed[s] = {} /\ ~EmitRecords(s)
      BY <2>0, <2>4 DEF ConnectEnds
    <3>2. \A c \in Commands : Knows(s, c)'
      BY <2>1, <2>2, <3>1 DEF Follows, Listed
    <3>3. conn'[s] = "in"
      BY <1>2, <2>4 DEF ConnectEnds, TypesInv, SocketsOK
    <3>. QED
      BY <3>2, <3>3 DEF Follows
  <2>5. CASE ConnectReplays(s)
    <3>1. PICK l \in listed[s] :
            /\ inbox' = [inbox EXCEPT ![s] = IF Named(s) THEN @ \union Evidence(l.cmd) ELSE @]
            /\ listed' = [listed EXCEPT ![s] = @ \ {l}]
      BY <2>5 DEF ConnectReplays
    <3>2. conn[s] = "replaying" /\ conn'[s] = "replaying" /\ ~EmitRecords(s) /\ receipts' = receipts
      BY <2>0, <2>5 DEF ConnectReplays, durable
    <3>3. Evidence(l.cmd) \subseteq inbox'[s]
      BY <1>2, <1>4, <3>1 DEF Named, TypesInv, SocketsOK
    <3>4. Knows(s, l.cmd)'
      BY <3>2, <3>3 DEF Knows, Has, Evidence
    <3>5. ASSUME NEW c \in Commands, Listed(s, c), c # l.cmd
          PROVE  Listed(s, c)'
      BY <1>2, <3>1, <3>5 DEF Listed, TypesInv, SocketsOK
    <3>6. \A c \in Commands : Listed(s, c)' \/ Knows(s, c)'
      BY <2>1, <2>2, <3>2, <3>4, <3>5 DEF Follows
    <3>. QED
      BY <3>2, <3>6 DEF Follows
  <2>6. CASE ConnectRecovers(s)
    <3>1. PICK l \in listed[s] :
            listed' = [listed EXCEPT ![s] = (@ \ {l}) \union {[l EXCEPT !.status = "failed"]}]
      BY <2>6 DEF ConnectRecovers
    <3>2. conn[s] = "replaying" /\ conn'[s] = "replaying" /\ ~EmitRecords(s)
      BY <2>0, <2>6 DEF ConnectRecovers
    <3>3. [l EXCEPT !.status = "failed"].cmd = l.cmd
      BY DEF TypesInv, SocketsOK
    <3>4. \A c \in Commands : Listed(s, c) => Listed(s, c)'
      BY <1>2, <3>1, <3>3 DEF Listed, TypesInv, SocketsOK
    <3>. QED
      BY <2>1, <2>2, <3>2, <3>4 DEF Follows
  <2>7. CASE conn'[s] = conn[s] /\ listed'[s] = listed[s]
    <3>1. ASSUME NEW c \in Commands, Knows(s, c)
          PROVE  Knows(s, c)' \/ (conn[s] = "replaying" /\ Listed(s, c))
      <4>1. CASE EmitRecords(s)
        <5>1. ~Quiet(s)
          BY <1>2, <4>1, Constants DEF EmitRecords, TypesInv, EmissionsOK
        <5>2. conn[s] = "replaying" /\ Listed(s, Head(emission[s].queue).cmd)
          BY <2>1, <5>1 DEF EmitsListed
        <5>. QED
          BY <1>4, <3>1, <5>2, KnowsStays
      <4>. QED
        BY <2>2, <3>1, <4>1
    <3>. QED
      BY <2>1, <2>7, <3>1 DEF Follows, Listed
  <2>8. ~Connects(s)
    BY <1>4 DEF Connects, TypesInv, SocketsOK
  <2>. QED
    BY <1>1, <1>2, <2>3, <2>4, <2>5, <2>6, <2>7, <2>8, ConnSteps
<1>. QED
  BY <1>3, <1>4

THEOREM FollowInvariant == Spec => []FollowInv
<1>1. TypesInv /\ CommandsInv /\ LedgerInv /\ FollowInv /\ [Next]_vars => FollowInv'
  BY EmitsListedStep, FollowsStep DEF FollowInv
<1>. QED
  BY InitFollow, <1>1, TypesInvariant, CommandsInvariant, LedgerInvariant, PTL DEF Spec

\* on_connect and emit_command_result: a bridge that has connected has every receipt that is
\* recorded, from its replay or live, or a thread is just about to send it, and no command is
\* left interrupted; whatever is accepted, answered or recovered while it connects.
THEOREM ConnectedBridgesAreCurrent == Spec => []BridgesAreCurrent
<1>1. ASSUME TypesInv, FollowInv, NEW s \in bridges, NEW c \in Commands, conn[s] = "in"
      PROVE  Evidence(c) \subseteq inbox[s] \union
               {Told(Head(emission[a].queue)) : a \in {x \in Actors : emission[x].pc = "sending"}}
  BY <1>1 DEF FollowInv, Follows, Knows, Has
<1>2. TypesInv /\ FollowInv => BridgesKnowReceipts
  BY <1>1 DEF BridgesKnowReceipts
<1>. QED
  BY <1>2, TypesInvariant, FollowInvariant, InterruptedAreSettled, PTL DEF BridgesAreCurrent

-----------------------------------------------------------------------------
(* Every scan that ends is answered.                                        *)

\* Somebody holds a terminal receipt of the command, and will record or find it recorded.
Answering(c) ==
  \E a \in Actors : \E i \in DOMAIN emission[a].queue :
    /\ emission[a].queue[i].cmd = c /\ emission[a].queue[i].status # "accepted"
    /\ emission[a].queue[i].named

AnsweredOnce ==
  \A s \in Bridges : \A i \in DOMAIN job[s].start :
    job[s].status \in Over /\ job[s].start[i].named /\ row[job[s].start[i].cmd] = "running" =>
      Answering(job[s].start[i].cmd)

\* A terminal receipt that is being sent is on record.
SentIsSettled ==
  \A a \in Actors :
    emission[a].pc = "sending" =>
      emission[a].queue[1].status = "accepted" \/ row[emission[a].queue[1].cmd] \in Terminal

BeginsQuietly == \A h \in Threads : req[h].pc = "begin" => Quiet(h)

AnswerInv == AnsweredOnce /\ SentIsSettled /\ BeginsQuietly

LEMMA InitAnswer == Init => AnswerInv
BY Constants DEF Init, AnswerInv, AnsweredOnce, SentIsSettled, BeginsQuietly, Quiet, NotEmitting, NoJob,
   NoReq

\* A settled row stays settled; a running one was accepted before.
LEMMA RowsSettle ==
  ASSUME TypesInv, LedgerInv, [Next]_vars, NEW c \in Commands
  PROVE  /\ row[c] \in Terminal => row'[c] = row[c]
         /\ row'[c] = "running" /\ row[c] # "none" => row[c] = "running"
         /\ row'[c] = "interrupted" => row[c] = "interrupted" \/ Restarts
<1>1. CASE UNCHANGED durable
  BY <1>1 DEF durable
<1>2. CASE Restarts
  BY <1>2 DEF Restarts, Reconciled, Terminal
<1>3. CASE \E a \in Actors : EmitRecords(a)
  <2>1. PICK a \in Actors : EmitRecords(a)
    BY <1>3
  <2>2. PICK d \in Call :
           d = emission[a].queue[1] /\ row' = [row EXCEPT ![d.cmd] = RowStatus(d.status)]
    BY <2>1, Recording
  <2>3. IF d.status = "accepted" THEN row[d.cmd] = "none" ELSE row[d.cmd] \in {"running", "interrupted"}
    BY <2>1, <2>2 DEF LedgerInv, QueuesOK, QueueOK, EmitRecords
  <2>4. IF d.status = "accepted" THEN RowStatus(d.status) = "running" ELSE RowStatus(d.status) \in Terminal
    BY DEF RowStatus, Terminal
  <2>. QED
    BY <2>2, <2>3, <2>4 DEF TypesInv, RowsOK, Terminal
<1>. QED
  BY <1>1, <1>2, <1>3, RowSteps

\* Where the calls of a queue go that loses its head.
LEMMA HeadLeaves ==
  ASSUME NEW q \in Seq(Call), q # <<>>, NEW i \in DOMAIN q, i # 1
  PROVE  i - 1 \in DOMAIN Tail(q) /\ Tail(q)[i - 1] = q[i]
<1>1. /\ Tail(q) \in Seq(Call) /\ Len(Tail(q)) = Len(q) - 1
      /\ \A k \in 1..Len(Tail(q)) : Tail(q)[k] = q[k + 1]
  BY HeadTailProperties, Zenon
<1>2. Len(q) \in Nat /\ i \in 1..Len(q) /\ DOMAIN Tail(q) = 1..Len(Tail(q))
  BY <1>1
<1>3. i - 1 \in 1..Len(Tail(q)) /\ (i - 1) + 1 = i
  BY <1>1, <1>2
<1>. QED
  BY <1>1, <1>2, <1>3

\* A queue is only replaced while it is empty.
LEMMA QueueReplaced ==
  ASSUME TypesInv, AnswerInv, [Next]_vars, ~Restarts, NEW a \in Actors
  PROVE  \/ emission'[a].queue = emission[a].queue
         \/ Emit(a) /\ emission'[a].queue = Tail(emission[a].queue)
         \/ Quiet(a)
<1>1. a \in Threads /\ Handle(a) => Quiet(a)
  BY DEF Handle, BeginReplays, BeginAccepts, BeginUnnamed, StartRefused, StartAdmitted, StartOpens,
     StartScheduled, StartUnschedulable, CancelSelects, CancelReads, CancelUpdates, CancelSignals,
     CancelReports, CheckAnswers, Performs, At, AnswerInv, BeginsQuietly
<1>2. a \in Runs /\ TaskCompletes(a) => Quiet(a)
  BY DEF TaskCompletes, TypesInv, EmissionsOK
<1>3. a \in Bridges /\ ConnectRecovers(a) => Quiet(a)
  BY DEF ConnectRecovers
<1>. QED
  BY <1>1, <1>2, <1>3, QueueSteps

\* The answer to a running command is held until the row is settled.
LEMMA AnsweringStays ==
  ASSUME TypesInv, CommandsInv, LedgerInv, AnswerInv, [Next]_vars, ~Restarts, NEW c \in Commands,
         row'[c] = "running", Answering(c)
  PROVE  Answering(c)'
<1>1. PICK a \in Actors : \E i \in DOMAIN emission[a].queue :
          /\ emission[a].queue[i].cmd = c /\ emission[a].queue[i].status # "accepted"
          /\ emission[a].queue[i].named
  BY DEF Answering
<1>. DEFINE q == emission[a].queue
<1>2. PICK i \in DOMAIN q : q[i].cmd = c /\ q[i].status # "accepted" /\ q[i].named
  BY <1>1
<1>3. q \in Seq(Call) /\ q # <<>> /\ Head(q) = q[1]
  BY <1>2, QuietIsIdle, CallQueue DEF TypesInv
<1>4. CASE emission'[a].queue = q
  BY <1>2, <1>4 DEF Answering
<1>5. CASE Emit(a) /\ emission'[a].queue = Tail(q)
  <2>1. CASE i = 1
    <3>1. row[c] \notin Terminal
      BY RowsSettle DEF Terminal
    <3>2. ~EmitDrops(a) /\ ~EmitSends(a)
      BY <1>2, <1>3, <2>1, <3>1 DEF EmitDrops, EmitSends, AnswerInv, SentIsSettled
    <3>3. CASE EmitReads(a)
      <4>1. emission' = [emission EXCEPT ![a].pc = "recording"]
        BY <1>2, <1>3, <2>1, <3>1, <3>3 DEF EmitReads, Saved
      <4>2. emission'[a].queue = q
        BY <4>1, PcWrites DEF TypesInv, EmissionsOK
      <4>. QED
        BY <1>4, <4>2
    <3>4. CASE EmitRecords(a)
      <4>1. emission'[a].queue = q
        BY <3>4, PcWrites DEF EmitRecords, TypesInv, EmissionsOK
      <4>. QED
        BY <1>4, <4>1
    <3>. QED
      BY <1>5, <3>2, <3>3, <3>4 DEF Emit
  <2>2. CASE i # 1
    <3>1. i - 1 \in DOMAIN Tail(q) /\ Tail(q)[i - 1] = q[i]
      BY <1>3, <2>2, HeadLeaves
    <3>. HIDE DEF q
    <3>. QED
      BY <1>2, <1>5, <3>1 DEF Answering
  <2>. QED
    BY <2>1, <2>2
<1>6. ~Quiet(a)
  BY <1>3 DEF Quiet
<1>. QED
  BY <1>4, <1>5, <1>6, QueueReplaced

\* The run r ends the record of s, and one caller of complete() emits what that owes.
Scanning(r) == task[r].pc \in {"admitted", "body"}

Ends(r, s) ==
  /\ Scanning(r) /\ task[r].owner = s
  /\ task' = [task EXCEPT ![r] = task'[r]]
  /\ task'[r].pc \in {"closing", "reporting"} /\ task'[r].verdict = job'[s].status
  /\ task'[r].owner = s /\ task'[r].cmd = task[r].cmd
  /\ job' = [job EXCEPT ![s].status = job'[s].status] /\ job'[s].status \in Over
  /\ \E a \in Actors : emission'[a].queue = Owed(job'[s])

LEMMA CompletionEnds ==
  ASSUME TypesInv, NEW a \in Actors, NEW r \in Runs, NEW s \in Bridges, NEW v \in Over,
         NEW pc \in {"closing", "reporting"}, Scanning(r), task[r].owner = s, Completed(a, s, v),
         task' = [task EXCEPT ![r].pc = pc, ![r].verdict = v]
  PROVE  Ends(r, s)
<1>1. /\ task[r] \in Task /\ task \in [Runs -> Task] /\ job \in [Bridges -> Job]
      /\ emission \in [Actors -> Emission]
  BY DEF TypesInv, TasksOK, JobsOK, EmissionsOK
<1>2. /\ task'[r].pc = pc /\ task'[r].verdict = v /\ task'[r].owner = s
      /\ task'[r].cmd = task[r].cmd
  BY <1>1 DEF Task
<1>3. task' = [task EXCEPT ![r] = task'[r]]
  BY <1>1
<1>4. job' = [job EXCEPT ![s].status = v] /\ job'[s].status = v
  BY <1>1, RecordFields DEF Completed
<1>5. emission'[a].queue = Owed(job'[s])
  <2>1. emission' = [emission EXCEPT ![a].queue = Owed(job'[s])]
    BY DEF Completed
  <2>. QED
    BY <1>1, <2>1 DEF Emission
<1>. QED
  BY <1>2, <1>3, <1>4, <1>5 DEF Ends

LEMMA UnschedulableEnds ==
  ASSUME TypesInv, NEW h \in Threads, StartUnschedulable(h)
  PROVE  Ends(req[h].owner, req[h].sid) /\ req[h].owner \in Runs /\ req[h].sid \in Bridges
<1>1. Starting(h) /\ req[h].pc = "scheduling"
  BY DEF StartUnschedulable, At, Starting
<1>2. req[h].owner \in Runs /\ req[h].sid \in Bridges /\ Scanning(req[h].owner)
      /\ task[req[h].owner].owner = req[h].sid
  BY <1>1 DEF TypesInv, StartsOK, Scanning, ReqsOK, ReqOK
<1>. QED
  BY <1>2, CompletionEnds, Constants DEF StartUnschedulable, Over

LEMMA TaskCompletesEnds ==
  ASSUME TypesInv, NEW r \in Runs, TaskCompletes(r)
  PROVE  Ends(r, task[r].owner) /\ task[r].owner \in Bridges
<1>1. Scanning(r) /\ task[r].owner \in Bridges
  BY DEF TaskCompletes, Scanning, TypesInv, TasksOK
<1>. QED
  BY <1>1, CompletionEnds, Constants DEF TaskCompletes

\* A record is over because it was, or because its scan has just ended.
LEMMA RecordEnds ==
  ASSUME TypesInv, [Next]_vars, NEW s \in Bridges, job'[s].status \in Over
  PROVE  /\ job'[s].start = job[s].start
         /\ job'[s].status = job[s].status \/ \E r \in Runs : Ends(r, s)
<1>. USE DEF TypesInv, JobsOK
<1>1. ASSUME NEW h \in Threads, StartAdmitted(h)
      PROVE  job'[s] = job[s]
  BY <1>1 DEF StartAdmitted, NoJob, Over
<1>2. ASSUME NEW h \in Threads, CancelUpdates(h)
      PROVE  job'[s].status = job[s].status /\ job'[s].start = job[s].start
  BY <1>2 DEF CancelUpdates, Job
<1>3. ASSUME NEW h \in Threads, CancelSignals(h)
      PROVE  job'[s].status = job[s].status /\ job'[s].start = job[s].start
  <2>1. PICK expected \in BOOLEAN :
          job' = [job EXCEPT ![req[h].owner].status =
                    IF @ = "running" /\ expected THEN "cancelling" ELSE @]
    BY <1>3 DEF CancelSignals
  <2>2. CASE s # req[h].owner
    BY <2>1, <2>2
  <2>3. CASE s = req[h].owner
    <3>1. job'[s].status = IF job[s].status = "running" /\ expected THEN "cancelling" ELSE job[s].status
      BY <2>1, <2>3, RecordFields
    <3>2. job'[s].start = job[s].start
      BY <2>1, <2>3, RecordFields
    <3>. QED
      BY <3>1, <3>2 DEF Over
  <2>. QED
    BY <2>2, <2>3
<1>4. ASSUME NEW o \in Bridges, NEW r \in Runs, Ends(r, o)
      PROVE  /\ job'[s].start = job[s].start
             /\ job'[s].status = job[s].status \/ s = o
  <2>1. PICK v : job' = [job EXCEPT ![o].status = v]
    BY <1>4 DEF Ends
  <2>2. CASE s = o
    BY <2>1, <2>2, RecordFields
  <2>3. CASE s # o
    BY <2>1, <2>3
  <2>. QED
    BY <2>2, <2>3
<1>5. \A h \in Threads : StartUnschedulable(h) =>
        Ends(req[h].owner, req[h].sid) /\ req[h].owner \in Runs /\ req[h].sid \in Bridges
  BY UnschedulableEnds
<1>6. \A r \in Runs : TaskCompletes(r) => Ends(r, task[r].owner) /\ task[r].owner \in Bridges
  BY TaskCompletesEnds
<1>7. ASSUME NEW r \in Runs, TaskClears(r)
      PROVE  job'[s] = job[s]
  BY <1>7 DEF TaskClears, NoJob, Over
<1>8. ASSUME NEW x \in Bridges, Disconnects(x)
      PROVE  job'[s] = job[s]
  <2>1. CASE Active(x) /\ s = x
    <3>1. job'[s].status = job[s].status
      BY <1>8, <2>1 DEF Disconnects, Job
    <3>. QED
      BY <2>1, <3>1 DEF Active, Over
  <2>2. CASE ~Active(x) /\ s = x
    BY <1>8, <2>2 DEF Disconnects, NoJob, Over
  <2>3. CASE s # x
    BY <1>8, <2>3 DEF Disconnects
  <2>. QED
    BY <2>1, <2>2, <2>3
<1>9. ~Restarts
  BY DEF Restarts, NoJob, Over
<1>. QED
  BY <1>1, <1>2, <1>3, <1>4, <1>5, <1>6, <1>7, <1>8, <1>9, JobSteps

LEMMA AnsweredStep ==
  ASSUME TypesInv, CommandsInv, LedgerInv, AnswerInv, [Next]_vars
  PROVE  AnsweredOnce'
<1>. SUFFICES ASSUME NEW s \in Bridges, NEW i \in DOMAIN job'[s].start, NEW c,
                     job'[s].status \in Over, job'[s].start[i].named, job'[s].start[i].cmd = c,
                     row'[c] = "running"
              PROVE  Answering(c)'
  BY DEF AnsweredOnce, Answering
<1>1. /\ job'[s].start = job[s].start
      /\ job'[s].status = job[s].status \/ \E r \in Runs : Ends(r, s)
  BY RecordEnds
<1>2. c \in Commands /\ row[c] # "none"
  <2>1. job[s].start \in Seq(Entry)
    BY DEF TypesInv, JobsOK, Job
  <2>2. job[s].start[i] \in Entry /\ job[s].start[i].named /\ job[s].start[i].cmd = c
    BY <1>1, <2>1
  <2>. QED
    BY <1>1, <2>2 DEF Entry, LedgerInv, EntriesOnRecord, OnRecord
<1>3. row[c] = "running" /\ ~Restarts
  BY <1>2, RowsSettle DEF Restarts, Reconciled
<1>4. CASE job'[s].status = job[s].status
  <2>1. Answering(c)
    BY <1>1, <1>3, <1>4 DEF AnswerInv, AnsweredOnce
  <2>. QED
    BY <1>2, <1>3, <2>1, AnsweringStays
<1>5. CASE \E r \in Runs : Ends(r, s)
  <2>1. PICK a \in Actors : emission'[a].queue = Owed(job'[s])
    BY <1>5 DEF Ends
  <2>2. job'[s] \in Job
    BY StepTypes DEF TypesInv, JobsOK
  <2>3. i \in DOMAIN Owed(job'[s]) /\ Owed(job'[s])[i] = Result(c, StartResult(job'[s].status), TRUE)
    <3>1. i \in DOMAIN Owed(job'[s])
          /\ Owed(job'[s])[i] = Result(job'[s].start[i].cmd, StartResult(job'[s].status),
                                       job'[s].start[i].named)
      BY <2>2, OwedCalls
    <3>2. job'[s].start[i].named = TRUE
      <4>1. job'[s].start \in Seq(Entry)
        BY <2>2 DEF Job
      <4>2. job'[s].start[i] \in Entry
        BY <4>1
      <4>. QED
        BY <4>2 DEF Entry
    <3>. QED
      BY <3>1, <3>2
  <2>4. StartResult(job'[s].status) # "accepted"
    BY DEF StartResult
  <2>. QED
    BY <2>1, <2>3, <2>4 DEF Answering, Result
<1>. QED
  BY <1>1, <1>4, <1>5

\* A receipt is sent after it is recorded.
LEMMA SendingSteps ==
  ASSUME TypesInv, [Next]_vars, NEW a \in Actors, emission'[a].pc = "sending"
  PROVE  emission[a].pc = "sending" \/ EmitRecords(a)
<1>. USE Constants
<1>1. emission \in [Actors -> Emission]
  BY DEF TypesInv, EmissionsOK
<1>2. ASSUME NEW b \in Actors, NEW q, emission' = [emission EXCEPT ![b].queue = q]
      PROVE  emission[a].pc = "sending"
  BY <1>1, <1>2 DEF Emission
<1>3. ASSUME NEW b \in Actors, Emit(b)
      PROVE  emission[a].pc = "sending" \/ EmitRecords(a)
  <2>1. CASE EmitDrops(b)
    BY <1>2, <2>1 DEF EmitDrops
  <2>2. CASE EmitReads(b)
    <3>1. CASE emission' = [emission EXCEPT ![b].queue = Tail(@)]
      BY <1>2, <3>1
    <3>2. CASE emission' = [emission EXCEPT ![b].pc = "recording"]
      BY <1>1, <3>2 DEF Emission
    <3>. QED
      BY <2>2, <3>1, <3>2 DEF EmitReads
  <2>3. CASE EmitRecords(b)
    BY <1>1, <2>3 DEF EmitRecords
  <2>4. CASE EmitSends(b)
    BY <1>1, <2>4 DEF EmitSends
  <2>. QED
    BY <1>3, <2>1, <2>2, <2>3, <2>4 DEF Emit
<1>4. ASSUME NEW h \in Threads, Handle(h)
      PROVE  emission[a].pc = "sending"
  <2>1. CASE BeginAccepts(h)
    BY <1>1, <2>1 DEF BeginAccepts
  <2>2. emission' = emission \/ BeginAccepts(h) \/ \E q : emission' = [emission EXCEPT ![h].queue = q]
    BY <1>4 DEF Handle, BeginReplays, BeginUnnamed, StartRefused, StartAdmitted,
       StartOpens, StartScheduled, StartUnschedulable, CancelSelects, CancelReads, CancelUpdates,
       CancelSignals, CancelReports, CheckAnswers, Completed, Answers, Emits
  <2>. QED
    BY <1>2, <2>1, <2>2
<1>5. ASSUME NEW r \in Runs, TaskCompletes(r) \/ TaskEnds(r)
      PROVE  emission[a].pc = "sending"
  <2>1. emission' = emission \/ \E q : emission' = [emission EXCEPT ![r].queue = q]
    BY <1>5 DEF TaskCompletes, Completed, TaskEnds, TaskClears, SlotCloses
  <2>. QED
    BY <1>2, <2>1
<1>6. ASSUME NEW s \in Bridges, Connects(s) \/ Connect(s) \/ Disconnects(s)
      PROVE  emission[a].pc = "sending"
  <2>1. emission' = emission \/ \E q : emission' = [emission EXCEPT ![s].queue = q]
    BY <1>6 DEF Connects, Connect, ConnectLists, ConnectRecovers, ConnectReplays, ConnectEnds,
       Disconnects, Emits
  <2>. QED
    BY <1>2, <2>1
<1>7. \A h \in Threads, x \in Bridges, c \in Commands : Arrives(h, x, c) => emission[a].pc = "sending"
  BY DEF Arrives
<1>8. UNCHANGED vars => emission[a].pc = "sending"
  BY DEF vars
<1>9. ~Restarts
  BY DEF Restarts, NotEmitting
<1>. QED
  BY <1>3, <1>4, <1>5, <1>6, <1>7, <1>8, <1>9 DEF Next

LEMMA SettledStep ==
  ASSUME TypesInv, CommandsInv, LedgerInv, AnswerInv, [Next]_vars
  PROVE  SentIsSettled'
<1>. SUFFICES ASSUME NEW a \in Actors, emission'[a].pc = "sending"
              PROVE  emission'[a].queue[1].status = "accepted"
                       \/ row'[emission'[a].queue[1].cmd] \in Terminal
  BY DEF SentIsSettled
<1>1. ~Restarts
  BY DEF Restarts, NotEmitting
<1>2. CASE emission'[a] = emission[a]
  <2>1. ~Quiet(a) /\ emission[a].queue \in Seq(Call)
    BY <1>2, QuietIsIdle DEF TypesInv, EmissionsOK
  <2>2. Head(emission[a].queue) \in Call /\ Head(emission[a].queue) = emission[a].queue[1]
    BY <2>1, CallQueue DEF Quiet
  <2>3. emission[a].queue[1].cmd \in Commands
    BY <2>2 DEF Call
  <2>. QED
    BY <1>2, <2>3, RowsSettle DEF AnswerInv, SentIsSettled
<1>3. CASE EmitRecords(a)
  <2>1. PICK d \in Call :
           d = emission[a].queue[1] /\ row' = [row EXCEPT ![d.cmd] = RowStatus(d.status)]
    BY <1>3, Recording
  <2>2. emission'[a].queue = emission[a].queue
    BY <1>3, PcWrites DEF EmitRecords, TypesInv, EmissionsOK
  <2>3. row'[d.cmd] = RowStatus(d.status) /\ (d.status # "accepted" => RowStatus(d.status) \in Terminal)
    BY <2>1 DEF TypesInv, RowsOK, Call, RowStatus, Terminal
  <2>. QED
    BY <2>1, <2>2, <2>3
<1>4. CASE EmitSends(a)
  BY <1>4 DEF EmitSends, TypesInv, EmissionsOK
<1>. QED
  BY <1>1, <1>2, <1>3, <1>4, OnlyTheHolder, SendingSteps

LEMMA BeginsStep ==
  ASSUME TypesInv, CommandsInv, LedgerInv, AnswerInv, [Next]_vars
  PROVE  BeginsQuietly'
<1>. SUFFICES ASSUME NEW h \in Threads, req'[h].pc = "begin"
              PROVE  Quiet(h)'
  BY DEF BeginsQuietly
<1>. USE DEF TypesInv, ReqsOK, Req
<1>1. ~Handle(h)
  <2>1. ~BeginReplays(h) /\ ~StartRefused(h) /\ ~StartScheduled(h) /\ ~StartUnschedulable(h)
        /\ ~CancelReports(h) /\ ~CheckAnswers(h)
    BY DEF BeginReplays, StartRefused, StartScheduled, StartUnschedulable, CancelReports,
       CheckAnswers, Answers, NoReq
  <2>2. ~BeginAccepts(h) /\ ~BeginUnnamed(h) /\ ~StartAdmitted(h) /\ ~StartOpens(h)
        /\ ~CancelSelects(h) /\ ~CancelUpdates(h) /\ ~CancelSignals(h)
    BY DEF BeginAccepts, BeginUnnamed, StartAdmitted, StartOpens, CancelSelects, CancelUpdates,
       CancelSignals
  <2>3. ~CancelReads(h)
    BY DEF CancelReads, Answers, NoReq
  <2>. QED
    BY <2>1, <2>2, <2>3 DEF Handle
<1>2. Quiet(h)
  <2>1. ASSUME NEW i \in Threads, i # h, Handle(i)
        PROVE  req'[h] = req[h]
    BY <2>1 DEF Handle, BeginReplays, BeginAccepts, BeginUnnamed, StartRefused, StartAdmitted,
       StartOpens, StartScheduled, StartUnschedulable, CancelSelects, CancelReads, CancelUpdates,
       CancelSignals, CancelReports, CheckAnswers, Answers
  <2>2. ASSUME NEW i \in Threads, NEW s \in Bridges, NEW c \in Commands, Arrives(i, s, c)
        PROVE  req'[h] = req[h] \/ Quiet(h)
    BY <2>2 DEF Arrives
  <2>3. ~Restarts
    BY DEF Restarts, NoReq
  <2>4. /\ \A a \in Actors : Emit(a) => UNCHANGED req
        /\ \A r \in Runs : TaskCompletes(r) \/ TaskEnds(r) => UNCHANGED req
        /\ \A x \in Bridges : Connects(x) \/ Connect(x) \/ Disconnects(x) => UNCHANGED req
        /\ UNCHANGED vars => UNCHANGED req
    BY DEF Emit, EmitDrops, EmitReads, EmitRecords, EmitSends, TaskCompletes, TaskEnds, TaskClears,
       SlotCloses, Connects, Connect, ConnectLists, ConnectRecovers, ConnectReplays, ConnectEnds,
       Disconnects, vars
  <2>5. req'[h] = req[h] \/ Quiet(h)
    BY <1>1, <2>1, <2>2, <2>3, <2>4 DEF Next
  <2>. QED
    BY <2>5 DEF AnswerInv, BeginsQuietly
<1>3. ~Emit(h)
  BY <1>2, Constants DEF Emit, EmitDrops, EmitReads, EmitRecords, EmitSends, EmissionsOK
<1>4. ~Restarts
  BY DEF Restarts, NoReq
<1>. QED
  BY <1>1, <1>2, <1>3, <1>4, Constants, QueueSteps DEF Quiet

THEOREM AnswerInvariant == Spec => []AnswerInv
<1>1. TypesInv /\ CommandsInv /\ LedgerInv /\ AnswerInv /\ [Next]_vars => AnswerInv'
  BY AnsweredStep, SettledStep, BeginsStep DEF AnswerInv
<1>. QED
  BY InitAnswer, <1>1, TypesInvariant, CommandsInvariant, LedgerInvariant, PTL DEF Spec

\* report_scan_completion: a scan that is over answers the command that started it, whoever
\* is connected: until its terminal receipt is recorded, somebody holds it.
THEOREM FinishedScansGetAnswers == Spec => []FinishedScansAreAnswered
<1>1. ASSUME TypesInv, AnswerInv, NEW s \in Bridges, NEW e \in ToSet(job[s].start),
             job[s].status \in Over, e.named, row[e.cmd] = "running"
      PROVE  Answering(e.cmd)
  BY <1>1 DEF AnswerInv, AnsweredOnce, ToSet
<1>2. TypesInv /\ AnswerInv => FinishedScansAreAnswered
  BY <1>1 DEF FinishedScansAreAnswered, Answering
<1>. QED
  BY <1>2, TypesInvariant, AnswerInvariant, PTL

-----------------------------------------------------------------------------
(* The receipt of a scan is true.  A record's named command is that of the  *)
(* run that scans for it, since nobody can start another scan for a bridge  *)
(* that is there while one is active; and one run has that command, unless  *)
(* it was let through without a receipt.                                    *)

Did(c) == \E r \in Runs : task[r].cmd = c /\ task[r].verdict = "completed"
DidNot(c) ==
  /\ ran[c] # 0
  /\ \A r \in Runs : task[r].cmd = c => task[r].verdict \in {"failed", "cancelled"}

\* What a receipt claims is so; a restart settles scans without a verdict.
Truthful(c, status) ==
  /\ status = "succeeded" => Did(c)
  /\ status = "failed" /\ restarts = 0 => DidNot(c)

RunsAreCommanded ==
  /\ \A r \in Runs : task[r].pc # "none" =>
       task[r].cmd \in Starts /\ ran[task[r].cmd] # 0 /\ conn[task[r].owner] # "out"
  /\ \A r, q \in Runs :
       q # r /\ task[r].pc # "none" /\ task[q].pc # "none" /\ task[q].cmd = task[r].cmd =>
         task[r].cmd \in stray

ScansOwn ==
  \A r \in Runs : Scanning(r) =>
    /\ task[r].verdict = "none"
    /\ \A i \in DOMAIN job[task[r].owner].start :
         job[task[r].owner].start[i].named => job[task[r].owner].start[i].cmd = task[r].cmd

ScansAreActive ==
  \A r \in Runs : Scanning(r) /\ task[r].owner \in bridges =>
    /\ Active(task[r].owner)
    /\ \A q \in Runs : Scanning(q) /\ task[q].owner = task[r].owner => q = r

LeftIsGone == \A s \in Bridges : job[s].disconnected => s \notin bridges /\ conn[s] # "out"

EntryKinds ==
  /\ \A h \in Threads : \A i \in DOMAIN req[h].ids : req[h].ids[i].cmd \in Cancels
  /\ \A s \in Bridges : /\ \A i \in DOMAIN job[s].start : job[s].start[i].cmd \in Starts
                        /\ \A i \in DOMAIN job[s].cancels : job[s].cancels[i].cmd \in Cancels

RecordsTell ==
  \A s \in Bridges : \A i \in DOMAIN job[s].start :
    job[s].status \in Over /\ job[s].start[i].named /\ job[s].start[i].cmd \notin stray =>
      Truthful(job[s].start[i].cmd, StartResult(job[s].status))

QueuesTell ==
  \A a \in Actors : \A i \in DOMAIN emission[a].queue :
    emission[a].queue[i].named /\ emission[a].queue[i].cmd \in Starts \ stray =>
      Truthful(emission[a].queue[i].cmd, emission[a].queue[i].status)

RowsTell ==
  \A c \in Starts \ stray :
    (row[c] = "completed" => Did(c)) /\ (row[c] = "failed" /\ restarts = 0 => DidNot(c))

InterruptedByRestart ==
  /\ \A c \in Commands : row[c] = "interrupted" => restarts # 0
  /\ \A s \in Bridges : \A l \in listed[s] : l.status = "interrupted" => restarts # 0

VerdictInv ==
  /\ RunsAreCommanded /\ ScansOwn /\ ScansAreActive /\ LeftIsGone /\ EntryKinds
  /\ RecordsTell /\ QueuesTell /\ RowsTell /\ InterruptedByRestart

LEMMA InitVerdict == Init => VerdictInv
<1>. SUFFICES ASSUME Init PROVE VerdictInv
  OBVIOUS
<1>1. RunsAreCommanded /\ ScansOwn /\ ScansAreActive
  BY DEF Init, RunsAreCommanded, ScansOwn, ScansAreActive, Scanning, NoTask
<1>2. LeftIsGone /\ EntryKinds /\ RecordsTell
  BY DEF Init, LeftIsGone, EntryKinds, RecordsTell, NoJob, NoReq
<1>3. QueuesTell
  BY DEF Init, QueuesTell, NotEmitting
<1>4. RowsTell
  BY CommandsAssumption DEF Init, RowsTell, Commands
<1>5. InterruptedByRestart
  BY DEF Init, InterruptedByRestart
<1>. QED
  BY <1>1, <1>2, <1>3, <1>4, <1>5 DEF VerdictInv

\* start_scan gives a free run to its command.
Admits(h, r) ==
  /\ StartAdmitted(h) /\ task[r].pc = "none"
  /\ task' = [task EXCEPT ![r] = task'[r]]
  /\ task'[r].pc = "admitted" /\ task'[r].verdict = "none"
  /\ task'[r].owner = req[h].sid /\ task'[r].cmd = req[h].cmd

SameRun(r) ==
  task'[r].owner = task[r].owner /\ task'[r].cmd = task[r].cmd /\ task'[r].verdict = task[r].verdict

\* What a step does to a run.
LEMMA RunSteps ==
  ASSUME TypesInv, [Next]_vars, NEW r \in Runs
  PROVE  \/ task'[r] = task[r]
         \/ \E h \in Threads : Admits(h, r)
         \/ Scanning(r) /\ task'[r].pc = "body" /\ SameRun(r)
         \/ Ends(r, task[r].owner) /\ task[r].owner \in Bridges
         \/ task[r].pc # "none" /\ task'[r].pc \in {"closing", "done"} /\ SameRun(r)
<1>. USE DEF TypesInv
<1>0. task \in [Runs -> Task]
  BY DEF TasksOK
<1>1. ASSUME NEW h \in Threads, StartAdmitted(h)
      PROVE  task'[r] = task[r] \/ Admits(h, r)
  <2>1. PICK q \in Runs :
          /\ task[q].pc = "none"
          /\ task' = [task EXCEPT ![q] =
                [NoTask EXCEPT !.pc = "admitted", !.owner = req[h].sid, !.cmd = req[h].cmd]]
    BY <1>1 DEF StartAdmitted
  <2>2. CASE q = r
    BY <1>0, <1>1, <2>1, <2>2 DEF Admits, NoTask
  <2>. QED
    BY <1>0, <2>1, <2>2
<1>2. ASSUME NEW h \in Threads, StartScheduled(h)
      PROVE  task'[r] = task[r] \/ (Scanning(r) /\ task'[r].pc = "body" /\ SameRun(r))
  <2>1. Starting(h) /\ task' = [task EXCEPT ![req[h].owner].pc = "body"]
    BY <1>2 DEF StartScheduled, At, Starting
  <2>2. CASE r = req[h].owner
    <3>1. Scanning(r)
      BY <2>1, <2>2 DEF StartsOK, Scanning
    <3>. QED
      BY <1>0, <2>1, <2>2, <3>1 DEF Task, SameRun
  <2>. QED
    BY <1>0, <2>1, <2>2
<1>3. ASSUME NEW q \in Runs, NEW s \in Bridges, Ends(q, s)
      PROVE  task'[r] = task[r] \/ (Ends(r, task[r].owner) /\ task[r].owner \in Bridges)
  <2>1. CASE q = r
    <3>1. task[r].owner = s
      BY <1>3, <2>1 DEF Ends
    <3>. QED
      BY <1>3, <2>1, <3>1
  <2>2. CASE q # r
    <3>1. \E t : task' = [task EXCEPT ![q] = t]
      BY <1>3 DEF Ends
    <3>. QED
      BY <2>2, <3>1, <1>0
  <2>. QED
    BY <2>1, <2>2
<1>4. ASSUME NEW q \in Runs, TaskEnds(q)
      PROVE  task'[r] = task[r]
               \/ (task[r].pc # "none" /\ task'[r].pc \in {"closing", "done"} /\ SameRun(r))
  <2>1. CASE TaskClears(q)
    BY <1>0, <2>1 DEF TaskClears, Task, SameRun
  <2>2. CASE SlotCloses(q)
    BY <1>0, <2>2 DEF SlotCloses, Task, SameRun
  <2>. QED
    BY <1>4, <2>1, <2>2 DEF TaskEnds
<1>5. CASE Restarts
  <2>1. CASE task[r].pc = "none"
    BY <1>5, <2>1 DEF Restarts, TasksOK
  <2>2. CASE task[r].pc # "none"
    BY <1>0, <1>5, <2>2 DEF Restarts, Task, SameRun
  <2>. QED
    BY <2>1, <2>2
<1>6. \A h \in Threads : Handle(h) =>
        UNCHANGED task \/ StartAdmitted(h) \/ StartScheduled(h) \/ StartUnschedulable(h)
  BY DEF Handle, BeginReplays, BeginAccepts, BeginUnnamed, StartRefused, StartOpens,
     CancelSelects, CancelReads, CancelUpdates, CancelSignals, CancelReports, CheckAnswers, scans
<1>7. /\ \A a \in Actors : Emit(a) => UNCHANGED task
      /\ \A h \in Threads, x \in Bridges, c \in Commands : Arrives(h, x, c) => UNCHANGED task
      /\ \A x \in Bridges : Connects(x) \/ Connect(x) \/ Disconnects(x) => UNCHANGED task
      /\ UNCHANGED vars => UNCHANGED task
  BY DEF Emit, EmitDrops, EmitReads, EmitRecords, EmitSends, Arrives, Connects, Connect,
     ConnectLists, ConnectRecovers, ConnectReplays, ConnectEnds, Disconnects, vars, scans
<1>8. /\ \A h \in Threads : StartUnschedulable(h) =>
           \E q \in Runs : \E s \in Bridges : Ends(q, s)
      /\ \A q \in Runs : TaskCompletes(q) => \E s \in Bridges : Ends(q, s)
  BY UnschedulableEnds, TaskCompletesEnds
<1>. QED
  BY <1>1, <1>2, <1>3, <1>4, <1>5, <1>6, <1>7, <1>8 DEF Next

\* What a step never takes back.
LEMMA Monotone ==
  ASSUME TypesInv, [Next]_vars
  PROVE  /\ stray \subseteq stray' /\ (restarts' = 0 => restarts = 0 /\ ~Restarts)
         /\ \A c \in Commands : ran[c] # 0 => ran'[c] # 0
         /\ \A s \in Bridges : conn[s] # "out" => conn'[s] # "out"
<1>1. ran \in [Commands -> Nat] /\ restarts \in Nat /\ conn \in [Bridges -> {"out", "listing", "replaying", "in", "gone"}]
  BY CommandsAssumption DEF TypesInv, CountsOK, SocketsOK
<1>2. CASE Restarts
  BY <1>1, <1>2 DEF Restarts
<1>3. CASE ~Restarts
  <2>1. \A s \in Bridges : conn[s] # "out" => conn'[s] # "out"
    BY <1>3, ConnSteps DEF Connects
  <2>2. ASSUME NEW h \in Threads, BeginUnnamed(h)
        PROVE  stray \subseteq stray' /\ ran' = ran /\ restarts' = restarts
    BY <2>2 DEF BeginUnnamed, counts
  <2>3. ASSUME NEW h \in Threads, NEW kind, Performs(h, kind), UNCHANGED counts
        PROVE  stray' = stray /\ restarts' = restarts /\ \A c \in Commands : ran[c] # 0 => ran'[c] # 0
    BY <1>1, <2>3 DEF Performs, counts
  <2>4. \A h \in Threads : Handle(h) =>
          \/ UNCHANGED <<ran, stray, restarts>> \/ BeginUnnamed(h)
          \/ \E kind : Performs(h, kind) /\ UNCHANGED counts
    BY DEF Handle, BeginReplays, BeginAccepts, StartRefused, StartAdmitted, StartOpens,
       StartScheduled, StartUnschedulable, CancelSelects, CancelReads, CancelUpdates, CancelSignals,
       CancelReports, CheckAnswers, history, counts
  <2>5. /\ \A a \in Actors : Emit(a) => UNCHANGED <<ran, stray, restarts>>
        /\ \A h \in Threads, x \in Bridges, c \in Commands :
             Arrives(h, x, c) => UNCHANGED <<ran, stray, restarts>>
        /\ \A r \in Runs : TaskCompletes(r) \/ TaskEnds(r) => UNCHANGED <<ran, stray, restarts>>
        /\ \A x \in Bridges :
             Connects(x) \/ Connect(x) \/ Disconnects(x) => UNCHANGED <<ran, stray, restarts>>
        /\ UNCHANGED vars => UNCHANGED <<ran, stray, restarts>>
    BY DEF Emit, EmitDrops, EmitReads, EmitRecords, EmitSends, Arrives, TaskCompletes, TaskEnds,
       TaskClears, SlotCloses, Connects, Connect, ConnectLists, ConnectRecovers, ConnectReplays,
       ConnectEnds, Disconnects, vars, history, counts
  <2>. QED
    BY <1>3, <2>1, <2>2, <2>3, <2>4, <2>5 DEF Next
<1>. QED
  BY <1>2, <1>3

\* Whoever starts an accepted command is the first to perform it.
LEMMA AdmittedFresh ==
  ASSUME TypesInv, CommandsInv, NEW h \in Threads, req[h].pc = "act", req[h].cmd \notin stray
  PROVE  req[h].cmd \in Commands /\ ran[req[h].cmd] = 0
<1>1. req[h].cmd \in Commands
  BY DEF TypesInv, ReqsOK, ReqOK
<1>. QED
  BY <1>1 DEF CommandsInv, AcceptedOnce, MayPerform

\* A claim about an accepted start that is so stays so.
LEMMA TruthStays ==
  ASSUME TypesInv, CommandsInv, VerdictInv, [Next]_vars, NEW c \in Starts \ stray', NEW status,
         Truthful(c, status)
  PROVE  Truthful(c, status)'
<1>1. c \in Commands /\ c \notin stray /\ c # Nobody
  BY Monotone, Constants DEF Commands
<1>2. ASSUME NEW r \in Runs, task[r].pc # "none"
      PROVE  task'[r].cmd = task[r].cmd /\ (task[r].verdict # "none" => task'[r].verdict = task[r].verdict)
  <2>1. Scanning(r) => task[r].verdict = "none"
    BY DEF VerdictInv, ScansOwn
  <2>. QED
    BY <1>2, <2>1, RunSteps DEF Admits, SameRun, Ends
<1>3. ASSUME Did(c)
      PROVE  Did(c)'
  <2>1. PICK r \in Runs : task[r].cmd = c /\ task[r].verdict = "completed"
    BY <1>3 DEF Did
  <2>2. task[r].pc # "none"
    BY <2>1 DEF TypesInv, TasksOK, NoTask
  <2>. QED
    BY <1>2, <2>1, <2>2 DEF Did
<1>4. ASSUME DidNot(c)
      PROVE  DidNot(c)'
  <2>1. ran'[c] # 0
    BY <1>1, <1>4, Monotone DEF DidNot
  <2>2. ASSUME NEW r \in Runs, task'[r].cmd = c
        PROVE  task'[r].verdict \in {"failed", "cancelled"}
    <3>1. CASE task[r].pc # "none"
      BY <1>2, <1>4, <2>2, <3>1 DEF DidNot
    <3>2. CASE task[r].pc = "none"
      <4>1. ASSUME NEW h \in Threads, Admits(h, r)
            PROVE  FALSE
        <5>1. req[h].pc = "act" /\ req[h].cmd = c
          BY <2>2, <4>1 DEF Admits, StartAdmitted, Performs
        <5>. QED
          BY <1>1, <1>4, <5>1, AdmittedFresh DEF DidNot
      <4>2. task'[r] = task[r] /\ task[r] = NoTask
        BY <3>2, <4>1, RunSteps DEF Scanning, Ends, TypesInv, TasksOK
      <4>. QED
        BY <1>1, <2>2, <4>2 DEF NoTask
    <3>. QED
      BY <3>1, <3>2
  <2>. QED
    BY <2>1, <2>2 DEF DidNot
<1>. QED
  BY <1>3, <1>4, Monotone DEF Truthful

\* A scan that ends has the verdict its record gets, and the command its record answers.
LEMMA EndsTells ==
  ASSUME TypesInv, VerdictInv, [Next]_vars, NEW s \in Bridges, NEW r \in Runs, Ends(r, s),
         NEW i \in DOMAIN job[s].start, NEW c, job[s].start[i].named, job[s].start[i].cmd = c,
         c \notin stray'
  PROVE  Truthful(c, StartResult(job[s].status))'
<1>1. task[r].cmd = c /\ Scanning(r) /\ task[r].owner = s /\ task'[r].cmd = c
      /\ task'[r].verdict = job'[s].status /\ job'[s].status \in Over
  BY DEF Ends, VerdictInv, ScansOwn
<1>2. c \in Starts /\ ran[c] # 0 /\ c \in Commands /\ c \notin stray /\ c # Nobody
  BY <1>1, Monotone, Constants DEF VerdictInv, RunsAreCommanded, Scanning, Commands
<1>3. ASSUME job'[s].status = "completed"
      PROVE  Did(c)' /\ StartResult(job'[s].status) = "succeeded"
  BY <1>1, <1>3 DEF Did, StartResult
<1>4. ASSUME job'[s].status # "completed"
      PROVE  DidNot(c)' /\ StartResult(job'[s].status) = "failed"
  <2>1. ASSUME NEW q \in Runs, task'[q].cmd = c
        PROVE  task'[q].verdict \in {"failed", "cancelled"}
    <3>1. CASE q = r
      BY <1>1, <1>4, <3>1 DEF Over
    <3>2. CASE q # r
      <4>1. task'[q] = task[q]
        <5>1. \E t : task' = [task EXCEPT ![r] = t]
          BY DEF Ends
        <5>. QED
          BY <3>2, <5>1 DEF TypesInv, TasksOK
      <4>2. task[q].pc # "none"
        BY <1>2, <2>1, <4>1 DEF TypesInv, TasksOK, NoTask
      <4>. QED
        BY <1>1, <1>2, <2>1, <3>2, <4>1, <4>2 DEF VerdictInv, RunsAreCommanded, Scanning
    <3>. QED
      BY <3>1, <3>2
  <2>2. ran'[c] # 0
    BY <1>2, Monotone
  <2>. QED
    BY <1>4, <2>1, <2>2 DEF DidNot, StartResult
<1>. QED
  BY <1>3, <1>4 DEF Truthful

LEMMA RecordsTellStep ==
  ASSUME TypesInv, CommandsInv, VerdictInv, [Next]_vars
  PROVE  RecordsTell'
<1>. SUFFICES ASSUME NEW s \in Bridges, NEW i \in DOMAIN job'[s].start, NEW c, NEW v,
                     job'[s].status = v, v \in Over,
                     job'[s].start[i].named, job'[s].start[i].cmd = c, c \notin stray'
              PROVE  Truthful(c, StartResult(v))'
  BY DEF RecordsTell, StartResult
<1>1. /\ job'[s].start = job[s].start
      /\ job'[s].status = job[s].status \/ \E r \in Runs : Ends(r, s)
  BY RecordEnds
<1>2. c \in Starts
  BY <1>1 DEF VerdictInv, EntryKinds
<1>3. CASE job'[s].status = job[s].status
  <2>1. Truthful(c, StartResult(v))
    BY <1>1, <1>3, Monotone DEF VerdictInv, RecordsTell
  <2>. QED
    BY <1>2, <2>1, TruthStays DEF StartResult
<1>4. ASSUME NEW r \in Runs, Ends(r, s)
      PROVE  Truthful(c, StartResult(v))'
  BY <1>1, <1>4, EndsTells DEF StartResult
<1>. QED
  BY <1>1, <1>3, <1>4

LEMMA EntryKindsStep ==
  ASSUME TypesInv, VerdictInv, [Next]_vars
  PROVE  EntryKinds'
<1>1. ASSUME NEW s \in Bridges, NEW i \in DOMAIN job'[s].start
      PROVE  job'[s].start[i].cmd \in Starts
  <2>1. ASSUME NEW h \in Threads, StartAdmitted(h)
        PROVE  req[h].cmd \in Starts
    BY <2>1 DEF StartAdmitted, Performs
  <2>2. CASE job'[s].start = job[s].start \/ job'[s].start = <<>>
    BY <1>1, <2>2 DEF VerdictInv, EntryKinds
  <2>3. ASSUME NEW h \in Threads, StartAdmitted(h),
               job'[s].start = <<[cmd |-> req[h].cmd, named |-> Named(req[h].sid)]>>
        PROVE  job'[s].start[i].cmd \in Starts
    BY <1>1, <2>1, <2>3
  <2>. QED
    BY <2>2, <2>3, StartEntries, Zenon
<1>2. ASSUME NEW s \in Bridges, NEW i \in DOMAIN job'[s].cancels
      PROVE  job'[s].cancels[i].cmd \in Cancels
  BY <1>2, CancelEntries DEF VerdictInv, EntryKinds
<1>3. ASSUME NEW h \in Threads, NEW i \in DOMAIN req'[h].ids
      PROVE  req'[h].ids[i].cmd \in Cancels
  <2>1. CASE req'[h].ids = req[h].ids \/ req'[h].ids = <<>>
    BY <1>3, <2>1 DEF VerdictInv, EntryKinds
  <2>2. CASE CancelReads(h) /\ req'[h].ids = Append(job[req[h].owner].cancels,
                                       [cmd |-> req[h].cmd, named |-> Named(req[h].sid)])
    <3>. DEFINE o == req[h].owner  e == [cmd |-> req[h].cmd, named |-> Named(req[h].sid)]
    <3>1. e.cmd \in Cancels /\ e \in Entry /\ o \in Bridges
      BY <2>2 DEF CancelReads, At, TypesInv, ReqsOK, ReqOK, Entry, Named
    <3>2. /\ job[o].cancels \in Seq(Entry)
          /\ \A k \in DOMAIN job[o].cancels : job[o].cancels[k].cmd \in Cancels
      BY <3>1 DEF TypesInv, JobsOK, Job, VerdictInv, EntryKinds
    <3>3. req'[h].ids = Append(job[o].cancels, e)
      BY <2>2
    <3>. HIDE DEF e, o
    <3>. QED
      BY <1>3, <3>1, <3>2, <3>3
  <2>. QED
    BY <2>1, <2>2, RequestContinues, RequestRests
<1>. QED
  BY <1>1, <1>2, <1>3 DEF EntryKinds

\* Of the commands a request may have, only a start's is told by a scan.
LEMMA KindsApart ==
  ASSUME NEW c \in Cancels \union Checks
  PROVE  c \notin Starts
BY CommandsAssumption

\* What a finished record owes to a start is for one of its entries.
LEMMA OwedStarts ==
  ASSUME NEW j \in Job, \A k \in DOMAIN j.cancels : j.cancels[k].cmd \in Cancels,
         NEW i \in DOMAIN Owed(j), Owed(j)[i].cmd \in Starts
  PROVE  /\ j.status \in Over
         /\ \E k \in DOMAIN j.start :
              Owed(j)[i] = Result(j.start[k].cmd, StartResult(j.status), j.start[k].named)
<1>1. j.status \in Over
  BY OwedCalls
<1>2. ASSUME NEW k \in DOMAIN j.cancels,
             Owed(j)[i] = Result(j.cancels[k].cmd, CancelResult(j.status), j.cancels[k].named)
      PROVE  FALSE
  BY <1>2, KindsApart DEF Result
<1>. QED
  BY <1>1, <1>2, OwedCalls

\* A handler's last word.
LEMMA AnswersTell ==
  ASSUME TypesInv, CommandsInv, VerdictInv, [Next]_vars, NEW h \in Threads, Quiet(h),
         NEW status, Answers(h, status), task' = task,
         req[h].cmd \in Starts \ stray' =>
           status = "failed" /\ req[h].pc = "act" /\ ran'[req[h].cmd] # 0,
         NEW i \in DOMAIN emission'[h].queue, emission'[h].queue[i].cmd \in Starts \ stray'
  PROVE  Truthful(emission[h].queue[i].cmd, emission[h].queue[i].status)'
<1>. DEFINE call == Result(req[h].cmd, status, Named(req[h].sid))
<1>1. emission'[h].queue = Append(<<>>, call)
  BY Constants DEF Answers, Emits, Quiet, TypesInv, EmissionsOK, Emission
<1>2. emission'[h].queue[i] = call
  BY <1>1
<1>3. call.cmd = req[h].cmd /\ call.status = status
  BY DEF Result
<1>4. req[h].cmd \in Starts \ stray'
  BY <1>2, <1>3
<1>5. req[h].cmd \notin stray /\ req[h].cmd # Nobody /\ req[h].cmd \in Commands
  BY <1>4, Monotone, Constants DEF Commands
<1>6. ran[req[h].cmd] = 0
  BY <1>4, <1>5, AdmittedFresh
<1>7. \A r \in Runs : task[r].cmd # req[h].cmd
  BY <1>5, <1>6 DEF VerdictInv, RunsAreCommanded, TypesInv, TasksOK, NoTask
<1>. HIDE DEF call
<1>8. ASSUME NEW c, c = req[h].cmd
      PROVE  Truthful(c, status)'
  BY <1>4, <1>7, <1>8 DEF Truthful, DidNot
<1>. QED
  BY <1>2, <1>3, <1>8 DEF Truthful, Did, DidNot

\* The completion listener's word.
LEMMA ListenerTells ==
  ASSUME TypesInv, CommandsInv, VerdictInv, [Next]_vars, NEW a \in Actors, NEW s \in Bridges,
         emission'[a].queue = Owed(job'[s]), NEW i \in DOMAIN emission'[a].queue, NEW c, NEW st,
         emission'[a].queue[i].cmd = c, emission'[a].queue[i].status = st,
         emission'[a].queue[i].named, c \in Starts \ stray'
  PROVE  Truthful(c, st)'
<1>1. job'[s] \in Job
  BY StepTypes DEF TypesInv, JobsOK
<1>2. \A k \in DOMAIN job'[s].cancels : job'[s].cancels[k].cmd \in Cancels
  BY EntryKindsStep DEF EntryKinds
<1>3. job'[s].status \in Over
      /\ \E k \in DOMAIN job'[s].start :
            Owed(job'[s])[i] = Result(job'[s].start[k].cmd, StartResult(job'[s].status),
                                      job'[s].start[k].named)
  BY <1>1, <1>2, OwedStarts
<1>4. PICK k \in DOMAIN job'[s].start :
            Owed(job'[s])[i] = Result(job'[s].start[k].cmd, StartResult(job'[s].status),
                                      job'[s].start[k].named)
  BY <1>3
<1>5. job'[s].start[k].cmd = c /\ StartResult(job'[s].status) = st /\ job'[s].start[k].named
  BY <1>4 DEF Result
<1>. QED
  BY <1>3, <1>5, RecordsTellStep DEF RecordsTell, StartResult

LEMMA HandlersTell ==
  ASSUME TypesInv, CommandsInv, LedgerInv, AnswerInv, VerdictInv, [Next]_vars, NEW a \in Threads,
         Handle(a), emission' # emission, NEW i \in DOMAIN emission'[a].queue, NEW c, NEW st,
         emission'[a].queue[i].cmd = c, emission'[a].queue[i].status = st,
         emission'[a].queue[i].named, c \in Starts \ stray'
  PROVE  Truthful(c, st)'
<1>. USE Constants
<1>1. ASSUME NEW status, Quiet(a), Answers(a, status), task' = task,
             req[a].cmd \in Starts \ stray' =>
               status = "failed" /\ req[a].pc = "act" /\ ran'[req[a].cmd] # 0
      PROVE  Truthful(c, st)'
  BY <1>1, AnswersTell
<1>2. CASE StartRefused(a)
  <2>1. /\ Quiet(a) /\ Answers(a, "failed") /\ task' = task /\ req[a].pc = "act"
        /\ req[a].cmd \in Commands /\ ran' = [ran EXCEPT ![req[a].cmd] = @ + 1]
    BY <1>2 DEF StartRefused, Performs, scans, TypesInv, ReqsOK, ReqOK
  <2>2. ran'[req[a].cmd] # 0
    BY <2>1 DEF TypesInv, CountsOK
  <2>. QED
    BY <1>1, <2>1, <2>2
<1>3. CASE CheckAnswers(a)
  BY <1>1, <1>3, KindsApart DEF CheckAnswers, Performs, scans
<1>4. CASE CancelReads(a)
  <2>1. Quiet(a) /\ req[a].cmd \notin Starts /\ task' = task
    BY <1>4, KindsApart DEF CancelReads, At, scans
  <2>2. \E status : Answers(a, status)
    BY <1>4 DEF CancelReads
  <2>. QED
    BY <1>1, <2>1, <2>2
<1>5. CASE StartUnschedulable(a)
  <2>1. req[a].sid \in Bridges /\ emission' = [emission EXCEPT ![a].queue = Owed(job'[req[a].sid])]
    BY <1>5, UnschedulableEnds DEF StartUnschedulable, Completed
  <2>2. emission'[a].queue = Owed(job'[req[a].sid])
    BY <2>1 DEF TypesInv, EmissionsOK, Emission
  <2>. QED
    BY <2>1, <2>2, ListenerTells
<1>6. CASE CancelReports(a)
  <2>1. req[a].owner \in Bridges /\ job' = job
        /\ emission' = [emission EXCEPT ![a].queue = Owed(job[req[a].owner])]
    BY <1>6 DEF CancelReports, At, TypesInv, ReqsOK, ReqOK, scans
  <2>2. emission'[a].queue = Owed(job'[req[a].owner])
    BY <2>1 DEF TypesInv, EmissionsOK, Emission
  <2>. QED
    BY <2>1, <2>2, ListenerTells
<1>7. CASE BeginAccepts(a)
  <2>1. emission'[a].queue = <<Result(req[a].cmd, "accepted", TRUE)>>
    BY <1>7 DEF BeginAccepts, TypesInv, EmissionsOK
  <2>2. st = "accepted"
    BY <2>1 DEF Result
  <2>. QED
    BY <2>2 DEF Truthful
<1>. QED
  BY <1>2, <1>3, <1>4, <1>5, <1>6, <1>7 DEF Handle, BeginReplays, BeginUnnamed, StartAdmitted,
     StartOpens, StartScheduled, CancelSelects, CancelUpdates, CancelSignals

LEMMA QueuesTellStep ==
  ASSUME TypesInv, CommandsInv, LedgerInv, AnswerInv, VerdictInv, [Next]_vars
  PROVE  QueuesTell'
<1>. SUFFICES ASSUME NEW a \in Actors, NEW i \in DOMAIN emission'[a].queue, NEW c, NEW st,
                     emission'[a].queue[i].cmd = c, emission'[a].queue[i].status = st,
                     emission'[a].queue[i].named, c \in Starts \ stray'
              PROVE  Truthful(c, st)'
  BY DEF QueuesTell
<1>. USE Constants
<1>0. emission[a].queue \in Seq(Call) /\ c \notin stray
  BY QuietIsIdle, Monotone DEF TypesInv
<1>1. CASE emission'[a].queue = emission[a].queue
  <2>1. Truthful(c, st)
    BY <1>0, <1>1 DEF VerdictInv, QueuesTell
  <2>. QED
    BY <2>1, TruthStays
<1>2. CASE Emit(a) /\ emission'[a].queue = Tail(emission[a].queue)
  <2>1. emission[a].queue # <<>>
    BY <1>2 DEF Emit, EmitDrops, EmitReads, EmitRecords, EmitSends, Quiet, TypesInv, EmissionsOK
  <2>2. i + 1 \in DOMAIN emission[a].queue
        /\ emission'[a].queue[i] = emission[a].queue[i + 1]
    BY <1>0, <1>2, <2>1, TailQueue
  <2>3. Truthful(c, st)
    BY <1>0, <2>2 DEF VerdictInv, QueuesTell
  <2>. QED
    BY <2>3, TruthStays
<1>3. CASE a \in Threads /\ Handle(a) /\ emission'[a].queue # emission[a].queue
  BY <1>3, HandlersTell
<1>4. CASE a \in Runs /\ TaskCompletes(a)
  <2>1. task[a].owner \in Bridges
        /\ emission' = [emission EXCEPT ![a].queue = Owed(job'[task[a].owner])]
    BY <1>4, TaskCompletesEnds DEF TaskCompletes, Completed
  <2>2. emission'[a].queue = Owed(job'[task[a].owner])
    BY <2>1 DEF TypesInv, EmissionsOK, Emission
  <2>. QED
    BY <2>1, <2>2, ListenerTells
<1>5. CASE a \in Bridges /\ ConnectRecovers(a)
  <2>1. PICK l \in listed[a] : l.status = "interrupted" /\ Emits(a, l.cmd, "failed", TRUE)
    BY <1>5 DEF ConnectRecovers
  <2>2. restarts # 0 /\ restarts' = restarts /\ Quiet(a)
    BY <1>5, <2>1 DEF VerdictInv, InterruptedByRestart, ConnectRecovers, counts
  <2>3. emission'[a].queue = Append(<<>>, Result(l.cmd, "failed", TRUE))
    BY <2>1, <2>2 DEF Emits, Quiet, TypesInv, EmissionsOK, Emission
  <2>4. st = "failed"
    BY <2>3 DEF Result
  <2>. QED
    BY <2>2, <2>4 DEF Truthful
<1>6. ~Restarts
  BY DEF Restarts, NotEmitting
<1>. QED
  BY <1>1, <1>2, <1>3, <1>4, <1>5, <1>6, QueueSteps

LEMMA RowsTellStep ==
  ASSUME TypesInv, CommandsInv, LedgerInv, VerdictInv, [Next]_vars
  PROVE  RowsTell'
<1>. SUFFICES ASSUME NEW c \in Starts \ stray'
              PROVE  /\ row'[c] = "completed" => Did(c)'
                     /\ row'[c] = "failed" /\ restarts' = 0 => DidNot(c)'
  BY DEF RowsTell
<1>1. c \in Commands /\ c \notin stray
  BY Monotone DEF Commands
<1>2. ASSUME NEW status, Truthful(c, status)
      PROVE  /\ status = "succeeded" => Did(c)'
             /\ status = "failed" /\ restarts' = 0 => DidNot(c)'
  <2>1. Truthful(c, status)'
    BY <1>2, TruthStays
  <2>. QED
    BY <2>1 DEF Truthful
<1>3. CASE row'[c] = row[c]
  <2>1. row[c] = "completed" => Truthful(c, "succeeded")
    BY <1>1 DEF VerdictInv, RowsTell, Truthful
  <2>2. row[c] = "failed" => Truthful(c, "failed")
    BY <1>1 DEF VerdictInv, RowsTell, Truthful
  <2>. QED
    BY <1>2, <1>3, <2>1, <2>2
<1>4. CASE \E a \in Actors : EmitRecords(a)
  <2>1. PICK a \in Actors : EmitRecords(a)
    BY <1>4
  <2>2. PICK d \in Call :
          /\ emission[a].queue \in Seq(Call) /\ emission[a].queue # <<>> /\ d = emission[a].queue[1]
          /\ row' = [row EXCEPT ![d.cmd] = RowStatus(d.status)]
    BY <2>1, Recording
  <2>3. CASE d.cmd # c
    BY <1>1, <1>3, <2>2, <2>3 DEF TypesInv, RowsOK
  <2>4. CASE d.cmd = c
    <3>1. d.named
      BY <2>1, <2>2 DEF LedgerInv, QueuesOK, QueueOK, EmitRecords
    <3>2. 1 \in DOMAIN emission[a].queue
      BY <2>2
    <3>3. Truthful(c, d.status)
      BY <1>1, <2>2, <2>4, <3>1, <3>2 DEF VerdictInv, QueuesTell
    <3>4. row'[c] = RowStatus(d.status)
      BY <1>1, <2>2, <2>4 DEF TypesInv, RowsOK
    <3>5. d.status \in {"accepted", "succeeded", "failed"}
      BY DEF Call
    <3>. QED
      BY <1>2, <3>3, <3>4, <3>5 DEF RowStatus
  <2>. QED
    BY <2>3, <2>4
<1>5. CASE UNCHANGED durable
  BY <1>3, <1>5 DEF durable
<1>6. CASE Restarts
  <2>1. row'[c] \in {"completed", "failed"} => row'[c] = row[c]
    BY <1>1, <1>6 DEF Restarts, Reconciled
  <2>. QED
    BY <1>3, <2>1
<1>. QED
  BY <1>4, <1>5, <1>6, RowSteps

LEMMA InterruptedStep ==
  ASSUME TypesInv, CommandsInv, LedgerInv, VerdictInv, [Next]_vars
  PROVE  InterruptedByRestart'
<1>1. Restarts => restarts' # 0
  BY CommandsAssumption DEF Restarts, TypesInv, CountsOK
<1>2. \A c \in Commands : row'[c] = "interrupted" => restarts' # 0
  BY <1>1, Monotone, RowsSettle DEF VerdictInv, InterruptedByRestart
<1>3. ASSUME NEW s \in Bridges, NEW l \in listed'[s], l.status = "interrupted"
      PROVE  restarts' # 0
  <2>1. CASE ConnectLists(s)
    <3>1. PICK c \in Commands : row[c] = "interrupted"
      BY <1>3, <2>1 DEF ConnectLists, TypesInv, SocketsOK
    <3>. QED
      BY <3>1, Monotone DEF VerdictInv, InterruptedByRestart
  <2>2. CASE ConnectRecovers(s)
    <3>1. PICK k \in listed[s] : k.status = "interrupted"
      BY <2>2 DEF ConnectRecovers
    <3>. QED
      BY <3>1, Monotone DEF VerdictInv, InterruptedByRestart
  <2>3. CASE ConnectReplays(s)
    <3>1. listed'[s] \subseteq listed[s]
      BY <2>3 DEF ConnectReplays, TypesInv, SocketsOK
    <3>. QED
      BY <1>3, <3>1, Monotone DEF VerdictInv, InterruptedByRestart
  <2>4. CASE Connects(s)
    BY <1>3, <2>4, Monotone DEF Connects, VerdictInv, InterruptedByRestart
  <2>5. CASE listed'[s] = listed[s]
    BY <1>3, <2>5, Monotone DEF VerdictInv, InterruptedByRestart
  <2>6. ~Restarts
    BY <1>3 DEF Restarts
  <2>. QED
    BY <1>3, <2>1, <2>2, <2>3, <2>4, <2>5, <2>6, ConnSteps
<1>. QED
  BY <1>2, <1>3 DEF InterruptedByRestart

LEMMA LeftStep ==
  ASSUME TypesInv, VerdictInv, [Next]_vars
  PROVE  LeftIsGone'
<1>. SUFFICES ASSUME NEW s \in Bridges, job'[s].disconnected
              PROVE  s \notin bridges' /\ conn'[s] # "out"
  BY DEF LeftIsGone
<1>. USE DEF TypesInv, JobsOK
<1>1. CASE job[s].disconnected
  <2>1. s \notin bridges /\ conn[s] # "out"
    BY <1>1 DEF VerdictInv, LeftIsGone
  <2>. QED
    BY <2>1, BridgesJoin, Monotone
<1>2. CASE ~job[s].disconnected
  <2>1. ASSUME NEW h \in Threads, StartAdmitted(h)
        PROVE  FALSE
    BY <1>2, <2>1 DEF StartAdmitted, NoJob
  <2>2. ASSUME NEW o, NEW v, job' = [job EXCEPT ![o].status = v]
        PROVE  FALSE
    BY <1>2, <2>2, RecordFields
  <2>3. ASSUME NEW h \in Threads, CancelUpdates(h)
        PROVE  FALSE
    BY <1>2, <2>3 DEF CancelUpdates, Job
  <2>4. ASSUME NEW r \in Runs, TaskClears(r)
        PROVE  FALSE
    BY <1>2, <2>4 DEF TaskClears, NoJob
  <2>5. ~Restarts
    BY DEF Restarts, NoJob
  <2>6. ASSUME NEW x \in Bridges, Disconnects(x)
        PROVE  x = s
    BY <1>2, <2>6 DEF Disconnects
  <2>7. ~UNCHANGED job
    BY <1>2
  <2>8. /\ \A h \in Threads : ~StartUnschedulable(h) /\ ~CancelSignals(h)
        /\ \A r \in Runs : ~TaskCompletes(r)
    BY <2>2 DEF StartUnschedulable, CancelSignals, TaskCompletes, Completed
  <2>9. Disconnects(s)
    BY <2>1, <2>3, <2>4, <2>5, <2>6, <2>7, <2>8, JobSteps
  <2>. QED
    BY <2>9, Monotone DEF Disconnects, SocketsOK
<1>. QED
  BY <1>1, <1>2

LEMMA CommandedStep ==
  ASSUME TypesInv, CommandsInv, VerdictInv, [Next]_vars
  PROVE  RunsAreCommanded'
<1>1. ASSUME NEW r \in Runs, NEW h \in Threads, Admits(h, r)
      PROVE  /\ task'[r].cmd \in Starts /\ ran'[task'[r].cmd] # 0 /\ conn'[task'[r].owner] # "out"
             /\ \A q \in Runs : q # r /\ task'[q].pc # "none" /\ task'[q].cmd = task'[r].cmd =>
                  task'[r].cmd \in stray'
  <2>1. /\ req[h].pc = "act" /\ req[h].cmd \in Starts /\ req[h].cmd \in Commands
        /\ ran' = [ran EXCEPT ![req[h].cmd] = @ + 1] /\ stray' = stray
        /\ task'[r].cmd = req[h].cmd /\ task'[r].owner = req[h].sid
        /\ conn[req[h].sid] # "out" /\ req[h].sid \in Bridges
    BY <1>1 DEF Admits, StartAdmitted, Performs, TypesInv, ReqsOK, ReqOK
  <2>2. ran'[req[h].cmd] # 0
    BY <2>1 DEF TypesInv, CountsOK
  <2>3. ASSUME NEW q \in Runs, q # r, task'[q].pc # "none", task'[q].cmd = req[h].cmd
        PROVE  req[h].cmd \in stray
    <3>1. task'[q] = task[q]
      <4>1. \E t : task' = [task EXCEPT ![r] = t]
        BY <1>1 DEF Admits
      <4>. QED
        BY <2>3, <4>1 DEF TypesInv, TasksOK
    <3>2. ran[req[h].cmd] # 0
      BY <2>3, <3>1 DEF VerdictInv, RunsAreCommanded
    <3>. QED
      BY <2>1, <3>2, AdmittedFresh
  <2>. QED
    BY <2>1, <2>2, <2>3, Monotone
<1>2. ASSUME NEW r \in Runs, task'[r].pc # "none", \A h \in Threads : ~Admits(h, r)
      PROVE  task[r].pc # "none" /\ task'[r].cmd = task[r].cmd /\ task'[r].owner = task[r].owner
  BY <1>2, RunSteps DEF SameRun, Ends, Scanning
<1>3. ASSUME NEW r \in Runs, task'[r].pc # "none"
      PROVE  task'[r].cmd \in Starts /\ ran'[task'[r].cmd] # 0 /\ conn'[task'[r].owner] # "out"
  <2>1. CASE \A h \in Threads : ~Admits(h, r)
    <3>1. /\ task[r].cmd \in Starts /\ ran[task[r].cmd] # 0 /\ conn[task[r].owner] # "out"
          /\ task[r].owner \in Bridges
      BY <1>2, <1>3, <2>1 DEF VerdictInv, RunsAreCommanded, TypesInv, TasksOK
    <3>. QED
      BY <1>2, <1>3, <2>1, <3>1, Monotone DEF Commands
  <2>. QED
    BY <1>1, <2>1
<1>4. ASSUME NEW r \in Runs, NEW q \in Runs, q # r, task'[r].pc # "none", task'[q].pc # "none",
             task'[q].cmd = task'[r].cmd
      PROVE  task'[r].cmd \in stray'
  <2>1. CASE \E h \in Threads : Admits(h, r)
    BY <1>1, <1>4, <2>1
  <2>2. CASE \E h \in Threads : Admits(h, q)
    BY <1>1, <1>4, <2>2
  <2>3. CASE \A h \in Threads : ~Admits(h, r) /\ ~Admits(h, q)
    <3>1. task[r].cmd \in stray
      BY <1>2, <1>4, <2>3 DEF VerdictInv, RunsAreCommanded
    <3>. QED
      BY <1>2, <1>4, <2>3, <3>1, Monotone
  <2>. QED
    BY <2>1, <2>2, <2>3
<1>. QED
  BY <1>3, <1>4 DEF RunsAreCommanded

\* A run that scans was scanning for the same command and bridge, or is just admitted.
LEMMA ScanningSteps ==
  ASSUME TypesInv, [Next]_vars, NEW r \in Runs, Scanning(r)'
  PROVE  (\E h \in Threads : Admits(h, r)) \/ (Scanning(r) /\ SameRun(r))
BY RunSteps DEF Scanning, SameRun, Ends

LEMMA ScansOwnStep ==
  ASSUME TypesInv, VerdictInv, [Next]_vars
  PROVE  ScansOwn'
<1>. USE DEF TypesInv, JobsOK
<1>1. ASSUME NEW r \in Runs, NEW h \in Threads, Admits(h, r)
      PROVE  /\ task'[r].verdict = "none"
             /\ \A i \in DOMAIN job'[task'[r].owner].start :
                  job'[task'[r].owner].start[i].cmd = task'[r].cmd
  <2>1. task'[r].owner = req[h].sid /\ task'[r].cmd = req[h].cmd /\ task'[r].verdict = "none"
    BY <1>1 DEF Admits
  <2>2. req[h].sid \in Bridges
    BY <1>1 DEF Admits, StartAdmitted, Performs, ReqsOK, ReqOK
  <2>3. job'[req[h].sid].start = <<[cmd |-> req[h].cmd, named |-> Named(req[h].sid)]>>
    BY <1>1, <2>2 DEF Admits, StartAdmitted, NoJob
  <2>4. \A i \in DOMAIN job'[req[h].sid].start : job'[req[h].sid].start[i].cmd = req[h].cmd
    BY <2>3
  <2>. QED
    BY <2>1, <2>4
<1>2. ASSUME NEW r \in Runs, Scanning(r), SameRun(r), NEW o, o = task[r].owner,
             NEW i \in DOMAIN job'[o].start, job'[o].start[i].named
      PROVE  job'[o].start[i].cmd = task[r].cmd
  <2>1. o \in Bridges
    BY <1>2 DEF TasksOK, Scanning
  <2>2. CASE job'[o].start = job[o].start
    BY <1>2, <2>2 DEF VerdictInv, ScansOwn
  <2>3. CASE job'[o].start = <<>>
    BY <1>2, <2>3
  <2>4. ASSUME NEW h \in Threads, StartAdmitted(h), job'[o].start # job[o].start,
               job'[o].start = <<[cmd |-> req[h].cmd, named |-> Named(req[h].sid)]>>
        PROVE  FALSE
    <3>1. req[h].sid = o
      BY <2>1, <2>4 DEF StartAdmitted
    <3>2. Named(o)
      BY <1>2, <2>4, <3>1
    <3>3. Active(o)
      BY <1>2, <3>2 DEF Named, VerdictInv, ScansAreActive
    <3>. QED
      BY <2>4, <3>1, <3>3 DEF StartAdmitted
  <2>. QED
    BY <2>1, <2>2, <2>3, <2>4, StartEntries
<1>3. ASSUME NEW r \in Runs, Scanning(r), SameRun(r)
      PROVE  /\ task'[r].verdict = "none"
             /\ \A i \in DOMAIN job'[task'[r].owner].start :
                  job'[task'[r].owner].start[i].named =>
                    job'[task'[r].owner].start[i].cmd = task'[r].cmd
  BY <1>2, <1>3 DEF SameRun, VerdictInv, ScansOwn
<1>. QED
  BY <1>1, <1>3, ScanningSteps DEF ScansOwn

\* The active record of a bridge that stays is only ended by its scan.
LEMMA ActiveStays ==
  ASSUME TypesInv, VerdictInv, [Next]_vars, NEW s \in Bridges, s \in bridges, s \in bridges',
         Active(s)
  PROVE  Active(s)' \/ \E r \in Runs : Ends(r, s)
<1>. USE DEF TypesInv, JobsOK
<1>1. ASSUME NEW h \in Threads, StartAdmitted(h)
      PROVE  job'[s].status = job[s].status
  BY <1>1 DEF StartAdmitted
<1>2. ASSUME NEW h \in Threads, CancelUpdates(h)
      PROVE  job'[s].status = job[s].status
  BY <1>2 DEF CancelUpdates, Job
<1>3. ASSUME NEW h \in Threads, CancelSignals(h)
      PROVE  job'[s].status \in {job[s].status, "cancelling"}
  <2>1. PICK expected \in BOOLEAN :
          job' = [job EXCEPT ![req[h].owner].status =
                    IF @ = "running" /\ expected THEN "cancelling" ELSE @]
    BY <1>3 DEF CancelSignals
  <2>2. CASE s # req[h].owner
    BY <2>1, <2>2
  <2>3. CASE s = req[h].owner
    <3>1. job'[s].status = IF job[s].status = "running" /\ expected THEN "cancelling" ELSE job[s].status
      BY <2>1, <2>3, RecordFields
    <3>. QED
      BY <3>1
  <2>. QED
    BY <2>2, <2>3
<1>4. ASSUME NEW o \in Bridges, NEW r \in Runs, Ends(r, o)
      PROVE  job'[s].status = job[s].status \/ s = o
  <2>1. PICK v : job' = [job EXCEPT ![o].status = v]
    BY <1>4 DEF Ends
  <2>. QED
    BY <2>1
<1>5. ASSUME NEW r \in Runs, TaskClears(r)
      PROVE  job'[s].status = job[s].status
  BY <1>5 DEF TaskClears, VerdictInv, LeftIsGone
<1>6. ASSUME NEW x \in Bridges, Disconnects(x)
      PROVE  job'[s].status = job[s].status
  BY <1>6 DEF Disconnects, SocketsOK
<1>7. ~Restarts
  BY DEF Restarts
<1>8. \A h \in Threads : StartUnschedulable(h) =>
        Ends(req[h].owner, req[h].sid) /\ req[h].owner \in Runs /\ req[h].sid \in Bridges
  BY UnschedulableEnds
<1>9. \A r \in Runs : TaskCompletes(r) => Ends(r, task[r].owner) /\ task[r].owner \in Bridges
  BY TaskCompletesEnds
<1>. QED
  BY <1>1, <1>2, <1>3, <1>4, <1>5, <1>6, <1>7, <1>8, <1>9, JobSteps DEF Active

LEMMA ScansActiveStep ==
  ASSUME TypesInv, VerdictInv, [Next]_vars
  PROVE  ScansAreActive'
<1>1. ASSUME NEW h \in Threads, NEW r \in Runs, Admits(h, r), req[h].sid \in bridges
      PROVE  /\ job'[req[h].sid].status \in {"running", "cancelling"}
             /\ \A q \in Runs : Scanning(q)' /\ task'[q].owner = req[h].sid => q = r
  <2>1. req[h].sid \in Bridges /\ ~Active(req[h].sid)
    BY <1>1 DEF Admits, StartAdmitted, Performs, TypesInv, ReqsOK, ReqOK
  <2>2. job'[req[h].sid].status = "running"
    BY <1>1, <2>1 DEF Admits, StartAdmitted, NoJob, TypesInv, JobsOK
  <2>3. ASSUME NEW q \in Runs, q # r, Scanning(q)', task'[q].owner = req[h].sid
        PROVE  FALSE
    <3>1. task'[q] = task[q]
      <4>1. \E t : task' = [task EXCEPT ![r] = t]
        BY <1>1 DEF Admits
      <4>. QED
        BY <2>3, <4>1 DEF TypesInv, TasksOK
    <3>. QED
      BY <1>1, <2>1, <2>3, <3>1 DEF VerdictInv, ScansAreActive, Scanning
  <2>. QED
    BY <2>2, <2>3
<1>2. \A h \in Threads : StartAdmitted(h) => bridges' = bridges
  BY DEF StartAdmitted, sockets
<1>3. ASSUME NEW r \in Runs, NEW h \in Threads, Admits(h, r), task'[r].owner \in bridges'
      PROVE  /\ job'[task'[r].owner].status \in {"running", "cancelling"}
             /\ \A q \in Runs : Scanning(q)' /\ task'[q].owner = task'[r].owner => q = r
  BY <1>1, <1>2, <1>3 DEF Admits
<1>4. ASSUME NEW r \in Runs, Scanning(r), Scanning(r)', SameRun(r), NEW o, o = task[r].owner,
             o \in bridges'
      PROVE  /\ job'[o].status \in {"running", "cancelling"}
             /\ \A q \in Runs : Scanning(q)' /\ task'[q].owner = o => q = r
  <2>1. o \in Bridges /\ conn[o] # "out"
    BY <1>4 DEF Scanning, TypesInv, TasksOK, VerdictInv, RunsAreCommanded
  <2>2. o \in bridges
    BY <1>4, <2>1, BridgesJoin
  <2>3. Active(o) /\ \A q \in Runs : Scanning(q) /\ task[q].owner = o => q = r
    BY <1>4, <2>2 DEF VerdictInv, ScansAreActive
  <2>4. \A q \in Runs : ~Ends(q, o)
    BY <1>4, <2>3 DEF Ends, Scanning
  <2>5. ASSUME NEW q \in Runs, Scanning(q)', task'[q].owner = o
        PROVE  q = r
    <3>1. \A h \in Threads : ~Admits(h, q)
      BY <2>3, <2>5 DEF Admits, StartAdmitted
    <3>. QED
      BY <2>3, <2>5, <3>1, ScanningSteps DEF SameRun
  <2>. QED
    BY <1>4, <2>1, <2>2, <2>3, <2>4, <2>5, ActiveStays DEF Active
<1>5. ASSUME NEW r \in Runs, Scanning(r), Scanning(r)', SameRun(r), task'[r].owner \in bridges'
      PROVE  /\ job'[task'[r].owner].status \in {"running", "cancelling"}
             /\ \A q \in Runs : Scanning(q)' /\ task'[q].owner = task'[r].owner => q = r
  BY <1>4, <1>5 DEF SameRun
<1>. QED
  BY <1>3, <1>5, ScanningSteps DEF ScansAreActive, Active

\* The inductive invariant behind the truth of a scan's receipt: which scan a record
\* answers for, and what each claim in a record, in a queue or in a row rests on.
THEOREM VerdictInvariant == Spec => []VerdictInv
<1>1. TypesInv /\ CommandsInv /\ LedgerInv /\ AnswerInv /\ VerdictInv /\ [Next]_vars => VerdictInv'
  BY CommandedStep, ScansOwnStep, ScansActiveStep, LeftStep, EntryKindsStep, RecordsTellStep,
     QueuesTellStep, RowsTellStep, InterruptedStep DEF VerdictInv
<1>. QED
  BY InitVerdict, <1>1, TypesInvariant, CommandsInvariant, LedgerInvariant, AnswerInvariant, PTL
     DEF Spec

\* emit_command_result, report_scan_completion: each scan that ends gets one terminal
\* receipt, which stays, and it says what became of the scan: success only if a run of the
\* command completed, failure (without a restart) only if none did.
THEOREM ScansGetTrueAnswers == Spec => []ScansAreAnswered
<1>1. VerdictInv => ReceiptsTellTheVerdict
  BY DEF VerdictInv, RowsTell, ReceiptsTellTheVerdict, Did, DidNot
<1>2. ReceiptsAreFinal /\ ReceiptsTellTheVerdict /\ FinishedScansAreAnswered => ScansAreAnswered
  BY DEF ScansAreAnswered
<1>. QED
  BY <1>1, <1>2, VerdictInvariant, ReceiptsStayFinal, FinishedScansGetAnswers, PTL

=============================================================================
