------------------------------ MODULE ScanArchive ------------------------------
(***************************************************************************)
(* The archive of reports (nmapui/reporting.py, persistence.py,            *)
(* nmapui/runtime_history.py, nmapui/handlers/scans.py and the             *)
(* report_artifacts table): scan directories with their metadata.json, the *)
(* index file .scan_metadata_index.json and the runtime rows, three copies *)
(* that threads update without a lock.                                     *)
(*                                                                         *)
(* One customer and one target: nothing relates scans of different ones.   *)
(* A file is replaced atomically and a row written in one transaction; the *)
(* steps of a thread are its reads and writes of the three copies.  Agent  *)
(* s is the thread of scan s's report, agent 0 the DELETE request.  An     *)
(* unused operator right before one of the same parameters is a plausible  *)
(* slip in it.                                                             *)
(***************************************************************************)
EXTENDS Naturals, FiniteSets, Functions

CONSTANTS
  Legacy,      \* scans on disk at the first start, without index or rows
  N,           \* scans, known by the order their directories are created in
  Alike,       \* pairs of scans whose inventories show no difference
  MaxActive,   \* report tasks at work at once (ClientJobRegistry.max_active)
  MaxAgents,   \* bound: reports and deletions at work at once
  MaxEvents    \* bound: deletions, listings, PDFs, exceptions and crashes together

Scans == 1..N
Deleter == 0
Agents == 0..N
NoBase == 0

ASSUME ArchiveAssumption ==
  /\ N \in Nat \ {0} /\ Legacy \in 0..N /\ MaxActive \in Nat \ {0}
  /\ Alike \subseteq SUBSET Scans
  /\ MaxAgents \in Nat /\ MaxEvents \in Nat

VARIABLES
  up,        \* the process runs
  dirs,      \* scans whose directory exists
  xml,       \* those that hold a scan.xml
  meta,      \* metadata.json of each directory that has one
  indexed,   \* the index file exists
  index,     \* its entries
  rows,      \* report_artifacts table: payload by scan path
  clock,     \* timestamps given so far
  work,      \* the report thread of each scan, and the DELETE request
  verdict,   \* how each report ends
  victim,    \* the scan being deleted
  lister,    \* the thread that builds the history listing
  pdf,       \* the thread that renders a PDF of a saved scan
  asked,     \* scans a DELETE request has been accepted for
  deleted,   \* those whose request was answered with success
  haunted,   \* those of which some thread held an older copy meanwhile
  torn,      \* scans at which a thread died between two copies
  stale,     \* agents whose copy of the index has been overtaken
  lost,      \* an agent has saved an overtaken copy
  faulted,   \* a write has raised or the process has died
  events     \* how many so far

files  == <<dirs, xml, meta>>
copies == <<indexed, index, rows>>
ghosts == <<asked, deleted, haunted, torn>>
counts == <<faulted, events>>
vars == <<up, files, copies, clock, work, verdict, victim, lister, pdf, ghosts, stale, lost,
          counts>>

-----------------------------------------------------------------------------
Over == {"completed", "failed"}
Meta == [status : Over, stamp : 1..(2 * N), base : Scans \union {NoBase}, computed : BOOLEAN]
Catalogues == UNION {[S -> Meta] : S \in SUBSET Scans}

Pcs == {"idle", "scan", "meta", "load", "index", "refresh", "rewrite",
        "reindex", "row", "done", "dead", "drop", "tree"}
Work == [pc : Pcs, own : Catalogues, snap : Catalogues, todo : SUBSET Scans]
Idle == [pc |-> "idle", own |-> <<>>, snap |-> <<>>, todo |-> {}]

Put(f, s, d) == [t \in DOMAIN f \union {s} |-> IF t = s THEN d ELSE f[t]]
Without(f, s) == Restrict(f, DOMAIN f \ {s})
Only(s, d) == [t \in {s} |-> d]

\* What the history shows: the rows, then the indexed scans that have none.
ListedFromIndex == DOMAIN index

Listed == DOMAIN rows \union DOMAIN index

(***************************************************************************)
(* Timestamps order the entries of a catalogue.  A summary of differences  *)
(* is kept as the scan it was taken against; it is dropped when the two    *)
(* inventories agree, and not computed while either has no XML.            *)
(***************************************************************************)
Before(f, s) == {t \in DOMAIN f : f[t].stamp < f[s].stamp}
Last(f, S) == CHOOSE t \in S : \A o \in S : f[o].stamp <= f[t].stamp
First(f, S) == CHOOSE t \in S : \A o \in S : f[t].stamp <= f[o].stamp

Previous(f, s) == IF Before(f, s) = {} THEN NoBase ELSE Last(f, Before(f, s))
HasChanges(s, t) == {s, t} \notin Alike

Summarised(f, s) ==
  LET p == Previous(f, s)
      both == p # NoBase /\ {p, s} \subseteq xml
  IN  [f[s] EXCEPT !.base = IF both /\ HasChanges(s, p) THEN p ELSE NoBase,
                   !.computed = (p = NoBase) \/ both]

Holding == {"index", "rewrite", "reindex"}
At(a, pc) == up /\ work[a].pc = pc
Goto(a, pc) == work' = [work EXCEPT ![a].pc = pc]
OneMore == events < MaxEvents /\ events' = events + 1
OneFault == ~faulted /\ faulted' = TRUE /\ OneMore
Working == {s \in Scans : work[s].pc \notin {"idle", "done", "dead"}}
Busy == {a \in Agents : work[a].pc \notin {"idle", "done", "dead"}}
RoomForAgent == Cardinality(Busy) < MaxAgents
Unfinished(s) == s \in Working

-----------------------------------------------------------------------------
(***************************************************************************)
(* The report thread.  Its directory appears first, scan.xml when the scan *)
(* is done, and metadata.json with the verdict.                            *)
(***************************************************************************)
BeginReport(s) ==
  /\ At(s, "idle")
  /\ Cardinality(Working) < MaxActive /\ RoomForAgent
  /\ \A t \in Scans : t < s => work[t].pc # "idle"
  /\ dirs' = dirs \union {s}
  /\ Goto(s, "scan")
  /\ UNCHANGED <<up, xml, meta, copies, clock, verdict, victim, lister, pdf, ghosts, stale, lost,
                 counts>>

\* The scan leaves a scan.xml and save_scan_metadata is next, or it fails or is
\* cancelled and mark_scan_failure is.
ScanEnds(s, v) ==
  /\ At(s, "scan")
  /\ v = "completed" => s \in dirs
  /\ xml' = IF v = "completed" THEN xml \union {s} ELSE xml
  /\ verdict' = [verdict EXCEPT ![s] = v]
  /\ Goto(s, "meta")
  /\ UNCHANGED <<up, dirs, meta, copies, clock, victim, lister, pdf, ghosts, stale, lost, counts>>

\* Saving metadata.json creates the directory again when it is gone.  A failure
\* keeps the fields that are there.
WriteMeta(s) ==
  /\ At(s, "meta")
  /\ LET kept == verdict[s] = "failed" /\ s \in DOMAIN meta IN
       /\ meta' = Put(meta, s,
                      IF kept THEN [meta[s] EXCEPT !.status = "failed"]
                      ELSE [status |-> verdict[s], stamp |-> clock + 1, base |-> NoBase,
                            computed |-> FALSE])
       /\ clock' = IF kept THEN clock ELSE clock + 1
  /\ dirs' = dirs \union {s}
  /\ work' = [work EXCEPT ![s] = [Idle EXCEPT !.pc = "load", !.own = Only(s, meta'[s])]]
  /\ UNCHANGED <<up, xml, copies, verdict, victim, lister, pdf, ghosts, stale, lost, counts>>

\* persist_report_artifact reads metadata.json again.  The report is then done,
\* or an exception after its save records a failure over it.
PersistRow(s) ==
  /\ At(s, "row")
  /\ rows' = Put(rows, s, IF s \in DOMAIN meta THEN meta[s] ELSE work[s].own[s])
  /\ \/ /\ work' = [work EXCEPT ![s] = [Idle EXCEPT !.pc = "done"]]
        /\ UNCHANGED <<verdict, counts>>
     \/ /\ verdict[s] = "completed" /\ OneFault
        /\ work' = [work EXCEPT ![s] = [Idle EXCEPT !.pc = "meta"]]
        /\ verdict' = [verdict EXCEPT ![s] = "failed"]
  /\ UNCHANGED <<up, files, indexed, index, clock, victim, lister, pdf, ghosts, stale, lost>>

-----------------------------------------------------------------------------
(***************************************************************************)
(* The index file and the summaries, for a report and for a deletion.      *)
(* Every save replaces the whole file by the copy the agent has loaded and *)
(* changed: whoever saved in between is overwritten.  So is a metadata.json *)
(* newer than the loaded entry it is rewritten from.                       *)
(***************************************************************************)
LoadIndex(a) ==
  /\ At(a, "load")
  /\ work' = [work EXCEPT ![a].pc = "index", ![a].snap = index]
  /\ stale' = stale \ {a}
  /\ UNCHANGED <<up, files, copies, clock, verdict, victim, lister, pdf, ghosts, lost, counts>>

Overtake(a) ==
  /\ lost' = (lost \/ a \in stale)
  /\ stale' = (stale \union {b \in Agents : work[b].pc \in Holding}) \ {a}

Leave(a) ==
  IF a = Deleter
  THEN work' = [work EXCEPT ![a] = Idle] /\ deleted' = deleted \union {victim}
  ELSE Goto(a, "row") /\ UNCHANGED deleted

EntryKept(a) == IF a = Deleter THEN work[a].snap ELSE Put(work[a].snap, a, work[a].own[a])

EntryChanged(a) ==
  IF a = Deleter THEN Without(work[a].snap, victim) ELSE Put(work[a].snap, a, work[a].own[a])

\* Summaries are not refreshed for a directory that had no metadata.json.
SaveIndex(a) ==
  /\ At(a, "index")
  /\ index' = EntryChanged(a)
  /\ Overtake(a)
  /\ haunted' = IF a = Deleter /\ \E s \in Scans : /\ work[s].pc \in Holding
                                                  /\ victim \in DOMAIN work[s].snap
                THEN haunted \union {victim} ELSE haunted
  /\ IF work[a].own = <<>> THEN Leave(a) ELSE Goto(a, "refresh") /\ UNCHANGED deleted
  /\ UNCHANGED <<up, files, indexed, rows, clock, verdict, victim, lister, pdf, asked, torn, counts>>

\* A report refreshes the latest entry, a deletion all of them, oldest first.
LatestOnly(a) == {Last(index, DOMAIN index)}

ToRefresh(a) == IF a = Deleter THEN DOMAIN index ELSE {Last(index, DOMAIN index)}

AlwaysRefresh == FALSE

NothingToRefresh == DOMAIN index = {}

RefreshLoads(a) ==
  /\ At(a, "refresh")
  /\ stale' = stale \ {a}
  /\ IF NothingToRefresh THEN Leave(a)
     ELSE /\ work' = [work EXCEPT ![a].pc = "rewrite", ![a].snap = index,
                                  ![a].todo = ToRefresh(a)]
          /\ UNCHANGED deleted
  /\ UNCHANGED <<up, files, copies, clock, verdict, victim, lister, pdf, asked, haunted, torn,
                 lost, counts>>

NextEntry(a) == First(work[a].snap, work[a].todo)

Rewritable == DOMAIN meta

RefreshRewrites(a) ==
  /\ At(a, "rewrite")
  /\ LET s == NextEntry(a)
         d == Summarised(work[a].snap, s)
     IN  /\ meta' = IF s \in Rewritable THEN Put(meta, s, d) ELSE meta
         /\ lost' = (lost \/ work[s].pc \in {"load", "index"})
         /\ dirs' = dirs \union DOMAIN meta'
         /\ work' = [work EXCEPT ![a].snap = Put(@, s, d), ![a].todo = @ \ {s},
                                 ![a].pc = IF work[a].todo = {s} THEN "reindex" ELSE "rewrite"]
  /\ UNCHANGED <<up, xml, copies, clock, verdict, victim, lister, pdf, ghosts, stale, counts>>

RefreshSaves(a) ==
  /\ At(a, "reindex")
  /\ index' = work[a].snap
  /\ Overtake(a)
  /\ Leave(a)
  /\ UNCHANGED <<up, files, indexed, rows, clock, verdict, victim, lister, pdf, asked, haunted, torn,
                 counts>>

-----------------------------------------------------------------------------
(***************************************************************************)
(* Deletion of a listed scan.  The request is refused unless the directory *)
(* exists; then the row, the directory and the index entry go in turn.     *)
(***************************************************************************)
DeleteBegins(s) ==
  /\ At(Deleter, "idle") /\ RoomForAgent
  /\ s \in Listed \intersect dirs
  /\ OneMore /\ UNCHANGED faulted
  /\ victim' = s
  /\ asked' = asked \union {s}
  /\ work' = [work EXCEPT ![Deleter] = [Idle EXCEPT !.pc = "drop",
                                       !.own = IF s \in DOMAIN meta THEN Only(s, meta[s]) ELSE <<>>]]
  /\ UNCHANGED <<up, files, copies, clock, verdict, lister, pdf, deleted, haunted, torn, stale,
                 lost>>

\* Whoever holds the scan now may write its row again.
DeleteRow ==
  /\ At(Deleter, "drop")
  /\ rows' = Without(rows, victim)
  /\ haunted' = IF Unfinished(victim) \/ victim \in lister.todo \/ pdf.scan = victim
                THEN haunted \union {victim} ELSE haunted
  /\ Goto(Deleter, "tree")
  /\ UNCHANGED <<up, files, indexed, index, clock, verdict, victim, lister, pdf, asked, deleted,
                 torn, stale, lost, counts>>

DeleteTree ==
  /\ At(Deleter, "tree")
  /\ dirs' = dirs \ {victim}
  /\ xml' = xml \ {victim}
  /\ meta' = Without(meta, victim)
  /\ Goto(Deleter, "load")
  /\ UNCHANGED <<up, copies, clock, verdict, victim, lister, pdf, ghosts, stale, lost, counts>>

\* A scan taken up from the rows or the index while it is being deleted.
TakenUp(S) ==
  haunted' = IF work[Deleter].pc \in {"tree", "load", "index"} /\ victim \in S
             THEN haunted \union {victim} ELSE haunted

-----------------------------------------------------------------------------
(***************************************************************************)
(* The history listing: rows first, then the index; an indexed scan        *)
(* without a row gets one, checked and written in two transactions.        *)
(***************************************************************************)
Lister == [pc : {"idle", "index", "check", "insert"}, todo : SUBSET Scans, snap : Catalogues]
NotListing == [pc |-> "idle", todo |-> {}, snap |-> <<>>]

ListRows ==
  /\ up /\ lister.pc = "idle"
  /\ OneMore /\ UNCHANGED faulted
  /\ lister' = [pc |-> "index", todo |-> {}, snap |-> rows]
  /\ UNCHANGED <<up, files, copies, clock, work, verdict, victim, pdf, ghosts, stale, lost>>

ListIndex ==
  /\ up /\ lister.pc = "index"
  /\ LET missing == DOMAIN index \ DOMAIN lister.snap IN
       /\ TakenUp(missing)
       /\ lister' = IF missing = {} THEN NotListing
                    ELSE [pc |-> "check", todo |-> missing, snap |-> Restrict(index, missing)]
  /\ UNCHANGED <<up, files, copies, clock, work, verdict, victim, pdf, asked, deleted, torn, stale,
                 lost, counts>>

NextListed == First(lister.snap, lister.todo)
WithoutNext == IF lister.todo = {NextListed} THEN NotListing
               ELSE [lister EXCEPT !.pc = "check", !.todo = @ \ {NextListed}]

ListChecks ==
  /\ up /\ lister.pc = "check"
  /\ lister' = IF NextListed \in DOMAIN rows THEN WithoutNext ELSE [lister EXCEPT !.pc = "insert"]
  /\ UNCHANGED <<up, files, copies, clock, work, verdict, victim, pdf, ghosts, stale, lost, counts>>

ListInserts ==
  /\ up /\ lister.pc = "insert"
  /\ rows' = Put(rows, NextListed, lister.snap[NextListed])
  /\ lister' = WithoutNext
  /\ UNCHANGED <<up, files, indexed, index, clock, work, verdict, victim, pdf, ghosts, stale, lost,
                 counts>>

-----------------------------------------------------------------------------
(***************************************************************************)
(* A PDF of the latest saved scan: the newest with an XML among rows and   *)
(* index.  Its row is written after the job has been completed.            *)
(***************************************************************************)
Pdf == [pc : {"idle", "render", "row"}, scan : Scans \union {NoBase}, own : Catalogues]
NoPdf == [pc |-> "idle", scan |-> NoBase, own |-> <<>>]

Stamped(s) == IF s \in DOMAIN rows THEN rows[s].stamp ELSE index[s].stamp
PdfPicks ==
  /\ up /\ pdf.pc = "idle"
  /\ \E s \in Listed \intersect xml :
       /\ \A t \in Listed \intersect xml : Stamped(t) <= Stamped(s)
       /\ s \in DOMAIN meta
       /\ TakenUp({s})
       /\ pdf' = [pc |-> "render", scan |-> s, own |-> Only(s, meta[s])]
  /\ OneMore /\ UNCHANGED faulted
  /\ UNCHANGED <<up, files, copies, clock, work, verdict, victim, lister, asked, deleted, torn,
                 stale, lost>>

PdfRenders ==
  /\ up /\ pdf.pc = "render"
  /\ pdf' = IF pdf.scan \in xml THEN [pdf EXCEPT !.pc = "row"] ELSE NoPdf
  /\ UNCHANGED <<up, files, copies, clock, work, verdict, victim, lister, ghosts, stale, lost, counts>>

PdfPersists ==
  /\ up /\ pdf.pc = "row"
  /\ rows' = Put(rows, pdf.scan, IF pdf.scan \in DOMAIN meta THEN meta[pdf.scan]
                                 ELSE pdf.own[pdf.scan])
  /\ pdf' = NoPdf
  /\ UNCHANGED <<up, files, indexed, index, clock, work, verdict, victim, lister, ghosts, stale, lost,
                 counts>>

-----------------------------------------------------------------------------
(***************************************************************************)
(* Faults.  A write may raise, and the process may die; whatever a thread  *)
(* had written to one copy and not to the next stays so.                   *)
(***************************************************************************)
HalfWritten(a) ==
  LET w == work[a] IN
    (IF w.pc \in {"load", "index"} THEN {IF a = Deleter THEN victim ELSE a} ELSE {})
    \union (IF w.pc \in {"rewrite", "reindex"}
            THEN IF a = Deleter THEN DOMAIN w.snap ELSE {Last(w.snap, DOMAIN w.snap)} ELSE {})

\* A report that fails after its save records the failure; a failure of that
\* record ends the thread.
Raises(a) ==
  /\ up /\ OneFault
  /\ work[a].pc \in {"meta", "load", "index", "refresh", "rewrite", "reindex", "row", "drop", "tree"}
  /\ torn' = torn \union HalfWritten(a)
  /\ IF a = Deleter THEN work' = [work EXCEPT ![a] = Idle] /\ UNCHANGED verdict
     ELSE IF verdict[a] = "completed"
     THEN /\ verdict' = [verdict EXCEPT ![a] = "failed"]
          /\ work' = [work EXCEPT ![a] = [Idle EXCEPT !.pc = "meta"]]
     ELSE work' = [work EXCEPT ![a] = [Idle EXCEPT !.pc = "dead"]] /\ UNCHANGED verdict
  /\ stale' = stale \ {a}
  /\ UNCHANGED <<up, files, copies, clock, victim, lister, pdf, asked, deleted, haunted, lost>>

Dies ==
  /\ up /\ OneFault
  /\ up' = FALSE
  /\ torn' = torn \union UNION {HalfWritten(a) : a \in Agents}
  /\ work' = [a \in Agents |-> IF a # Deleter /\ Unfinished(a) THEN [Idle EXCEPT !.pc = "dead"]
                               ELSE IF a = Deleter THEN Idle ELSE work[a]]
  /\ lister' = NotListing /\ pdf' = NoPdf
  /\ stale' = {}
  /\ UNCHANGED <<files, copies, clock, verdict, victim, asked, deleted, haunted, lost>>

\* The index is built from the directories only when there is no index file;
\* then every indexed scan without a row gets one.
Starts ==
  /\ ~up
  /\ up' = TRUE
  /\ indexed' = TRUE
  /\ index' = IF indexed THEN index ELSE meta
  /\ rows' = [s \in DOMAIN rows \union DOMAIN index' |->
                IF s \in DOMAIN rows THEN rows[s] ELSE index'[s]]
  /\ UNCHANGED <<files, clock, work, verdict, victim, lister, pdf, ghosts, stale, lost, counts>>

-----------------------------------------------------------------------------
\* A first start, over the scans of an earlier version.
Init ==
  /\ up = FALSE /\ indexed = FALSE
  /\ dirs = 1..Legacy /\ xml = dirs
  /\ meta = [s \in dirs |-> [status |-> "completed", stamp |-> s, base |-> NoBase,
                             computed |-> FALSE]]
  /\ index = <<>> /\ rows = <<>>
  /\ clock = Legacy
  /\ work = [a \in Agents |-> IF a \in dirs THEN [Idle EXCEPT !.pc = "done"] ELSE Idle]
  /\ verdict = [s \in Scans |-> "completed"]
  /\ victim = 1
  /\ lister = NotListing /\ pdf = NoPdf
  /\ asked = {} /\ deleted = {} /\ haunted = {} /\ torn = {} /\ stale = {} /\ lost = FALSE
  /\ faulted = FALSE /\ events = 0

Next ==
  \/ \E s \in Scans :
       \/ BeginReport(s) \/ WriteMeta(s) \/ PersistRow(s)
       \/ \E v \in Over : ScanEnds(s, v)
       \/ DeleteBegins(s)
  \/ \E a \in Agents :
       \/ LoadIndex(a) \/ SaveIndex(a) \/ RefreshLoads(a)
       \/ RefreshRewrites(a) \/ RefreshSaves(a) \/ Raises(a)
  \/ DeleteRow \/ DeleteTree
  \/ ListRows \/ ListIndex \/ ListChecks \/ ListInserts
  \/ PdfPicks \/ PdfRenders \/ PdfPersists
  \/ Dies \/ Starts

Spec == Init /\ [][Next]_vars

-----------------------------------------------------------------------------
\* Every variable has its type; an agent that saves the index has loaded it.
ArchiveTypeOK ==
  /\ up \in BOOLEAN /\ faulted \in BOOLEAN /\ indexed \in BOOLEAN /\ lost \in BOOLEAN
  /\ xml \subseteq dirs /\ DOMAIN meta \subseteq dirs /\ dirs \subseteq Scans
  /\ {meta, index, rows} \subseteq Catalogues
  /\ clock \in 0..(2 * N)
  /\ work \in [Agents -> Work]
  /\ \A s \in Scans : work[s].pc \in {"load", "row"} \union Holding => DOMAIN work[s].own = {s}
  /\ \A a \in Agents : work[a].pc = "rewrite" =>
                        work[a].todo # {} /\ work[a].todo \subseteq DOMAIN work[a].snap
  /\ verdict \in [Scans -> Over]
  /\ victim \in Scans
  /\ lister \in Lister /\ pdf \in Pdf
  /\ deleted \subseteq asked /\ haunted \subseteq asked /\ asked \subseteq Scans
  /\ torn \subseteq Scans /\ stale \subseteq Agents /\ events \in 0..MaxEvents

\* A finished report stays in the history until its deletion is asked for, even
\* when concurrent reports and deletions overwrite its index entry.
FinishedReportsAreListed ==
  up => \A s \in Scans : work[s].pc = "done" /\ s \notin asked => s \in Listed

\* A deletion answered with success is final, on disk, in the index and in the
\* rows, unless another thread held a copy of the scan meanwhile.
DeletedScansStayGone ==
  \A s \in deleted \ haunted : s \notin dirs \union Listed

Settled == \A a \in Agents : work[a].pc \in {"idle", "scan", "done", "dead"}

\* As long as no agent has saved an overtaken copy of the index, it agrees with
\* the metadata.json files whenever nobody is writing, crashes included: only
\* the scans a thread died at are off.
IndexMatchesDisk ==
  up /\ Settled /\ ~lost =>
    \A s \in Scans \ (torn \union haunted) :
      /\ s \in DOMAIN index <=> s \in DOMAIN meta
      /\ s \in DOMAIN index => index[s] = meta[s]

\* The history shows what the disk holds: every finished report, with its own metadata.
HistoryMatchesDisk == FinishedReportsAreListed /\ IndexMatchesDisk

\* No entry is compared with a deleted scan or a later one, and the newest only
\* with the one before it.
BaselinesAreCurrent ==
  up /\ Settled /\ ~lost /\ ~faulted =>
    \A s \in DOMAIN index : index[s].base # NoBase =>
      /\ index[s].base \in Before(index, s)
      /\ s = Last(index, DOMAIN index) => index[s].base = Previous(index, s)
=============================================================================
