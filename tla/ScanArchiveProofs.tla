--------------------------- MODULE ScanArchiveProofs ---------------------------
(***************************************************************************)
(* Proofs about the archive of reports, for any number of scans, agents,   *)
(* deletions, listings and PDFs, and for a fault anywhere.                 *)
(*                                                                         *)
(* The inductive invariant has five parts.  TypesInv: types, and what each *)
(* thread holds where it stands.  DeletionInv: nothing brings a deleted    *)
(* scan back.  ListedInv: a finished report has its row, or its files      *)
(* before the first index.  IndexInv: as long as no overtaken copy has     *)
(* been saved, index and disk differ only at the scans some agent is about *)
(* to add, drop or rewrite, and each agent that is not overtaken holds the *)
(* index up to its own changes.  BaseInv: without losses and faults, what  *)
(* every entry is compared with.                                           *)
(*                                                                         *)
(* A lemma XIs says what the step X does without records and function      *)
(* updates; the lemmas about single steps rest on those.                   *)
(***************************************************************************)
EXTENDS ScanArchive, FiniteSetTheorems, WellFoundedInduction, TLAPS

-----------------------------------------------------------------------------
(* Catalogues.                                                              *)

LEMMA InCatalogues ==
  ASSUME NEW S \in SUBSET Scans, NEW f \in [S -> Meta]
  PROVE  f \in Catalogues
BY DEF Catalogues

LEMMA CatalogueHas ==
  ASSUME NEW f \in Catalogues
  PROVE  /\ DOMAIN f \subseteq Scans
         /\ f \in [DOMAIN f -> Meta]
         /\ \A s \in DOMAIN f : f[s] \in Meta
BY DEF Catalogues

LEMMA EmptyCatalogue ==
  /\ <<>> \in Catalogues /\ DOMAIN <<>> = {}
  /\ \A f \in Catalogues : DOMAIN f = {} => f = <<>>
<1>1. <<>> \in [{} -> Meta]
  OBVIOUS
<1>2. \A f \in [{} -> Meta] : f = <<>>
  OBVIOUS
<1>. QED
  BY <1>1, <1>2, InCatalogues, CatalogueHas

LEMMA PutDomain == \A g, x, e : DOMAIN Put(g, x, e) = DOMAIN g \union {x}
BY DEF Put

LEMMA PutHere == \A g, x, e : Put(g, x, e)[x] = e
BY DEF Put

LEMMA PutElsewhere == \A g, x, e : \A y \in DOMAIN g \ {x} : Put(g, x, e)[y] = g[y]
BY DEF Put

LEMMA PutKeeps ==
  ASSUME NEW f \in Catalogues, NEW s \in Scans, NEW d \in Meta
  PROVE  Put(f, s, d) \in Catalogues
<1>1. Put(f, s, d) \in [DOMAIN f \union {s} -> Meta]
  BY CatalogueHas DEF Put
<1>. QED
  BY <1>1, CatalogueHas, InCatalogues

LEMMA WithoutDomain == \A g, x : DOMAIN Without(g, x) = DOMAIN g \ {x}
BY DEF Without, Restrict

LEMMA WithoutElsewhere == \A g, x : \A y \in DOMAIN g \ {x} : Without(g, x)[y] = g[y]
BY DEF Without, Restrict

LEMMA RestrictKeeps ==
  ASSUME NEW f \in Catalogues, NEW S \in SUBSET (DOMAIN f)
  PROVE  /\ Restrict(f, S) \in Catalogues /\ DOMAIN Restrict(f, S) = S
         /\ \A s \in S : Restrict(f, S)[s] = f[s]
<1>1. Restrict(f, S) \in [S -> Meta]
  BY CatalogueHas DEF Restrict
<1>2. S \in SUBSET Scans
  BY CatalogueHas
<1>. QED
  BY <1>1, <1>2, InCatalogues DEF Restrict

LEMMA WithoutKeeps ==
  ASSUME NEW f \in Catalogues, NEW s
  PROVE  Without(f, s) \in Catalogues
BY RestrictKeeps DEF Without

LEMMA OnlyIs ==
  ASSUME NEW s, NEW d
  PROVE  DOMAIN Only(s, d) = {s} /\ Only(s, d)[s] = d
BY DEF Only

LEMMA OnlyKeeps ==
  ASSUME NEW s \in Scans, NEW d \in Meta
  PROVE  Only(s, d) \in Catalogues
<1>1. Only(s, d) \in [{s} -> Meta]
  BY DEF Only
<1>. QED
  BY <1>1, InCatalogues

-----------------------------------------------------------------------------
(* The order of the entries.                                                *)

LEMMA Smallest ==
  ASSUME NEW S \in SUBSET Nat, S # {}
  PROVE  \E x \in S : \A y \in S : x <= y
<1>1. \E x \in S : \A y \in S : ~(<<y, x>> \in OpToRel(<, Nat))
  BY NatLessThanWellFounded, WFMin
<1>2. PICK x \in S : \A y \in S : ~(<<y, x>> \in OpToRel(<, Nat))
  BY <1>1
<1>3. \A y \in S : ~(y < x)
  BY <1>2 DEF OpToRel
<1>. QED
  BY <1>3

LEMMA StampsAreNumbers ==
  ASSUME NEW f \in Catalogues, NEW s \in DOMAIN f
  PROVE  f[s].stamp \in Nat /\ f[s].stamp <= 2 * N /\ f[s].stamp >= 1
BY ArchiveAssumption, CatalogueHas DEF Meta

LEMMA FirstIs ==
  ASSUME NEW f \in Catalogues, NEW S \in SUBSET (DOMAIN f), S # {}
  PROVE  First(f, S) \in S /\ \A o \in S : f[First(f, S)].stamp <= f[o].stamp
<1>. DEFINE T == {f[s].stamp : s \in S}
<1>1. T \in SUBSET Nat /\ T # {}
  BY StampsAreNumbers
<1>2. PICK x \in T : \A y \in T : x <= y
  <2>. HIDE DEF T
  <2>. QED
    BY <1>1, Smallest
<1>3. PICK t \in S : f[t].stamp = x
  OBVIOUS
<1>4. \A o \in S : f[t].stamp <= f[o].stamp
  BY <1>2, <1>3
<1>. QED
  BY <1>4 DEF First

LEMMA LastIs ==
  ASSUME NEW f \in Catalogues, NEW S \in SUBSET (DOMAIN f), S # {}
  PROVE  Last(f, S) \in S /\ \A o \in S : f[o].stamp <= f[Last(f, S)].stamp
<1>. DEFINE T == {2 * N - f[s].stamp : s \in S}
<1>1. T \in SUBSET Nat /\ T # {}
  <2>1. \A s \in S : 2 * N - f[s].stamp \in Nat
    BY StampsAreNumbers, ArchiveAssumption
  <2>. QED
    BY <2>1
<1>2. PICK x \in T : \A y \in T : x <= y
  <2>. HIDE DEF T
  <2>. QED
    BY <1>1, Smallest
<1>3. PICK t \in S : 2 * N - f[t].stamp = x
  OBVIOUS
<1>4. \A o \in S : f[o].stamp <= f[t].stamp
  <2>1. \A o \in S : 2 * N - f[t].stamp <= 2 * N - f[o].stamp
    BY <1>2, <1>3
  <2>. QED
    BY <2>1, StampsAreNumbers, ArchiveAssumption
<1>. QED
  BY <1>4 DEF Last

LEMMA SameOrder ==
  ASSUME NEW f, NEW g, NEW S, \A s \in S : g[s].stamp = f[s].stamp
  PROVE  Last(g, S) = Last(f, S)
BY DEF Last

LEMMA PreviousIs ==
  ASSUME NEW f \in Catalogues, NEW s \in DOMAIN f
  PROVE  /\ Previous(f, s) \in Before(f, s) \union {NoBase}
         /\ Previous(f, s) = NoBase => Before(f, s) = {}
         /\ Before(f, s) \subseteq DOMAIN f /\ NoBase \notin DOMAIN f
<1>1. Before(f, s) \in SUBSET (DOMAIN f)
  BY DEF Before
<1>2. NoBase \notin DOMAIN f
  BY CatalogueHas, ArchiveAssumption DEF NoBase, Scans
<1>3. Before(f, s) # {} => Last(f, Before(f, s)) \in Before(f, s)
  BY <1>1, LastIs
<1>. QED
  BY <1>1, <1>2, <1>3 DEF Previous

\* A summary keeps the status and the timestamp of its entry; the scan it names
\* is the one before.
LEMMA SummarisedIs ==
  ASSUME NEW f \in Catalogues, NEW s \in DOMAIN f
  PROVE  /\ Summarised(f, s) \in Meta
         /\ Summarised(f, s).stamp = f[s].stamp
         /\ Summarised(f, s).status = f[s].status
         /\ Summarised(f, s).base \in {NoBase, Previous(f, s)}
<1>. DEFINE p == Previous(f, s)
            both == p # NoBase /\ {p, s} \subseteq xml
            b == IF both /\ HasChanges(s, p) THEN p ELSE NoBase
            c == (p = NoBase) \/ both
<1>1. p \in Scans \union {NoBase}
  BY PreviousIs, CatalogueHas
<1>2. f[s] \in Meta
  BY CatalogueHas
<1>3. Summarised(f, s) = [f[s] EXCEPT !.base = b, !.computed = c]
  BY DEF Summarised
<1>4. b \in {NoBase, p} /\ c \in BOOLEAN
  OBVIOUS
<1>. HIDE DEF p, both, b, c
<1>5. /\ [f[s] EXCEPT !.base = b, !.computed = c] \in Meta
      /\ [f[s] EXCEPT !.base = b, !.computed = c].base = b
      /\ [f[s] EXCEPT !.base = b, !.computed = c].stamp = f[s].stamp
      /\ [f[s] EXCEPT !.base = b, !.computed = c].status = f[s].status
  BY <1>1, <1>2, <1>4 DEF Meta
<1>. QED
  BY <1>3, <1>4, <1>5 DEF p

LEMMA NewEntryIs ==
  ASSUME NEW st \in Over, NEW n \in 1..(2 * N)
  PROVE  [status |-> st, stamp |-> n, base |-> NoBase, computed |-> FALSE] \in Meta
BY DEF Meta

LEMMA FailedEntryIs ==
  ASSUME NEW d \in Meta
  PROVE  /\ [d EXCEPT !.status = "failed"] \in Meta
         /\ [d EXCEPT !.status = "failed"].stamp = d.stamp
         /\ [d EXCEPT !.status = "failed"].base = d.base
BY DEF Meta, Over

-----------------------------------------------------------------------------
(* Types.                                                                   *)

Running == {"load", "index", "refresh", "rewrite", "reindex"}
Refreshing == {"refresh", "rewrite", "reindex"}

\* Scans whose metadata.json is still to be written for the first time.
Unwritten == {s \in Scans : work[s].pc \in {"idle", "scan", "meta"}}

FlagsOK ==
  /\ up \in BOOLEAN /\ faulted \in BOOLEAN /\ indexed \in BOOLEAN /\ lost \in BOOLEAN
  /\ up => indexed
  /\ events \in 0..MaxEvents

FilesOK ==
  /\ xml \subseteq dirs /\ DOMAIN meta \subseteq dirs /\ dirs \subseteq Scans
  /\ meta \in Catalogues /\ index \in Catalogues /\ rows \in Catalogues
  /\ \A s \in dirs : work[s].pc # "idle"

\* Each scan takes one timestamp, and a fault one more.
ClockOK ==
  /\ clock \in Nat
  /\ clock + Cardinality(Unwritten) <= N + (IF faulted THEN 1 ELSE 0)

\* An agent that saves has loaded; one that rewrites works on what it has loaded.
WorkOK ==
  /\ work \in [Agents -> Work] /\ verdict \in [Scans -> Over]
  /\ \A s \in Scans : /\ work[s].pc \notin {"drop", "tree"}
                      /\ work[s].pc \in Running \union {"row"} => DOMAIN work[s].own = {s}
  /\ work[Deleter].pc \in {"idle", "drop", "tree"} \union Running
  /\ \A a \in Agents :
       /\ work[a].pc = "rewrite" => work[a].todo # {}
       /\ work[a].pc = "reindex" => work[a].todo = {}
       /\ work[a].pc \in {"rewrite", "reindex"} =>
            DOMAIN work[a].snap # {} /\ work[a].todo \subseteq HalfWritten(a)
       /\ ~up => work[a].pc \in {"idle", "done", "dead"}

ReadersOK ==
  /\ lister \in Lister /\ pdf \in Pdf
  /\ lister.pc \in {"check", "insert"} => lister.todo # {}
  /\ lister.todo \subseteq DOMAIN lister.snap
  /\ pdf.pc # "idle" => pdf.scan \in Scans /\ DOMAIN pdf.own = {pdf.scan}
  /\ ~up => lister = NotListing /\ pdf = NoPdf

GhostsOK ==
  /\ deleted \subseteq asked /\ haunted \subseteq asked /\ asked \subseteq Scans
  /\ torn \subseteq Scans /\ stale \subseteq Agents
  /\ ~faulted => torn = {}
  /\ victim \in Scans
  /\ work[Deleter].pc # "idle" => victim \in asked /\ work[victim].pc # "idle"

TypesInv == FlagsOK /\ FilesOK /\ ClockOK /\ WorkOK /\ ReadersOK /\ GhostsOK

-----------------------------------------------------------------------------
(* Deletion.                                                                *)

\* Nobody is left who would write a row or the metadata of a scan.
Untaken(s) == work[s].pc \in {"done", "dead"} /\ s \notin lister.todo /\ pdf.scan # s

Gone(s) ==
  /\ s \notin dirs /\ s \notin DOMAIN rows /\ s \notin DOMAIN index /\ Untaken(s)
  /\ \A a \in Agents : work[a].pc \in Holding => s \notin DOMAIN work[a].snap

DeletionInv ==
  /\ \A s \in deleted \ haunted : Gone(s)
  /\ victim \notin haunted =>
       /\ work[Deleter].pc \in {"tree", "load", "index"} => victim \notin DOMAIN rows /\ Untaken(victim)
       /\ work[Deleter].pc \in {"load", "index"} => victim \notin dirs
       /\ work[Deleter].pc \in Refreshing => Gone(victim)

ListedInv ==
  \A s \in Scans \ asked : work[s].pc = "done" =>
    s \in DOMAIN rows \/ (~indexed /\ s \in DOMAIN meta)

-----------------------------------------------------------------------------
(* The index.                                                               *)

\* Scans at which the index may differ from the disk for good.
Off == torn \union haunted

\* The scan an agent that will save the index adds or drops.
Subject(a) == IF a = Deleter THEN victim ELSE a
Moving == {Subject(a) : a \in {b \in Agents : work[b].pc \in {"load", "index"}}}
Rewritten(a) == HalfWritten(a) \ work[a].todo

MembersMatch == \A s \in Scans \ (Off \union Moving) : s \in DOMAIN index <=> s \in DOMAIN meta

ContentsMatch ==
  \A s \in Scans \ Off :
    \/ \E a \in Agents : s \in HalfWritten(a)
    \/ s \in DOMAIN index \intersect DOMAIN meta => index[s] = meta[s]

OwnIsSaved ==
  \A s \in Scans \ haunted : work[s].pc \in {"load", "index"} => s \in DOMAIN meta /\ meta[s] = work[s].own[s]

HeldIsCurrent ==
  \A a \in Agents \ stale : work[a].pc \in Holding =>
    LET snap == work[a].snap IN
    /\ DOMAIN snap = DOMAIN index
    /\ \A s \in DOMAIN index : snap[s].stamp = index[s].stamp
    /\ work[a].pc = "index" => snap = index
    /\ work[a].pc # "index" => \A s \in DOMAIN index \ Rewritten(a) : snap[s] = index[s]

RewrittenIsSaved ==
  \A a \in Agents \ stale : work[a].pc \in {"rewrite", "reindex"} =>
    \A s \in Rewritten(a) \ Off :
      \/ s \notin DOMAIN meta
      \/ \E b \in Agents \ {a} : s \in HalfWritten(b)
      \/ work[a].snap[s] = meta[s]

IndexInv ==
  ~lost => /\ indexed => MembersMatch /\ ContentsMatch
           /\ OwnIsSaved /\ HeldIsCurrent /\ RewrittenIsSaved

-----------------------------------------------------------------------------
(* Baselines.                                                               *)

\* A report that has added itself to the index.
Late(s) == work[s].pc \notin {"idle", "scan", "meta", "load", "index"}

FirstTime ==
  /\ \A s \in Scans : work[s].pc \in {"idle", "scan", "meta"} => s \notin DOMAIN meta
  /\ \A s \in DOMAIN index : Late(s)
  /\ \A s \in Scans : work[s].pc \in {"load", "index"} => work[s].own[s].base = NoBase

Backed ==
  /\ \A s \in DOMAIN rows \union lister.todo \union ({pdf.scan} \ {NoBase}) : Late(s)
  /\ \A s \in dirs : s \in DOMAIN meta \/ work[s].pc \in {"idle", "scan", "meta"}
  /\ work[Deleter].pc \in {"drop", "tree", "load", "index"} => work[Deleter].own # <<>>

BasesOK ==
  \A s \in DOMAIN index : index[s].base # NoBase =>
    \/ index[s].base \in Before(index, s)
    \/ work[Deleter].pc \in Refreshing /\ index[s].base = victim

Fresh(f, s) == f[s].base \in {NoBase, Previous(f, s)}

RewrittenIsFresh ==
  \A a \in Agents : work[a].pc \in {"rewrite", "reindex"} =>
    \A s \in Rewritten(a) : Fresh(work[a].snap, s)

NewestOK ==
  \/ \E a \in Agents : work[a].pc \in Refreshing
  \/ DOMAIN index = {}
  \/ Fresh(index, Last(index, DOMAIN index))

BaseInv ==
  ~lost /\ ~faulted =>
    /\ ~indexed => index = <<>> /\ \A s \in DOMAIN meta : meta[s].base = NoBase
    /\ FirstTime /\ Backed /\ BasesOK /\ RewrittenIsFresh /\ NewestOK

-----------------------------------------------------------------------------
(* What each step does to the agents.                                       *)

Becomes(a, pc, own, snap, todo) ==
  /\ work' \in [Agents -> Work]
  /\ work'[a].pc = pc /\ work'[a].own = own /\ work'[a].snap = snap /\ work'[a].todo = todo
  /\ \A b \in Agents \ {a} : work'[b] = work[b]

LEMMA AgentsAre == Scans \subseteq Agents /\ Deleter \in Agents /\ Deleter \notin Scans
BY ArchiveAssumption DEF Scans, Agents, Deleter

LEMMA WorkHas ==
  ASSUME work \in [Agents -> Work], NEW a \in Agents
  PROVE  /\ work[a] \in Work /\ work[a].pc \in Pcs
         /\ work[a].own \in Catalogues /\ work[a].snap \in Catalogues
         /\ work[a].todo \in SUBSET Scans
BY DEF Work

LEMMA IdleIs ==
  /\ Idle.own = <<>> /\ Idle.snap = <<>> /\ Idle.todo = {} /\ Idle.pc = "idle" /\ Idle \in Work
BY EmptyCatalogue DEF Idle, Work, Pcs

LEMMA GotoIs ==
  ASSUME work \in [Agents -> Work], NEW a \in Agents, NEW pc \in Pcs, Goto(a, pc)
  PROVE  Becomes(a, pc, work[a].own, work[a].snap, work[a].todo)
BY DEF Goto, Becomes, Work

LEMMA RestartIs ==
  ASSUME work \in [Agents -> Work], NEW a \in Agents, NEW pc \in Pcs,
         work' = [work EXCEPT ![a] = [Idle EXCEPT !.pc = pc]]
  PROVE  Becomes(a, pc, <<>>, <<>>, {})
<1>1. [Idle EXCEPT !.pc = pc] \in Work
  BY EmptyCatalogue DEF Idle, Work
<1>2. /\ [Idle EXCEPT !.pc = pc].pc = pc /\ [Idle EXCEPT !.pc = pc].own = <<>>
      /\ [Idle EXCEPT !.pc = pc].snap = <<>> /\ [Idle EXCEPT !.pc = pc].todo = {}
  BY DEF Idle
<1>. QED
  BY <1>1, <1>2 DEF Becomes

LEMMA StartIs ==
  ASSUME work \in [Agents -> Work], NEW a \in Agents, NEW pc \in Pcs, NEW own \in Catalogues,
         work' = [work EXCEPT ![a] = [Idle EXCEPT !.pc = pc, !.own = own]]
  PROVE  Becomes(a, pc, own, <<>>, {})
<1>1. [Idle EXCEPT !.pc = pc, !.own = own] \in Work
  BY EmptyCatalogue DEF Idle, Work
<1>2. /\ [Idle EXCEPT !.pc = pc, !.own = own].pc = pc
      /\ [Idle EXCEPT !.pc = pc, !.own = own].own = own
      /\ [Idle EXCEPT !.pc = pc, !.own = own].snap = <<>>
      /\ [Idle EXCEPT !.pc = pc, !.own = own].todo = {}
  BY DEF Idle
<1>. QED
  BY <1>1, <1>2 DEF Becomes

LEMMA LeaveIs ==
  ASSUME work \in [Agents -> Work], NEW a \in Agents, Leave(a)
  PROVE  \/ /\ a = Deleter /\ Becomes(a, "idle", <<>>, <<>>, {})
            /\ deleted' = deleted \union {victim}
         \/ /\ a # Deleter /\ Becomes(a, "row", work[a].own, work[a].snap, work[a].todo)
            /\ deleted' = deleted
<1>1. ASSUME a = Deleter
      PROVE  Becomes(a, "idle", <<>>, <<>>, {}) /\ deleted' = deleted \union {victim}
  BY <1>1, IdleIs DEF Leave, Becomes
<1>2. ASSUME a # Deleter
      PROVE  /\ Becomes(a, "row", work[a].own, work[a].snap, work[a].todo)
             /\ deleted' = deleted
  BY <1>2, GotoIs DEF Leave, Pcs
<1>. QED
  BY <1>1, <1>2

LEMMA UnwrittenIs ==
  /\ IsFiniteSet(Unwritten) /\ Cardinality(Unwritten) \in Nat
  /\ \A s \in Unwritten : Cardinality(Unwritten) >= 1
<1>1. IsFiniteSet(Scans)
  BY ArchiveAssumption, FS_Interval DEF Scans
<1>2. IsFiniteSet(Unwritten)
  BY <1>1, FS_Subset DEF Unwritten
<1>3. Unwritten # {} => Cardinality(Unwritten) # 0
  BY <1>2, FS_EmptySet
<1>. QED
  BY <1>2, <1>3, FS_CardinalityType

LEMMA HalfWrittenIs ==
  ASSUME TypesInv, NEW a \in Agents
  PROVE  /\ HalfWritten(a) \in SUBSET Scans
         /\ work[a].pc \in {"load", "index"} => HalfWritten(a) = {Subject(a)}
         /\ work[a].pc \in {"rewrite", "reindex"} =>
              /\ HalfWritten(a) \subseteq DOMAIN work[a].snap
              /\ a = Deleter => HalfWritten(a) = DOMAIN work[a].snap
              /\ a # Deleter => HalfWritten(a) = {Last(work[a].snap, DOMAIN work[a].snap)}
         /\ work[a].pc \notin {"load", "index", "rewrite", "reindex"} => HalfWritten(a) = {}
<1>1. a # Deleter => a \in Scans
  BY DEF Agents, Scans, Deleter
<1>2. work[a].snap \in Catalogues /\ victim \in Scans
  BY WorkHas DEF TypesInv, WorkOK, GhostsOK
<1>3. ASSUME work[a].pc \in {"rewrite", "reindex"}
      PROVE  Last(work[a].snap, DOMAIN work[a].snap) \in DOMAIN work[a].snap
  BY <1>2, <1>3, LastIs DEF TypesInv, WorkOK
<1>4. DOMAIN work[a].snap \subseteq Scans
  BY <1>2, CatalogueHas
<1>. QED
  BY <1>1, <1>2, <1>3, <1>4 DEF HalfWritten, Subject

LEMMA WriteMetaIs ==
  ASSUME TypesInv, NEW s \in Scans, WriteMeta(s)
  PROVE  /\ up /\ work[s].pc = "meta"
         /\ meta'[s] \in Meta /\ meta' = Put(meta, s, meta'[s])
         /\ \/ /\ s \in DOMAIN meta /\ meta'[s].base = meta[s].base
               /\ meta'[s].stamp = meta[s].stamp /\ clock' = clock
            \/ meta'[s].base = NoBase /\ meta'[s].stamp = clock + 1 /\ clock' = clock + 1
         /\ dirs' = dirs \union {s}
         /\ Becomes(s, "load", Only(s, meta'[s]), <<>>, {})
         /\ UNCHANGED <<up, xml, copies, verdict, victim, lister, pdf, ghosts, stale, lost,
                        counts>>
<1>. DEFINE kept == verdict[s] = "failed" /\ s \in DOMAIN meta
            old == [meta[s] EXCEPT !.status = "failed"]
            new == [status |-> verdict[s], stamp |-> clock + 1, base |-> NoBase, computed |-> FALSE]
            entry == IF kept THEN old ELSE new
<1>1. work[s].pc = "meta" /\ up
  BY DEF WriteMeta, At
<1>2. clock + 1 \in 1..(2 * N)
  <2>1. s \in Unwritten
    BY <1>1 DEF Unwritten
  <2>2. clock + Cardinality(Unwritten) <= N + 1 /\ clock \in Nat
    BY UnwrittenIs, ArchiveAssumption DEF TypesInv, ClockOK
  <2>. QED
    BY <2>1, <2>2, UnwrittenIs, ArchiveAssumption
<1>3. verdict[s] \in Over
  BY DEF TypesInv, WorkOK
<1>4. new \in Meta
  BY <1>2, <1>3, NewEntryIs
<1>5. s \in DOMAIN meta => old \in Meta /\ old.base = meta[s].base /\ old.stamp = meta[s].stamp
  <2>1. s \in DOMAIN meta => meta[s] \in Meta
    BY CatalogueHas DEF TypesInv, FilesOK
  <2>. QED
    BY <2>1, FailedEntryIs
<1>6. new.base = NoBase /\ new.stamp = clock + 1
  OBVIOUS
<1>7. /\ meta' = Put(meta, s, entry)
      /\ clock' = IF kept THEN clock ELSE clock + 1
      /\ dirs' = dirs \union {s}
      /\ work' = [work EXCEPT ![s] = [Idle EXCEPT !.pc = "load", !.own = Only(s, meta'[s])]]
      /\ UNCHANGED <<up, xml, copies, verdict, victim, lister, pdf, ghosts, stale, lost, counts>>
  BY DEF WriteMeta
<1>. HIDE DEF old, new
<1>8. meta'[s] = entry
  <2>1. meta' = Put(meta, s, entry)
    BY <1>7
  <2>. HIDE DEF entry
  <2>. QED
    BY <2>1, PutDomain, PutHere, PutElsewhere
<1>9. meta'[s] \in Meta
  BY <1>4, <1>5, <1>8
<1>10. Becomes(s, "load", Only(s, meta'[s]), <<>>, {})
  <2>1. PICK d \in Meta : d = meta'[s]
    BY <1>9
  <2>2. Only(s, d) \in Catalogues /\ "load" \in Pcs /\ s \in Agents /\ work \in [Agents -> Work]
    BY OnlyKeeps, AgentsAre DEF Pcs, TypesInv, WorkOK
  <2>3. work' = [work EXCEPT ![s] = [Idle EXCEPT !.pc = "load", !.own = Only(s, d)]]
    BY <1>7, <2>1
  <2>. QED
    BY <2>1, <2>2, <2>3, StartIs
<1>. QED
  BY <1>1, <1>4, <1>5, <1>6, <1>7, <1>8, <1>9, <1>10

LEMMA PersistRowIs ==
  ASSUME TypesInv, NEW s \in Scans, PersistRow(s)
  PROVE  /\ up /\ work[s].pc = "row"
         /\ rows' = Put(rows, s, IF s \in DOMAIN meta THEN meta[s] ELSE work[s].own[s])
         /\ rows' \in Catalogues /\ DOMAIN rows' = DOMAIN rows \union {s}
         /\ \/ /\ Becomes(s, "done", <<>>, <<>>, {})
               /\ UNCHANGED <<verdict, counts>>
            \/ /\ Becomes(s, "meta", <<>>, <<>>, {})
               /\ verdict' \in [Scans -> Over] /\ OneFault
         /\ UNCHANGED <<up, files, indexed, index, clock, victim, lister, pdf, ghosts, stale,
                        lost>>
<1>1. work \in [Agents -> Work] /\ verdict \in [Scans -> Over] /\ s \in Agents
  BY AgentsAre DEF TypesInv, WorkOK
<1>2. "done" \in Pcs /\ "meta" \in Pcs /\ "failed" \in Over
  BY DEF Pcs, Over
<1>3. /\ up /\ work[s].pc = "row"
      /\ rows' = Put(rows, s, IF s \in DOMAIN meta THEN meta[s] ELSE work[s].own[s])
      /\ UNCHANGED <<up, files, indexed, index, clock, victim, lister, pdf, ghosts, stale, lost>>
  BY DEF PersistRow, At
<1>4. /\ meta \in Catalogues /\ rows \in Catalogues /\ work[s].own \in Catalogues
      /\ DOMAIN work[s].own = {s}
  BY <1>1, <1>3, WorkHas DEF TypesInv, FilesOK, WorkOK
<1>5. (IF s \in DOMAIN meta THEN meta[s] ELSE work[s].own[s]) \in Meta
  BY <1>4, CatalogueHas
<1>6. \/ /\ work' = [work EXCEPT ![s] = [Idle EXCEPT !.pc = "done"]]
         /\ UNCHANGED <<verdict, counts>>
      \/ /\ OneFault
         /\ work' = [work EXCEPT ![s] = [Idle EXCEPT !.pc = "meta"]]
         /\ verdict' = [verdict EXCEPT ![s] = "failed"]
  BY DEF PersistRow
<1>7. \/ /\ Becomes(s, "done", <<>>, <<>>, {})
         /\ UNCHANGED <<verdict, counts>>
      \/ /\ Becomes(s, "meta", <<>>, <<>>, {})
         /\ verdict' \in [Scans -> Over] /\ OneFault
  <2>1. CASE work' = [work EXCEPT ![s] = [Idle EXCEPT !.pc = "done"]] /\ UNCHANGED <<verdict, counts>>
    BY <2>1, <1>1, <1>2, RestartIs
  <2>2. CASE /\ OneFault
             /\ work' = [work EXCEPT ![s] = [Idle EXCEPT !.pc = "meta"]]
             /\ verdict' = [verdict EXCEPT ![s] = "failed"]
    <3>1. verdict' \in [Scans -> Over]
      BY <2>2, <1>1, <1>2
    <3>2. Becomes(s, "meta", <<>>, <<>>, {})
      BY <2>2, <1>1, <1>2, RestartIs
    <3>. QED
      BY <2>2, <3>1, <3>2
  <2>. QED
    BY <1>6, <2>1, <2>2
<1>. QED
  BY <1>3, <1>4, <1>5, <1>7, PutDomain, PutHere, PutElsewhere, PutKeeps

LEMMA LoadIndexIs ==
  ASSUME TypesInv, NEW a \in Agents, LoadIndex(a)
  PROVE  /\ up /\ work[a].pc = "load"
         /\ Becomes(a, "index", work[a].own, index, work[a].todo)
         /\ stale' = stale \ {a}
         /\ UNCHANGED <<up, files, copies, clock, verdict, victim, lister, pdf, ghosts, lost,
                        counts>>
<1>1. work \in [Agents -> Work] /\ index \in Catalogues
  BY DEF TypesInv, WorkOK, FilesOK
<1>2. work' = [work EXCEPT ![a].pc = "index", ![a].snap = index]
  BY DEF LoadIndex
<1>3. Becomes(a, "index", work[a].own, index, work[a].todo)
  BY <1>1, <1>2 DEF Becomes, Work, Pcs
<1>. QED
  BY <1>3 DEF LoadIndex, At

LEMMA EntryChangedIs ==
  ASSUME TypesInv, NEW a \in Agents, work[a].pc = "index"
  PROVE  /\ EntryChanged(a) \in Catalogues
         /\ a = Deleter => EntryChanged(a) = Without(work[a].snap, victim)
         /\ a # Deleter => /\ a \in Scans /\ DOMAIN work[a].own = {a}
                          /\ EntryChanged(a) = Put(work[a].snap, a, work[a].own[a])
<1>1. work[a].snap \in Catalogues /\ work[a].own \in Catalogues
  BY WorkHas DEF TypesInv, WorkOK
<1>2. a # Deleter => a \in Scans /\ DOMAIN work[a].own = {a}
  BY DEF TypesInv, WorkOK, Agents, Scans, Deleter, Running
<1>3. a # Deleter => work[a].own[a] \in Meta
  BY <1>1, <1>2, CatalogueHas
<1>. QED
  BY <1>1, <1>2, <1>3, PutKeeps, WithoutKeeps DEF EntryChanged

LEMMA SaveIndexIs ==
  ASSUME TypesInv, NEW a \in Agents, SaveIndex(a)
  PROVE  /\ up /\ work[a].pc = "index" /\ index' = EntryChanged(a)
         /\ Overtake(a)
         /\ haunted' \in {haunted, haunted \union {victim}} /\ (a # Deleter => haunted' = haunted)
         /\ a = Deleter /\ victim \notin haunted' =>
              \A s \in Scans : work[s].pc \in Holding => victim \notin DOMAIN work[s].snap
         /\ \/ /\ work[a].own # <<>> /\ deleted' = deleted
               /\ Becomes(a, "refresh", work[a].own, work[a].snap, work[a].todo)
            \/ /\ work[a].own = <<>> /\ a = Deleter /\ deleted' = deleted \union {victim}
               /\ Becomes(a, "idle", <<>>, <<>>, {})
         /\ UNCHANGED <<up, files, indexed, rows, clock, verdict, victim, lister, pdf, asked,
                        torn,
                        counts>>
<1>1. work \in [Agents -> Work] /\ "refresh" \in Pcs
  BY DEF TypesInv, WorkOK, Pcs
<1>2. work[a].pc = "index"
  BY DEF SaveIndex, At
<1>3. a # Deleter => work[a].own # <<>>
  BY <1>2, EntryChangedIs, EmptyCatalogue
<1>4. ASSUME work[a].own # <<>>
      PROVE  /\ deleted' = deleted
             /\ Becomes(a, "refresh", work[a].own, work[a].snap, work[a].todo)
  BY <1>1, <1>4, GotoIs DEF SaveIndex
<1>5. ASSUME work[a].own = <<>>
      PROVE  /\ a = Deleter /\ deleted' = deleted \union {victim}
             /\ Becomes(a, "idle", <<>>, <<>>, {})
  BY <1>1, <1>3, <1>5, LeaveIs DEF SaveIndex
<1>6. /\ haunted' \in {haunted, haunted \union {victim}} /\ (a # Deleter => haunted' = haunted)
      /\ a = Deleter /\ victim \notin haunted' =>
           \A s \in Scans : work[s].pc \in Holding => victim \notin DOMAIN work[s].snap
  <2>1. CASE a = Deleter /\ \E s \in Scans : /\ work[s].pc \in Holding
                                            /\ victim \in DOMAIN work[s].snap
    BY <2>1 DEF SaveIndex
  <2>2. CASE ~(a = Deleter /\ \E s \in Scans : /\ work[s].pc \in Holding
                                              /\ victim \in DOMAIN work[s].snap)
    BY <2>2 DEF SaveIndex
  <2>. QED
    BY <2>1, <2>2
<1>. QED
  BY <1>4, <1>5, <1>6 DEF SaveIndex, At

LEMMA RefreshLoadsIs ==
  ASSUME TypesInv, NEW a \in Agents, RefreshLoads(a)
  PROVE  /\ up /\ work[a].pc = "refresh" /\ stale' = stale \ {a}
         /\ \/ /\ DOMAIN index = {} /\ a = Deleter /\ Becomes(a, "idle", <<>>, <<>>, {})
               /\ deleted' = deleted \union {victim}
            \/ /\ DOMAIN index = {} /\ a # Deleter /\ deleted' = deleted
               /\ Becomes(a, "row", work[a].own, work[a].snap, work[a].todo)
            \/ /\ DOMAIN index # {} /\ deleted' = deleted
               /\ Becomes(a, "rewrite", work[a].own, index, ToRefresh(a))
               /\ ToRefresh(a) # {} /\ ToRefresh(a) \subseteq DOMAIN index
         /\ UNCHANGED <<up, files, copies, clock, verdict, victim, lister, pdf, asked, haunted,
                        torn,
                        lost, counts>>
<1>1. work \in [Agents -> Work] /\ index \in Catalogues /\ DOMAIN index \subseteq Scans
  BY CatalogueHas DEF TypesInv, WorkOK, FilesOK
<1>2. DOMAIN index # {} => ToRefresh(a) # {} /\ ToRefresh(a) \subseteq DOMAIN index
  BY <1>1, LastIs DEF ToRefresh
<1>3. ASSUME DOMAIN index = {}
      PROVE  Leave(a)
  BY <1>3 DEF RefreshLoads, NothingToRefresh
<1>4. ASSUME DOMAIN index # {}
      PROVE  /\ deleted' = deleted
             /\ Becomes(a, "rewrite", work[a].own, index, ToRefresh(a))
  <2>1. ToRefresh(a) \in SUBSET Scans
    BY <1>1, <1>2, <1>4
  <2>2. /\ work' = [work EXCEPT ![a].pc = "rewrite", ![a].snap = index, ![a].todo = ToRefresh(a)]
        /\ deleted' = deleted
    BY <1>4 DEF RefreshLoads, NothingToRefresh
  <2>. QED
    BY <1>1, <2>1, <2>2 DEF Becomes, Work, Pcs
<1>. QED
  BY <1>1, <1>2, <1>3, <1>4, LeaveIs DEF RefreshLoads, At

LEMMA RefreshRewritesIs ==
  ASSUME TypesInv, NEW a \in Agents, RefreshRewrites(a)
  PROVE  /\ up /\ work[a].pc = "rewrite"
         /\ \E s \in work[a].todo, d \in Meta :
              /\ s \in HalfWritten(a) /\ s \in DOMAIN work[a].snap
              /\ d.stamp = work[a].snap[s].stamp /\ d.base \in {NoBase, Previous(work[a].snap, s)}
              /\ meta' = IF s \in DOMAIN meta THEN Put(meta, s, d) ELSE meta
              /\ lost' = (lost \/ work[s].pc \in {"load", "index"})
              /\ Becomes(a, IF work[a].todo = {s} THEN "reindex" ELSE "rewrite", work[a].own,
                         Put(work[a].snap, s, d), work[a].todo \ {s})
         /\ UNCHANGED <<up, dirs, xml, copies, clock, verdict, victim, lister, pdf, ghosts, stale,
                        counts>>
<1>. DEFINE s == NextEntry(a)
            d == Summarised(work[a].snap, s)
<1>1. work[a].pc = "rewrite" /\ up
  BY DEF RefreshRewrites, At
<1>2. /\ work \in [Agents -> Work] /\ work[a].snap \in Catalogues /\ work[a].todo \in SUBSET Scans
      /\ work[a].todo # {} /\ work[a].todo \subseteq HalfWritten(a)
  BY <1>1, WorkHas DEF TypesInv, WorkOK
<1>3. HalfWritten(a) \subseteq DOMAIN work[a].snap /\ HalfWritten(a) \subseteq Scans
  BY <1>1, HalfWrittenIs
<1>4. s \in work[a].todo /\ s \in HalfWritten(a) /\ s \in DOMAIN work[a].snap /\ s \in Scans
  BY <1>2, <1>3, FirstIs DEF NextEntry
<1>5. /\ d \in Meta /\ d.stamp = work[a].snap[s].stamp
      /\ d.base \in {NoBase, Previous(work[a].snap, s)}
  <2>. HIDE DEF s
  <2>. QED
    BY <1>2, <1>4, SummarisedIs
<1>6. /\ meta' = IF s \in DOMAIN meta THEN Put(meta, s, d) ELSE meta
      /\ lost' = (lost \/ work[s].pc \in {"load", "index"})
      /\ dirs' = dirs \union DOMAIN meta'
      /\ work' = [work EXCEPT ![a].snap = Put(@, s, d), ![a].todo = @ \ {s},
                              ![a].pc = IF work[a].todo = {s} THEN "reindex" ELSE "rewrite"]
      /\ UNCHANGED <<up, xml, copies, clock, verdict, victim, lister, pdf, ghosts, stale, counts>>
  BY DEF RefreshRewrites, Rewritable
<1>. HIDE DEF s, d
<1>7. PICK s1 \in work[a].todo, d1 \in Meta : s1 = s /\ d1 = d
  BY <1>4, <1>5
<1>8. DOMAIN meta \subseteq dirs
  BY DEF TypesInv, FilesOK
<1>9. dirs' = dirs
  <2>1. meta' = IF s1 \in DOMAIN meta THEN Put(meta, s1, d1) ELSE meta
    BY <1>6, <1>7
  <2>2. DOMAIN meta' \subseteq DOMAIN meta
    <3>1. CASE s1 \in DOMAIN meta
      <4>1. DOMAIN meta' = DOMAIN meta \union {s1}
        BY <2>1, <3>1, PutDomain
      <4>. QED
        BY <3>1, <4>1
    <3>2. CASE s1 \notin DOMAIN meta
      BY <2>1, <3>2
    <3>. QED
      BY <3>1, <3>2
  <2>3. dirs' = dirs \union DOMAIN meta'
    BY <1>6
  <2>. QED
    BY <1>8, <2>2, <2>3
<1>10. Becomes(a, IF work[a].todo = {s} THEN "reindex" ELSE "rewrite", work[a].own,
              Put(work[a].snap, s, d), work[a].todo \ {s})
  <2>1. Put(work[a].snap, s, d) \in Catalogues
    BY <1>2, <1>4, <1>5, PutKeeps
  <2>2. PICK g \in Catalogues : g = Put(work[a].snap, s, d)
    BY <2>1
  <2>3. PICK pc \in Pcs : pc = IF work[a].todo = {s} THEN "reindex" ELSE "rewrite"
    BY DEF Pcs
  <2>4. PICK todo \in SUBSET Scans : todo = work[a].todo \ {s}
    BY <1>2
  <2>5. work' = [work EXCEPT ![a].snap = g, ![a].todo = todo, ![a].pc = pc]
    BY <1>6, <2>2, <2>3, <2>4
  <2>6. Becomes(a, pc, work[a].own, g, todo)
    BY <1>2, <2>5 DEF Becomes, Work
  <2>. QED
    BY <2>2, <2>3, <2>4, <2>6
<1>. QED
  BY <1>1, <1>4, <1>5, <1>6, <1>7, <1>9, <1>10

LEMMA RefreshSavesIs ==
  ASSUME TypesInv, NEW a \in Agents, RefreshSaves(a)
  PROVE  /\ up /\ work[a].pc = "reindex" /\ index' = work[a].snap /\ index' \in Catalogues
         /\ Overtake(a)
         /\ \/ /\ a = Deleter /\ Becomes(a, "idle", <<>>, <<>>, {})
               /\ deleted' = deleted \union {victim}
            \/ /\ a # Deleter /\ deleted' = deleted
               /\ Becomes(a, "row", work[a].own, work[a].snap, work[a].todo)
         /\ UNCHANGED <<up, files, indexed, rows, clock, verdict, victim, lister, pdf, asked,
                        haunted,
                        torn, counts>>
<1>1. work \in [Agents -> Work] /\ work[a].snap \in Catalogues
  BY WorkHas DEF TypesInv, WorkOK
<1>. QED
  BY <1>1, LeaveIs DEF RefreshSaves, At

LEMMA DeleteBeginsIs ==
  ASSUME TypesInv, NEW s \in Scans, DeleteBegins(s)
  PROVE  /\ up /\ work[Deleter].pc = "idle" /\ s \in Listed /\ s \in dirs
         /\ OneMore /\ victim' = s /\ asked' = asked \union {s}
         /\ \E own \in Catalogues : /\ s \in DOMAIN meta => own # <<>>
                                  /\ Becomes(Deleter, "drop", own, <<>>, {})
         /\ UNCHANGED <<up, files, copies, clock, verdict, lister, pdf, deleted, haunted, torn,
                        stale,
                        lost, faulted>>
<1>. DEFINE o == IF s \in DOMAIN meta THEN Only(s, meta[s]) ELSE <<>>
<1>1. o \in Catalogues /\ (s \in DOMAIN meta => o # <<>>)
  <2>1. CASE s \in DOMAIN meta
    <3>1. meta[s] \in Meta
      BY <2>1, CatalogueHas DEF TypesInv, FilesOK
    <3>. QED
      BY <2>1, <3>1, OnlyKeeps, OnlyIs, EmptyCatalogue
  <2>2. CASE s \notin DOMAIN meta
    BY <2>2, EmptyCatalogue
  <2>. QED
    BY <2>1, <2>2
<1>2. work' = [work EXCEPT ![Deleter] = [Idle EXCEPT !.pc = "drop", !.own = o]]
  BY DEF DeleteBegins
<1>. HIDE DEF o
<1>3. PICK own \in Catalogues : own = o
  BY <1>1
<1>4. Becomes(Deleter, "drop", own, <<>>, {})
  <2>1. work \in [Agents -> Work] /\ Deleter \in Agents /\ "drop" \in Pcs
    BY AgentsAre DEF TypesInv, WorkOK, Pcs
  <2>. QED
    BY <1>2, <1>3, <2>1, StartIs
<1>5. /\ up /\ work[Deleter].pc = "idle" /\ s \in Listed /\ s \in dirs
      /\ OneMore /\ victim' = s /\ asked' = asked \union {s}
      /\ UNCHANGED <<up, files, copies, clock, verdict, lister, pdf, deleted, haunted, torn,
                     stale,
                     lost, faulted>>
  BY DEF DeleteBegins, At
<1>. QED
  BY <1>1, <1>3, <1>4, <1>5

LEMMA RaisesIs ==
  ASSUME TypesInv, NEW a \in Agents, Raises(a)
  PROVE  /\ up /\ OneFault
         /\ work[a].pc \notin {"idle", "scan", "done", "dead"}
         /\ torn' = torn \union HalfWritten(a)
         /\ verdict' \in [Scans -> Over]
         /\ \/ a = Deleter /\ Becomes(a, "idle", <<>>, <<>>, {})
            \/ a \in Scans /\ Becomes(a, "meta", <<>>, <<>>, {})
            \/ a \in Scans /\ Becomes(a, "dead", <<>>, <<>>, {})
         /\ stale' = stale \ {a}
         /\ UNCHANGED <<up, files, copies, clock, victim, lister, pdf, asked, deleted, haunted,
                        lost>>
<1>1. work \in [Agents -> Work] /\ verdict \in [Scans -> Over] /\ "failed" \in Over
  BY DEF TypesInv, WorkOK, Over
<1>2. {"idle", "meta", "dead"} \subseteq Pcs
  BY DEF Pcs
<1>3. a # Deleter => a \in Scans
  BY DEF Agents, Scans, Deleter
<1>4. ASSUME a = Deleter
      PROVE  verdict' = verdict /\ Becomes(a, "idle", <<>>, <<>>, {})
  BY <1>1, <1>4, IdleIs DEF Raises, Becomes
<1>5. ASSUME a # Deleter, verdict[a] = "completed"
      PROVE  verdict' \in [Scans -> Over] /\ Becomes(a, "meta", <<>>, <<>>, {})
  <2>1. /\ verdict' = [verdict EXCEPT ![a] = "failed"]
        /\ work' = [work EXCEPT ![a] = [Idle EXCEPT !.pc = "meta"]]
    BY <1>5 DEF Raises
  <2>2. verdict' \in [Scans -> Over]
    BY <1>1, <2>1
  <2>3. Becomes(a, "meta", <<>>, <<>>, {})
    BY <1>1, <1>2, <2>1, RestartIs
  <2>. QED
    BY <2>2, <2>3
<1>6. ASSUME a # Deleter, verdict[a] # "completed"
      PROVE  verdict' = verdict /\ Becomes(a, "dead", <<>>, <<>>, {})
  <2>1. /\ verdict' = verdict
        /\ work' = [work EXCEPT ![a] = [Idle EXCEPT !.pc = "dead"]]
    BY <1>6 DEF Raises
  <2>. QED
    BY <1>1, <1>2, <2>1, RestartIs
<1>7. /\ up /\ OneFault
      /\ work[a].pc \notin {"idle", "scan", "done", "dead"}
      /\ torn' = torn \union HalfWritten(a)
      /\ stale' = stale \ {a}
      /\ UNCHANGED <<up, files, copies, clock, victim, lister, pdf, asked, deleted, haunted,
                     lost>>
  BY DEF Raises
<1>. QED
  BY <1>1, <1>3, <1>4, <1>5, <1>6, <1>7

LEMMA DiesIs ==
  ASSUME TypesInv, Dies
  PROVE  /\ up /\ OneFault /\ up' = FALSE /\ stale' = {}
         /\ torn' = torn \union UNION {HalfWritten(a) : a \in Agents}
         /\ work' \in [Agents -> Work] /\ work'[Deleter] = Idle
         /\ \A s \in Scans :
              \/ work'[s] = work[s] /\ work[s].pc \in {"idle", "done", "dead"}
              \/ /\ work[s].pc \notin {"idle", "done", "dead"}
                 /\ work'[s].pc = "dead" /\ work'[s].own = <<>> /\ work'[s].snap = <<>>
                 /\ work'[s].todo = {}
         /\ lister' = NotListing /\ pdf' = NoPdf
         /\ UNCHANGED <<files, copies, clock, verdict, victim, asked, deleted, haunted, lost>>
<1>. DEFINE dead == [Idle EXCEPT !.pc = "dead"]
<1>1. work \in [Agents -> Work]
  BY DEF TypesInv, WorkOK
<1>2. dead \in Work
  BY EmptyCatalogue DEF Idle, Work, Pcs
<1>3. dead.pc = "dead" /\ dead.own = <<>> /\ dead.snap = <<>> /\ dead.todo = {}
  BY DEF Idle
<1>4. work' = [a \in Agents |-> IF a # Deleter /\ Unfinished(a) THEN dead
                                ELSE IF a = Deleter THEN Idle ELSE work[a]]
  BY DEF Dies
<1>. HIDE DEF dead
<1>5. work' \in [Agents -> Work] /\ work'[Deleter] = Idle
  BY <1>1, <1>2, <1>4, IdleIs, AgentsAre
<1>6. ASSUME NEW s \in Scans
      PROVE  work'[s] = IF work[s].pc \notin {"idle", "done", "dead"} THEN dead ELSE work[s]
  BY <1>4, AgentsAre DEF Unfinished, Working
<1>7. /\ up /\ OneFault /\ up' = FALSE /\ stale' = {}
      /\ torn' = torn \union UNION {HalfWritten(a) : a \in Agents}
      /\ lister' = NotListing /\ pdf' = NoPdf
      /\ UNCHANGED <<files, copies, clock, verdict, victim, asked, deleted, haunted, lost>>
  BY DEF Dies
<1>. QED
  BY <1>3, <1>5, <1>6, <1>7

LEMMA StartsIs ==
  ASSUME TypesInv, Starts
  PROVE  /\ ~up /\ up' = TRUE /\ indexed' = TRUE
         /\ index' = (IF indexed THEN index ELSE meta) /\ index' \in Catalogues
         /\ rows' \in Catalogues /\ DOMAIN rows' = DOMAIN rows \union DOMAIN index'
         /\ UNCHANGED <<files, clock, work, verdict, victim, lister, pdf, ghosts, stale, lost,
                        counts>>
<1>1. index' = (IF indexed THEN index ELSE meta)
  BY DEF Starts
<1>2. index' \in Catalogues /\ rows \in Catalogues
  BY <1>1 DEF TypesInv, FilesOK
<1>3. PICK g \in Catalogues : g = index'
  BY <1>2
<1>4. rows' = [s \in DOMAIN rows \union DOMAIN g |-> IF s \in DOMAIN rows THEN rows[s] ELSE g[s]]
  BY <1>3 DEF Starts
<1>5. rows' \in [DOMAIN rows \union DOMAIN g -> Meta] /\ DOMAIN rows \union DOMAIN g \in SUBSET Scans
  BY <1>2, <1>4, CatalogueHas
<1>6. rows' \in Catalogues /\ DOMAIN rows' = DOMAIN rows \union DOMAIN g
  BY <1>5, InCatalogues
<1>. QED
  BY <1>1, <1>2, <1>3, <1>6 DEF Starts

-----------------------------------------------------------------------------
(* What each step does to the readers.                                      *)

LEMMA ReadersHave ==
  ASSUME TypesInv
  PROVE  /\ lister.todo \in SUBSET Scans /\ lister.snap \in Catalogues
         /\ lister.pc \in {"idle", "index", "check", "insert"}
         /\ pdf.own \in Catalogues /\ pdf.pc \in {"idle", "render", "row"}
         /\ pdf.scan \in Scans \union {NoBase}
BY DEF TypesInv, ReadersOK, Lister, Pdf

LEMMA RestingIs ==
  /\ NotListing \in Lister /\ NotListing.pc = "idle" /\ NotListing.todo = {} /\ NotListing.snap = <<>>
  /\ NoPdf \in Pdf /\ NoPdf.pc = "idle" /\ NoPdf.scan = NoBase /\ NoPdf.own = <<>>
BY EmptyCatalogue DEF NotListing, Lister, NoPdf, Pdf

LEMMA NextListedIs ==
  ASSUME TypesInv, lister.pc \in {"check", "insert"}
  PROVE  /\ NextListed \in lister.todo /\ NextListed \in DOMAIN lister.snap /\ NextListed \in Scans
         /\ lister.snap[NextListed] \in Meta
<1>1. lister.todo # {} /\ lister.todo \in SUBSET (DOMAIN lister.snap)
  BY DEF TypesInv, ReadersOK
<1>2. lister.snap \in Catalogues
  BY ReadersHave
<1>. QED
  BY <1>1, <1>2, FirstIs, CatalogueHas DEF NextListed

LEMMA WithoutNextIs ==
  ASSUME TypesInv, lister.pc \in {"check", "insert"}
  PROVE  /\ WithoutNext \in Lister
         /\ WithoutNext.pc \in {"check", "insert"} => WithoutNext.todo # {}
         /\ WithoutNext.todo = lister.todo \ {NextListed}
         /\ WithoutNext.todo \subseteq DOMAIN WithoutNext.snap
<1>. DEFINE next == NextListed
<1>1. lister \in Lister /\ lister.todo \subseteq DOMAIN lister.snap
  BY DEF TypesInv, ReadersOK
<1>2. WithoutNext = IF lister.todo = {next} THEN NotListing
                    ELSE [lister EXCEPT !.pc = "check", !.todo = @ \ {next}]
  BY DEF WithoutNext
<1>3. next \in lister.todo
  BY NextListedIs
<1>. HIDE DEF next
<1>4. CASE lister.todo = {next}
  BY <1>2, <1>4, RestingIs DEF next
<1>5. CASE lister.todo # {next}
  <2>1. WithoutNext = [lister EXCEPT !.pc = "check", !.todo = @ \ {next}]
    BY <1>2, <1>5
  <2>2. /\ WithoutNext \in Lister /\ WithoutNext.pc = "check" /\ WithoutNext.snap = lister.snap
        /\ WithoutNext.todo = lister.todo \ {next}
    BY <1>1, <2>1 DEF Lister
  <2>. QED
    BY <1>1, <1>3, <1>5, <2>2 DEF next
<1>. QED
  BY <1>4, <1>5

LEMMA ListChecksIs ==
  ASSUME TypesInv, ListChecks
  PROVE  /\ up /\ lister.pc = "check"
         /\ lister' \in Lister
         /\ lister'.pc \in {"check", "insert"} => lister'.todo # {}
         /\ lister'.todo \subseteq lister.todo
         /\ lister'.todo \subseteq DOMAIN lister'.snap
         /\ UNCHANGED <<up, files, copies, clock, work, verdict, victim, pdf, ghosts, stale,
                        lost, counts>>
<1>1. lister.pc = "check" /\ up
  BY DEF ListChecks
<1>2. lister \in Lister /\ lister.todo # {} /\ lister.todo \subseteq DOMAIN lister.snap
  BY <1>1 DEF TypesInv, ReadersOK
<1>3. CASE lister' = WithoutNext
  BY <1>1, <1>3, WithoutNextIs DEF ListChecks
<1>4. CASE lister' = [lister EXCEPT !.pc = "insert"]
  <2>1. lister' \in Lister /\ lister'.todo = lister.todo /\ lister'.snap = lister.snap
    BY <1>2, <1>4 DEF Lister
  <2>. QED
    BY <1>1, <1>2, <2>1 DEF ListChecks
<1>. QED
  BY <1>3, <1>4 DEF ListChecks

LEMMA ListIndexIs ==
  ASSUME TypesInv, ListIndex
  PROVE  /\ up /\ lister.pc = "index"
         /\ lister' \in Lister
         /\ lister'.pc \in {"check", "insert"} => lister'.todo # {}
         /\ lister'.todo = DOMAIN index \ DOMAIN lister.snap
         /\ lister'.todo \subseteq DOMAIN lister'.snap
         /\ TakenUp(lister'.todo)
         /\ UNCHANGED <<up, files, copies, clock, work, verdict, victim, pdf, asked, deleted,
                        torn, stale,
                        lost, counts>>
<1>. DEFINE missing == DOMAIN index \ DOMAIN lister.snap
<1>1. index \in Catalogues /\ missing \in SUBSET (DOMAIN index)
  BY DEF TypesInv, FilesOK
<1>2. /\ up /\ lister.pc = "index" /\ TakenUp(missing)
      /\ lister' = IF missing = {} THEN NotListing
                   ELSE [pc |-> "check", todo |-> missing, snap |-> Restrict(index, missing)]
      /\ UNCHANGED <<up, files, copies, clock, work, verdict, victim, pdf, asked, deleted, torn,
                     stale,
                     lost, counts>>
  BY DEF ListIndex
<1>3. /\ Restrict(index, missing) \in Catalogues /\ DOMAIN Restrict(index, missing) = missing
      /\ missing \in SUBSET Scans
  <2>. HIDE DEF missing
  <2>. QED
    BY <1>1, RestrictKeeps, CatalogueHas
<1>. HIDE DEF missing
<1>4. /\ lister' \in Lister /\ lister'.todo = missing
      /\ lister'.pc \in {"check", "insert"} => missing # {}
      /\ missing \subseteq DOMAIN lister'.snap
  <2>1. CASE missing = {}
    BY <1>2, <2>1, RestingIs
  <2>2. CASE missing # {}
    BY <1>2, <1>3, <2>2 DEF Lister
  <2>. QED
    BY <2>1, <2>2
<1>. QED
  BY <1>2, <1>4 DEF missing

LEMMA PdfPicksIs ==
  ASSUME TypesInv, PdfPicks
  PROVE  /\ up /\ OneMore
         /\ pdf' \in Pdf /\ pdf'.pc = "render" /\ pdf'.scan \in DOMAIN meta /\ pdf'.scan \in Scans
         /\ pdf'.scan \in Listed /\ DOMAIN pdf'.own = {pdf'.scan}
         /\ TakenUp({pdf'.scan})
         /\ UNCHANGED <<up, files, copies, clock, work, verdict, victim, lister, asked, deleted,
                        torn,
                        stale, lost, faulted>>
<1>1. PICK s \in Listed \intersect xml :
        /\ s \in DOMAIN meta
        /\ TakenUp({s})
        /\ pdf' = [pc |-> "render", scan |-> s, own |-> Only(s, meta[s])]
  BY DEF PdfPicks
<1>2. s \in Scans /\ meta[s] \in Meta
  BY <1>1, CatalogueHas DEF TypesInv, FilesOK
<1>3. Only(s, meta[s]) \in Catalogues /\ DOMAIN Only(s, meta[s]) = {s}
  BY <1>2, OnlyKeeps, OnlyIs
<1>4. /\ pdf' \in Pdf /\ pdf'.pc = "render" /\ pdf'.scan = s /\ pdf'.own = Only(s, meta[s])
  BY <1>1, <1>2, <1>3 DEF Pdf
<1>. QED
  BY <1>1, <1>2, <1>3, <1>4 DEF PdfPicks

LEMMA PdfRendersIs ==
  ASSUME TypesInv, PdfRenders
  PROVE  /\ up /\ pdf.pc = "render"
         /\ \/ pdf' = NoPdf
            \/ pdf' \in Pdf /\ pdf'.pc = "row" /\ pdf'.scan = pdf.scan /\ pdf'.own = pdf.own
         /\ UNCHANGED <<up, files, copies, clock, work, verdict, victim, lister, ghosts, stale,
                        lost, counts>>
<1>1. pdf \in Pdf
  BY DEF TypesInv, ReadersOK
<1>2. CASE pdf' = NoPdf
  BY <1>2 DEF PdfRenders
<1>3. CASE pdf' = [pdf EXCEPT !.pc = "row"]
  <2>1. pdf' \in Pdf /\ pdf'.pc = "row" /\ pdf'.scan = pdf.scan /\ pdf'.own = pdf.own
    BY <1>1, <1>3 DEF Pdf
  <2>. QED
    BY <2>1 DEF PdfRenders
<1>. QED
  BY <1>2, <1>3 DEF PdfRenders

LEMMA PdfPersistsIs ==
  ASSUME TypesInv, PdfPersists
  PROVE  /\ up /\ pdf.pc = "row" /\ pdf.scan \in Scans /\ pdf' = NoPdf
         /\ rows' \in Catalogues /\ DOMAIN rows' = DOMAIN rows \union {pdf.scan}
         /\ UNCHANGED <<up, files, indexed, index, clock, work, verdict, victim, lister, ghosts,
                        stale,
                        lost, counts>>
<1>. DEFINE d == IF pdf.scan \in DOMAIN meta THEN meta[pdf.scan] ELSE pdf.own[pdf.scan]
<1>1. /\ pdf.pc = "row" /\ pdf' = NoPdf /\ rows' = Put(rows, pdf.scan, d) /\ up
      /\ UNCHANGED <<up, files, indexed, index, clock, work, verdict, victim, lister, ghosts,
                     stale,
                     lost, counts>>
  BY DEF PdfPersists
<1>2. pdf.scan \in Scans /\ DOMAIN pdf.own = {pdf.scan} /\ pdf.own \in Catalogues
  BY <1>1, ReadersHave DEF TypesInv, ReadersOK
<1>3. d \in Meta
  BY <1>2, CatalogueHas DEF TypesInv, FilesOK
<1>4. rows \in Catalogues
  BY DEF TypesInv, FilesOK
<1>. HIDE DEF d
<1>5. rows' \in Catalogues /\ DOMAIN rows' = DOMAIN rows \union {pdf.scan}
  BY <1>1, <1>2, <1>3, <1>4, PutKeeps, PutDomain
<1>. QED
  BY <1>1, <1>2, <1>5

LEMMA ListInsertsIs ==
  ASSUME TypesInv, ListInserts
  PROVE  /\ up /\ lister.pc = "insert"
         /\ NextListed \in lister.todo /\ NextListed \in Scans
         /\ rows' \in Catalogues /\ DOMAIN rows' = DOMAIN rows \union {NextListed}
         /\ lister' = WithoutNext
         /\ UNCHANGED <<up, files, indexed, index, clock, work, verdict, victim, pdf, ghosts,
                        stale,
                        lost, counts>>
<1>1. lister.pc = "insert"
  BY DEF ListInserts
<1>2. rows \in Catalogues
  BY DEF TypesInv, FilesOK
<1>. QED
  BY <1>1, <1>2, NextListedIs, PutKeeps, PutDomain DEF ListInserts

LEMMA BeginReportIs ==
  ASSUME TypesInv, NEW s \in Scans, BeginReport(s)
  PROVE  /\ up /\ work[s].pc = "idle" /\ dirs' = dirs \union {s}
         /\ Becomes(s, "scan", work[s].own, work[s].snap, work[s].todo)
         /\ UNCHANGED <<up, xml, meta, copies, clock, verdict, victim, lister, pdf, ghosts, stale,
                        lost, counts>>
<1>1. work \in [Agents -> Work] /\ s \in Agents /\ "scan" \in Pcs
  BY AgentsAre DEF TypesInv, WorkOK, Pcs
<1>. QED
  BY <1>1, GotoIs DEF BeginReport, At

LEMMA ScanEndsIs ==
  ASSUME TypesInv, NEW s \in Scans, NEW v \in Over, ScanEnds(s, v)
  PROVE  /\ up /\ work[s].pc = "scan"
         /\ xml \subseteq xml' /\ xml' \subseteq dirs
         /\ verdict' \in [Scans -> Over]
         /\ Becomes(s, "meta", work[s].own, work[s].snap, work[s].todo)
         /\ UNCHANGED <<up, dirs, meta, copies, clock, victim, lister, pdf, ghosts, stale, lost,
                        counts>>
<1>1. work \in [Agents -> Work] /\ s \in Agents /\ "meta" \in Pcs /\ verdict \in [Scans -> Over]
  BY AgentsAre DEF TypesInv, WorkOK, Pcs
<1>2. Becomes(s, "meta", work[s].own, work[s].snap, work[s].todo)
  BY <1>1, GotoIs DEF ScanEnds
<1>3. verdict' \in [Scans -> Over]
  BY <1>1 DEF ScanEnds
<1>4. xml \subseteq xml' /\ xml' \subseteq dirs
  BY DEF ScanEnds, TypesInv, FilesOK
<1>. QED
  BY <1>2, <1>3, <1>4 DEF ScanEnds, At

LEMMA DeleteRowIs ==
  ASSUME TypesInv, DeleteRow
  PROVE  /\ up /\ work[Deleter].pc = "drop" /\ victim \in Scans
         /\ rows' = Without(rows, victim)
         /\ rows' \in Catalogues /\ DOMAIN rows' = DOMAIN rows \ {victim}
         /\ haunted' \in {haunted, haunted \union {victim}}
         /\ victim \notin haunted' => /\ work[victim].pc \in {"idle", "done", "dead"}
                                     /\ victim \notin lister.todo /\ pdf.scan # victim
         /\ Becomes(Deleter, "tree", work[Deleter].own, work[Deleter].snap, work[Deleter].todo)
         /\ UNCHANGED <<up, files, indexed, index, clock, verdict, victim, lister, pdf, asked,
                        deleted,
                        torn, stale, lost, counts>>
<1>1. /\ work \in [Agents -> Work] /\ Deleter \in Agents /\ "tree" \in Pcs
      /\ rows \in Catalogues /\ victim \in Scans
  BY AgentsAre DEF TypesInv, WorkOK, Pcs, FilesOK, GhostsOK
<1>2. Becomes(Deleter, "tree", work[Deleter].own, work[Deleter].snap, work[Deleter].todo)
  BY <1>1, GotoIs DEF DeleteRow
<1>3. rows' \in Catalogues /\ DOMAIN rows' = DOMAIN rows \ {victim}
  BY <1>1, WithoutKeeps, WithoutDomain DEF DeleteRow
<1>4. /\ haunted' \in {haunted, haunted \union {victim}}
      /\ victim \notin haunted' => /\ work[victim].pc \in {"idle", "done", "dead"}
                                  /\ victim \notin lister.todo /\ pdf.scan # victim
  BY <1>1 DEF DeleteRow, Unfinished, Working
<1>. QED
  BY <1>1, <1>2, <1>3, <1>4 DEF DeleteRow, At

LEMMA DeleteTreeIs ==
  ASSUME TypesInv, DeleteTree
  PROVE  /\ up /\ work[Deleter].pc = "tree" /\ victim \in Scans
         /\ dirs' = dirs \ {victim} /\ xml' = xml \ {victim}
         /\ meta' = Without(meta, victim)
         /\ meta' \in Catalogues /\ DOMAIN meta' = DOMAIN meta \ {victim}
         /\ Becomes(Deleter, "load", work[Deleter].own, work[Deleter].snap, work[Deleter].todo)
         /\ UNCHANGED <<up, copies, clock, verdict, victim, lister, pdf, ghosts, stale, lost,
                        counts>>
<1>1. /\ work \in [Agents -> Work] /\ Deleter \in Agents /\ "load" \in Pcs
      /\ meta \in Catalogues /\ victim \in Scans
  BY AgentsAre DEF TypesInv, WorkOK, Pcs, FilesOK, GhostsOK
<1>2. Becomes(Deleter, "load", work[Deleter].own, work[Deleter].snap, work[Deleter].todo)
  BY <1>1, GotoIs DEF DeleteTree
<1>3. meta' \in Catalogues /\ DOMAIN meta' = DOMAIN meta \ {victim}
  BY <1>1, WithoutKeeps, WithoutDomain DEF DeleteTree
<1>. QED
  BY <1>1, <1>2, <1>3 DEF DeleteTree, At

LEMMA TakenUpIs ==
  ASSUME NEW S, TakenUp(S)
  PROVE  /\ haunted' \in {haunted, haunted \union {victim}}
         /\ victim \notin haunted' /\ work[Deleter].pc \in {"tree", "load", "index"} => victim \notin S
         /\ work[Deleter].pc \notin {"tree", "load", "index"} => haunted' = haunted
BY DEF TakenUp

LEMMA OvertakeIs ==
  ASSUME TypesInv, NEW a \in Agents, Overtake(a)
  PROVE  /\ lost' \in BOOLEAN /\ (lost => lost') /\ (a \in stale => lost')
         /\ stale' \subseteq Agents /\ a \notin stale'
         /\ \A b \in Agents \ {a} : work[b].pc \in Holding => b \in stale'
         /\ \A b \in Agents \ {a} : b \in stale => b \in stale'
BY DEF Overtake, TypesInv, FlagsOK, GhostsOK

-----------------------------------------------------------------------------
(* Types are kept.                                                          *)

LEMMA WorkKept ==
  ASSUME TypesInv, up' = up, up,
         NEW a \in Agents, NEW pc, NEW own, NEW snap, NEW todo,
         Becomes(a, pc, own, snap, todo), verdict' \in [Scans -> Over],
         a \in Scans => pc \notin {"drop", "tree"},
         a \in Scans /\ pc \in Running \union {"row"} => DOMAIN own = {a},
         a = Deleter => pc \in {"idle", "drop", "tree"} \union Running,
         pc = "rewrite" => todo # {},
         pc = "reindex" => todo = {},
         pc \in {"rewrite", "reindex"} =>
           /\ DOMAIN snap # {}
           /\ todo \subseteq (IF a = Deleter THEN DOMAIN snap ELSE {Last(snap, DOMAIN snap)})
  PROVE  WorkOK'
<1>1. /\ work' \in [Agents -> Work]
      /\ work'[a].pc = pc /\ work'[a].own = own /\ work'[a].snap = snap /\ work'[a].todo = todo
      /\ \A b \in Agents \ {a} : work'[b] = work[b]
  BY DEF Becomes
<1>2. ASSUME NEW s \in Scans
      PROVE  (/\ work[s].pc \notin {"drop", "tree"}
              /\ work[s].pc \in Running \union {"row"} => DOMAIN work[s].own = {s})'
  <2>1. CASE s = a
    BY <1>1, <2>1 DEF Running
  <2>2. CASE s # a
    BY <1>1, <2>2, AgentsAre DEF Running, TypesInv, WorkOK
  <2>. QED
    BY <2>1, <2>2
<1>3. work'[Deleter].pc \in {"idle", "drop", "tree"} \union Running
  BY <1>1, AgentsAre DEF TypesInv, WorkOK
<1>4. ASSUME NEW b \in Agents
      PROVE  (/\ work[b].pc = "rewrite" => work[b].todo # {}
              /\ work[b].pc = "reindex" => work[b].todo = {}
              /\ work[b].pc \in {"rewrite", "reindex"} =>
                   DOMAIN work[b].snap # {} /\ work[b].todo \subseteq HalfWritten(b))'
  <2>1. CASE b = a
    <3>1. pc \in {"rewrite", "reindex"} =>
            HalfWritten(a)' = IF a = Deleter THEN DOMAIN snap ELSE {Last(snap, DOMAIN snap)}
      BY <1>1 DEF HalfWritten
    <3>. QED
      BY <1>1, <2>1, <3>1
  <2>2. CASE b # a
    <3>1. work'[b] = work[b]
      BY <1>1, <2>2
    <3>2. work[b].pc \in {"rewrite", "reindex"} => HalfWritten(b)' = HalfWritten(b)
      BY <3>1 DEF HalfWritten
    <3>. QED
      BY <3>1, <3>2 DEF TypesInv, WorkOK
  <2>. QED
    BY <2>1, <2>2
<1>. QED
  BY <1>1, <1>2, <1>3, <1>4 DEF WorkOK

LEMMA ClockKept ==
  ASSUME TypesInv, clock' = clock, Unwritten' \subseteq Unwritten, faulted => faulted'
  PROVE  ClockOK'
<1>1. IsFiniteSet(Unwritten)
  BY UnwrittenIs
<1>2. Cardinality(Unwritten') <= Cardinality(Unwritten) /\ Cardinality(Unwritten') \in Nat
  BY <1>1, FS_Subset, FS_CardinalityType
<1>. QED
  BY <1>2, UnwrittenIs, ArchiveAssumption DEF TypesInv, ClockOK

LEMMA ClockAdvances ==
  ASSUME TypesInv, clock' \in {clock, clock + 1}, NEW s \in Unwritten, Unwritten' \subseteq Unwritten \ {s},
         faulted' = faulted
  PROVE  ClockOK'
<1>1. IsFiniteSet(Unwritten) /\ Cardinality(Unwritten) \in Nat
  BY UnwrittenIs
<1>2. /\ IsFiniteSet(Unwritten \ {s})
      /\ Cardinality(Unwritten \ {s}) = Cardinality(Unwritten) - 1
  BY <1>1, FS_RemoveElement
<1>3. Cardinality(Unwritten') <= Cardinality(Unwritten \ {s}) /\ Cardinality(Unwritten') \in Nat
  BY <1>2, FS_Subset, FS_CardinalityType
<1>. QED
  BY <1>1, <1>2, <1>3, ArchiveAssumption DEF TypesInv, ClockOK

LEMMA ClockFaults ==
  ASSUME TypesInv, clock' = clock, NEW s, Unwritten' \subseteq Unwritten \union {s}, ~faulted, faulted'
  PROVE  ClockOK'
<1>1. IsFiniteSet(Unwritten) /\ Cardinality(Unwritten) \in Nat
  BY UnwrittenIs
<1>2. \E W : /\ Unwritten' \subseteq W /\ IsFiniteSet(W)
            /\ Cardinality(W) \in {Cardinality(Unwritten), Cardinality(Unwritten) + 1}
  <2>1. CASE s \in Unwritten
    BY <1>1, <2>1
  <2>2. CASE s \notin Unwritten
    BY <1>1, <2>2, FS_AddElement
  <2>. QED
    BY <2>1, <2>2
<1>3. PICK W : /\ Unwritten' \subseteq W /\ IsFiniteSet(W)
               /\ Cardinality(W) \in {Cardinality(Unwritten), Cardinality(Unwritten) + 1}
  BY <1>2
<1>4. Cardinality(Unwritten') <= Cardinality(W) /\ Cardinality(Unwritten') \in Nat
  BY <1>3, FS_Subset, FS_CardinalityType
<1>. QED
  BY <1>1, <1>3, <1>4, ArchiveAssumption DEF TypesInv, ClockOK

LEMMA OneFaultIs ==
  ASSUME TypesInv, OneFault
  PROVE  ~faulted /\ faulted' = TRUE /\ events' \in 0..MaxEvents
BY ArchiveAssumption DEF TypesInv, FlagsOK, OneFault, OneMore

LEMMA ListRowsIs ==
  ASSUME TypesInv, ListRows
  PROVE  /\ up /\ OneMore /\ lister.pc = "idle"
         /\ lister' \in Lister /\ lister'.todo = {} /\ lister'.pc = "index"
         /\ UNCHANGED <<up, files, copies, clock, work, verdict, victim, pdf, ghosts, stale, lost,
                        faulted>>
<1>1. rows \in Catalogues
  BY DEF TypesInv, FilesOK
<1>. QED
  BY <1>1 DEF ListRows, Lister

LEMMA WorkSame ==
  ASSUME TypesInv, work' = work, victim' = victim, verdict' = verdict, up' = up \/ up'
  PROVE  WorkOK'
<1>1. \A a \in Agents : HalfWritten(a)' = HalfWritten(a)
  BY DEF HalfWritten
<1>. QED
  BY <1>1 DEF TypesInv, FlagsOK, WorkOK

LEMMA ReadersSame ==
  ASSUME TypesInv, lister' = lister, pdf' = pdf, up' = up \/ up'
  PROVE  ReadersOK'
BY DEF TypesInv, FlagsOK, ReadersOK

LEMMA BeginReportTypes ==
  ASSUME TypesInv, NEW s \in Scans, BeginReport(s)
  PROVE  TypesInv'
<1>1. FlagsOK'
  BY BeginReportIs, ArchiveAssumption DEF TypesInv, FlagsOK, OneMore, OneFault, files, copies,
     ghosts, counts
<1>2. FilesOK'
  BY BeginReportIs, AgentsAre DEF TypesInv, FilesOK, Becomes, files, copies, ghosts, counts
<1>3. ClockOK'
  BY BeginReportIs, ClockKept, AgentsAre DEF Becomes, Unwritten, OneFault, files, copies, ghosts,
     counts
<1>4. WorkOK'
  BY BeginReportIs, WorkKept, AgentsAre DEF TypesInv, WorkOK, Running, files, copies, ghosts,
     counts
<1>5. ReadersOK'
  BY BeginReportIs, ReadersSame DEF files, copies, ghosts, counts
<1>6. GhostsOK'
  BY BeginReportIs, AgentsAre DEF TypesInv, GhostsOK, OneMore, OneFault, Becomes, files, copies,
     ghosts, counts
<1>. QED
  BY <1>1, <1>2, <1>3, <1>4, <1>5, <1>6 DEF TypesInv

LEMMA ScanEndsTypes ==
  ASSUME TypesInv, NEW s \in Scans, NEW v \in Over, ScanEnds(s, v)
  PROVE  TypesInv'
<1>1. FlagsOK'
  BY ScanEndsIs, ArchiveAssumption DEF TypesInv, FlagsOK, OneMore, OneFault, files, copies,
     ghosts, counts
<1>2. FilesOK'
  BY ScanEndsIs, AgentsAre DEF TypesInv, FilesOK, Becomes, files, copies, ghosts, counts
<1>3. ClockOK'
  BY ScanEndsIs, ClockKept, AgentsAre DEF Becomes, Unwritten, OneFault, files, copies, ghosts,
     counts
<1>4. WorkOK'
  BY ScanEndsIs, WorkKept, AgentsAre DEF TypesInv, WorkOK, Running, files, copies, ghosts, counts
<1>5. ReadersOK'
  BY ScanEndsIs, ReadersSame DEF files, copies, ghosts, counts
<1>6. GhostsOK'
  BY ScanEndsIs, AgentsAre DEF TypesInv, GhostsOK, OneMore, OneFault, Becomes, files, copies,
     ghosts, counts
<1>. QED
  BY <1>1, <1>2, <1>3, <1>4, <1>5, <1>6 DEF TypesInv

LEMMA WriteMetaTypes ==
  ASSUME TypesInv, NEW s \in Scans, WriteMeta(s)
  PROVE  TypesInv'
<1>1. FlagsOK'
  BY WriteMetaIs, ArchiveAssumption DEF TypesInv, FlagsOK, OneMore, OneFault, files, copies,
     ghosts, counts
<1>2. FilesOK'
  <2>1. meta \in Catalogues /\ DOMAIN meta \subseteq dirs
    BY DEF TypesInv, FilesOK
  <2>2. PICK d \in Meta : meta' = Put(meta, s, d)
    BY WriteMetaIs
  <2>3. meta' \in Catalogues /\ DOMAIN meta' = DOMAIN meta \union {s}
    BY <2>1, <2>2, PutKeeps, PutDomain
  <2>. QED
    BY <2>1, <2>3, WriteMetaIs, AgentsAre DEF TypesInv, FilesOK, Becomes, files, copies, ghosts,
       counts
<1>3. ClockOK'
  <2>1. s \in Unwritten
    BY WriteMetaIs DEF Unwritten
  <2>2. Unwritten' \subseteq Unwritten \ {s}
    BY WriteMetaIs, AgentsAre DEF Unwritten, Becomes
  <2>. QED
    BY <2>1, <2>2, ClockAdvances, WriteMetaIs DEF counts
<1>4. WorkOK'
  <2>1. PICK own : own = Only(s, meta'[s])
    OBVIOUS
  <2>2. DOMAIN own = {s}
    BY <2>1, OnlyIs
  <2>3. Becomes(s, "load", own, <<>>, {})
    BY <2>1, WriteMetaIs
  <2>. QED
    BY <2>2, <2>3, WriteMetaIs, WorkKept, AgentsAre DEF TypesInv, WorkOK, Running, files, copies,
       ghosts, counts
<1>5. ReadersOK'
  BY WriteMetaIs, ReadersSame DEF files, copies, ghosts, counts
<1>6. GhostsOK'
  BY WriteMetaIs, AgentsAre DEF TypesInv, GhostsOK, OneMore, OneFault, Becomes, files, copies,
     ghosts, counts
<1>. QED
  BY <1>1, <1>2, <1>3, <1>4, <1>5, <1>6 DEF TypesInv

LEMMA PersistRowTypes ==
  ASSUME TypesInv, NEW s \in Scans, PersistRow(s)
  PROVE  TypesInv'
<1>1. FlagsOK'
  <2>1. /\ work'[s].pc \in {"done", "meta"} /\ \A b \in Agents \ {s} : work'[b] = work[b]
        /\ faulted' \in BOOLEAN /\ (faulted => faulted') /\ events' \in 0..MaxEvents
    <3>1. CASE Becomes(s, "done", <<>>, <<>>, {}) /\ UNCHANGED counts
      BY <3>1 DEF Becomes, counts, TypesInv, FlagsOK
    <3>2. CASE Becomes(s, "meta", <<>>, <<>>, {}) /\ OneFault
      BY <3>2, ArchiveAssumption DEF Becomes, OneFault, OneMore, TypesInv, FlagsOK
    <3>. QED
      BY <3>1, <3>2, PersistRowIs
  <2>2. /\ rows' \in Catalogues /\ s \in Agents /\ work[s].pc = "row"
        /\ UNCHANGED <<up, dirs, xml, meta, indexed, index, victim, asked, deleted, haunted,
                       torn, stale, lost>>
    BY PersistRowIs, AgentsAre DEF files, copies, ghosts, counts
  <2>. QED
    BY <2>1, <2>2, AgentsAre DEF TypesInv, FlagsOK
<1>2. FilesOK'
  <2>1. /\ work'[s].pc \in {"done", "meta"} /\ \A b \in Agents \ {s} : work'[b] = work[b]
        /\ faulted' \in BOOLEAN /\ (faulted => faulted') /\ events' \in 0..MaxEvents
    <3>1. CASE Becomes(s, "done", <<>>, <<>>, {}) /\ UNCHANGED counts
      BY <3>1 DEF Becomes, counts, TypesInv, FlagsOK
    <3>2. CASE Becomes(s, "meta", <<>>, <<>>, {}) /\ OneFault
      BY <3>2, ArchiveAssumption DEF Becomes, OneFault, OneMore, TypesInv, FlagsOK
    <3>. QED
      BY <3>1, <3>2, PersistRowIs
  <2>2. /\ rows' \in Catalogues /\ s \in Agents /\ work[s].pc = "row"
        /\ UNCHANGED <<up, dirs, xml, meta, indexed, index, victim, asked, deleted, haunted,
                       torn, stale, lost>>
    BY PersistRowIs, AgentsAre DEF files, copies, ghosts, counts
  <2>. QED
    BY <2>1, <2>2, AgentsAre DEF TypesInv, FilesOK
<1>3. ClockOK'
  <2>1. CASE Becomes(s, "done", <<>>, <<>>, {}) /\ faulted' = faulted
    <3>1. Unwritten' \subseteq Unwritten
      BY <2>1, PersistRowIs, AgentsAre DEF Unwritten, Becomes
    <3>. QED
      BY <2>1, <3>1, PersistRowIs, ClockKept
  <2>2. CASE Becomes(s, "meta", <<>>, <<>>, {}) /\ OneFault
    <3>1. Unwritten' \subseteq Unwritten \union {s}
      BY <2>2, PersistRowIs, AgentsAre DEF Unwritten, Becomes
    <3>. QED
      BY <2>2, <3>1, PersistRowIs, ClockFaults DEF OneFault
  <2>. QED
    BY <2>1, <2>2, PersistRowIs DEF counts
<1>4. WorkOK'
  <2>1. CASE Becomes(s, "done", <<>>, <<>>, {}) /\ verdict' = verdict
    BY <2>1, PersistRowIs, WorkKept, AgentsAre DEF TypesInv, WorkOK, Running, files, copies,
       ghosts, counts
  <2>2. CASE Becomes(s, "meta", <<>>, <<>>, {}) /\ verdict' \in [Scans -> Over]
    BY <2>2, PersistRowIs, WorkKept, AgentsAre DEF TypesInv, WorkOK, Running, files, copies,
       ghosts, counts
  <2>. QED
    BY <2>1, <2>2, PersistRowIs
<1>5. ReadersOK'
  BY PersistRowIs, ReadersSame DEF files, copies, ghosts, counts
<1>6. GhostsOK'
  <2>1. /\ work'[s].pc \in {"done", "meta"} /\ \A b \in Agents \ {s} : work'[b] = work[b]
        /\ faulted' \in BOOLEAN /\ (faulted => faulted') /\ events' \in 0..MaxEvents
    <3>1. CASE Becomes(s, "done", <<>>, <<>>, {}) /\ UNCHANGED counts
      BY <3>1 DEF Becomes, counts, TypesInv, FlagsOK
    <3>2. CASE Becomes(s, "meta", <<>>, <<>>, {}) /\ OneFault
      BY <3>2, ArchiveAssumption DEF Becomes, OneFault, OneMore, TypesInv, FlagsOK
    <3>. QED
      BY <3>1, <3>2, PersistRowIs
  <2>2. /\ rows' \in Catalogues /\ s \in Agents /\ work[s].pc = "row"
        /\ UNCHANGED <<up, dirs, xml, meta, indexed, index, victim, asked, deleted, haunted,
                       torn, stale, lost>>
    BY PersistRowIs, AgentsAre DEF files, copies, ghosts, counts
  <2>. QED
    BY <2>1, <2>2, AgentsAre DEF TypesInv, GhostsOK
<1>. QED
  BY <1>1, <1>2, <1>3, <1>4, <1>5, <1>6 DEF TypesInv

LEMMA LoadIndexTypes ==
  ASSUME TypesInv, NEW a \in Agents, LoadIndex(a)
  PROVE  TypesInv'
<1>1. FlagsOK'
  BY LoadIndexIs, ArchiveAssumption DEF TypesInv, FlagsOK, OneMore, OneFault, files, copies,
     ghosts, counts
<1>2. FilesOK'
  BY LoadIndexIs, AgentsAre DEF TypesInv, FilesOK, Becomes, files, copies, ghosts, counts
<1>3. ClockOK'
  BY LoadIndexIs, ClockKept, AgentsAre DEF Becomes, Unwritten, OneFault, files, copies, ghosts,
     counts
<1>4. WorkOK'
  BY LoadIndexIs, WorkKept, AgentsAre DEF TypesInv, WorkOK, Running, files, copies, ghosts, counts
<1>5. ReadersOK'
  BY LoadIndexIs, ReadersSame DEF files, copies, ghosts, counts
<1>6. GhostsOK'
  BY LoadIndexIs, AgentsAre DEF TypesInv, GhostsOK, OneMore, OneFault, Becomes, files, copies,
     ghosts, counts
<1>. QED
  BY <1>1, <1>2, <1>3, <1>4, <1>5, <1>6 DEF TypesInv

LEMMA SaveIndexTypes ==
  ASSUME TypesInv, NEW a \in Agents, SaveIndex(a)
  PROVE  TypesInv'
<1>1. FlagsOK'
  BY SaveIndexIs, OvertakeIs, ArchiveAssumption DEF TypesInv, FlagsOK, OneMore, OneFault, files,
     copies, ghosts, counts
<1>2. FilesOK'
  BY SaveIndexIs, EntryChangedIs, AgentsAre DEF TypesInv, FilesOK, Becomes, files, copies, ghosts,
     counts
<1>3. ClockOK'
  BY SaveIndexIs, ClockKept, AgentsAre DEF Becomes, Unwritten, OneFault, files, copies, ghosts,
     counts
<1>4. WorkOK'
  BY SaveIndexIs, WorkKept, AgentsAre DEF TypesInv, WorkOK, Running, files, copies, ghosts, counts
<1>5. ReadersOK'
  BY SaveIndexIs, ReadersSame DEF files, copies, ghosts, counts
<1>6. GhostsOK'
  BY SaveIndexIs, OvertakeIs, AgentsAre DEF TypesInv, GhostsOK, Becomes, files, copies, ghosts,
     counts
<1>. QED
  BY <1>1, <1>2, <1>3, <1>4, <1>5, <1>6 DEF TypesInv

LEMMA RefreshLoadsTypes ==
  ASSUME TypesInv, NEW a \in Agents, RefreshLoads(a)
  PROVE  TypesInv'
<1>1. FlagsOK'
  BY RefreshLoadsIs, ArchiveAssumption DEF TypesInv, FlagsOK, OneMore, OneFault, files, copies,
     ghosts, counts
<1>2. FilesOK'
  BY RefreshLoadsIs, AgentsAre DEF TypesInv, FilesOK, Becomes, files, copies, ghosts, counts
<1>3. ClockOK'
  BY RefreshLoadsIs, ClockKept, AgentsAre DEF Becomes, Unwritten, OneFault, files, copies, ghosts,
     counts
<1>4. WorkOK'
  BY RefreshLoadsIs, WorkKept, AgentsAre DEF TypesInv, WorkOK, Running, files, copies, ghosts,
     counts, ToRefresh
<1>5. ReadersOK'
  BY RefreshLoadsIs, ReadersSame DEF files, copies, ghosts, counts
<1>6. GhostsOK'
  BY RefreshLoadsIs, AgentsAre DEF TypesInv, GhostsOK, OneMore, OneFault, Becomes, files, copies,
     ghosts, counts
<1>. QED
  BY <1>1, <1>2, <1>3, <1>4, <1>5, <1>6 DEF TypesInv

LEMMA RefreshSavesTypes ==
  ASSUME TypesInv, NEW a \in Agents, RefreshSaves(a)
  PROVE  TypesInv'
<1>1. FlagsOK'
  BY RefreshSavesIs, OvertakeIs, ArchiveAssumption DEF TypesInv, FlagsOK, OneMore, OneFault,
     files, copies, ghosts, counts
<1>2. FilesOK'
  BY RefreshSavesIs, AgentsAre DEF TypesInv, FilesOK, Becomes, files, copies, ghosts, counts
<1>3. ClockOK'
  BY RefreshSavesIs, ClockKept, AgentsAre DEF Becomes, Unwritten, OneFault, files, copies, ghosts,
     counts
<1>4. WorkOK'
  BY RefreshSavesIs, WorkKept, AgentsAre DEF TypesInv, WorkOK, Running, files, copies, ghosts,
     counts
<1>5. ReadersOK'
  BY RefreshSavesIs, ReadersSame DEF files, copies, ghosts, counts
<1>6. GhostsOK'
  BY RefreshSavesIs, OvertakeIs, AgentsAre DEF TypesInv, GhostsOK, Becomes, files, copies, ghosts,
     counts
<1>. QED
  BY <1>1, <1>2, <1>3, <1>4, <1>5, <1>6 DEF TypesInv

LEMMA DeleteBeginsTypes ==
  ASSUME TypesInv, NEW s \in Scans, DeleteBegins(s)
  PROVE  TypesInv'
<1>1. FlagsOK'
  BY DeleteBeginsIs, ArchiveAssumption DEF TypesInv, FlagsOK, OneMore, OneFault, files, copies,
     ghosts, counts
<1>2. FilesOK'
  BY DeleteBeginsIs, AgentsAre DEF TypesInv, FilesOK, Becomes, files, copies, ghosts, counts
<1>3. ClockOK'
  BY DeleteBeginsIs, ClockKept, AgentsAre DEF Becomes, Unwritten, OneFault, files, copies, ghosts,
     counts
<1>4. WorkOK'
  BY DeleteBeginsIs, WorkKept, AgentsAre DEF TypesInv, WorkOK, Running, files, copies, ghosts,
     counts
<1>5. ReadersOK'
  BY DeleteBeginsIs, ReadersSame DEF files, copies, ghosts, counts
<1>6. GhostsOK'
  BY DeleteBeginsIs, AgentsAre DEF TypesInv, FilesOK, GhostsOK, OneMore, Becomes, files, copies,
     ghosts, counts
<1>. QED
  BY <1>1, <1>2, <1>3, <1>4, <1>5, <1>6 DEF TypesInv

LEMMA DeleteRowTypes ==
  ASSUME TypesInv, DeleteRow
  PROVE  TypesInv'
<1>1. FlagsOK'
  BY DeleteRowIs, ArchiveAssumption DEF TypesInv, FlagsOK, OneMore, OneFault, files, copies,
     ghosts, counts
<1>2. FilesOK'
  BY DeleteRowIs, AgentsAre DEF TypesInv, FilesOK, Becomes, files, copies, ghosts, counts
<1>3. ClockOK'
  BY DeleteRowIs, ClockKept, AgentsAre DEF Becomes, Unwritten, OneFault, files, copies, ghosts,
     counts
<1>4. WorkOK'
  BY DeleteRowIs, WorkKept, AgentsAre DEF TypesInv, WorkOK, Running, files, copies, ghosts, counts
<1>5. ReadersOK'
  BY DeleteRowIs, ReadersSame DEF files, copies, ghosts, counts
<1>6. GhostsOK'
  BY DeleteRowIs, AgentsAre DEF TypesInv, GhostsOK, OneMore, OneFault, Becomes, files, copies,
     ghosts, counts
<1>. QED
  BY <1>1, <1>2, <1>3, <1>4, <1>5, <1>6 DEF TypesInv

LEMMA DeleteTreeTypes ==
  ASSUME TypesInv, DeleteTree
  PROVE  TypesInv'
<1>1. FlagsOK'
  BY DeleteTreeIs, ArchiveAssumption DEF TypesInv, FlagsOK, OneMore, OneFault, files, copies,
     ghosts, counts
<1>2. FilesOK'
  BY DeleteTreeIs, AgentsAre DEF TypesInv, FilesOK, Becomes, files, copies, ghosts, counts
<1>3. ClockOK'
  BY DeleteTreeIs, ClockKept, AgentsAre DEF Becomes, Unwritten, OneFault, files, copies, ghosts,
     counts
<1>4. WorkOK'
  BY DeleteTreeIs, WorkKept, AgentsAre DEF TypesInv, WorkOK, Running, files, copies, ghosts,
     counts
<1>5. ReadersOK'
  BY DeleteTreeIs, ReadersSame DEF files, copies, ghosts, counts
<1>6. GhostsOK'
  BY DeleteTreeIs, AgentsAre DEF TypesInv, GhostsOK, OneMore, OneFault, Becomes, files, copies,
     ghosts, counts
<1>. QED
  BY <1>1, <1>2, <1>3, <1>4, <1>5, <1>6 DEF TypesInv

LEMMA RaisesTypes ==
  ASSUME TypesInv, NEW a \in Agents, Raises(a)
  PROVE  TypesInv'
<1>1. FlagsOK'
  <2>1. OneFault /\ UNCHANGED <<indexed, lost>> /\ up' \in BOOLEAN /\ (up' => up)
    BY RaisesIs DEF copies, TypesInv, FlagsOK
  <2>. QED
    BY <2>1, OneFaultIs DEF TypesInv, FlagsOK
<1>2. FilesOK'
  BY RaisesIs, AgentsAre DEF TypesInv, FilesOK, Becomes, files, copies, ghosts, counts
<1>3. ClockOK'
  <2>1. Unwritten' \subseteq Unwritten \union {a}
    BY RaisesIs, AgentsAre DEF Unwritten, Becomes
  <2>. QED
    BY <2>1, RaisesIs, ClockFaults DEF OneFault
<1>4. WorkOK'
  BY RaisesIs, WorkKept, AgentsAre DEF TypesInv, WorkOK, Running, files, copies, ghosts, counts
<1>5. ReadersOK'
  BY RaisesIs, ReadersSame DEF files, copies, ghosts, counts
<1>6. GhostsOK'
  <2>1. torn' \subseteq Scans /\ stale' \subseteq Agents /\ faulted' = TRUE
    <3>1. HalfWritten(a) \subseteq Scans
      BY HalfWrittenIs
    <3>2. torn' = torn \union HalfWritten(a) /\ stale' = stale \ {a} /\ OneFault
      BY RaisesIs
    <3>. QED
      BY <3>1, <3>2, OneFaultIs DEF TypesInv, GhostsOK
  <2>2. UNCHANGED <<deleted, haunted, asked, victim>>
    BY RaisesIs
  <2>3. /\ work[a].pc # "idle" /\ work'[a].pc \in {"idle", "meta", "dead"}
        /\ \A b \in Agents \ {a} : work'[b] = work[b]
        /\ a = Deleter => work'[a].pc = "idle"
        /\ a # Deleter => work'[a].pc # "idle"
    BY RaisesIs, AgentsAre DEF Becomes
  <2>. QED
    BY <2>1, <2>2, <2>3, AgentsAre DEF TypesInv, GhostsOK
<1>. QED
  BY <1>1, <1>2, <1>3, <1>4, <1>5, <1>6 DEF TypesInv

LEMMA RefreshRewritesTypes ==
  ASSUME TypesInv, NEW a \in Agents, RefreshRewrites(a)
  PROVE  TypesInv'
<1>1. FlagsOK'
  BY RefreshRewritesIs, ArchiveAssumption DEF TypesInv, FlagsOK, OneMore, OneFault, files, copies,
     ghosts, counts
<1>2. FilesOK'
  <2>1. work'[a].pc \in {"rewrite", "reindex"} /\ \A b \in Agents \ {a} : work'[b] = work[b]
    BY RefreshRewritesIs DEF Becomes
  <2>2. meta' \in Catalogues /\ DOMAIN meta' = DOMAIN meta
    <3>1. PICK s \in work[a].todo, d \in Meta :
            meta' = IF s \in DOMAIN meta THEN Put(meta, s, d) ELSE meta
      BY RefreshRewritesIs
    <3>2. meta \in Catalogues
      BY DEF TypesInv, FilesOK
    <3>3. CASE s \in DOMAIN meta
      <4>1. DOMAIN meta' = DOMAIN meta \union {s}
        BY <3>1, <3>3, PutDomain
      <4>2. s \in Scans
        BY <3>2, <3>3, CatalogueHas
      <4>. QED
        BY <3>1, <3>2, <3>3, <4>1, <4>2, PutKeeps
    <3>4. CASE s \notin DOMAIN meta
      BY <3>1, <3>2, <3>4
    <3>. QED
      BY <3>3, <3>4
  <2>3. UNCHANGED <<dirs, xml, index, rows>>
    BY RefreshRewritesIs DEF copies
  <2>. QED
    BY <2>1, <2>2, <2>3, AgentsAre DEF TypesInv, FilesOK
<1>3. ClockOK'
  <2>1. work'[a].pc \in {"rewrite", "reindex"} /\ \A b \in Agents \ {a} : work'[b] = work[b]
    BY RefreshRewritesIs DEF Becomes
  <2>2. Unwritten' \subseteq Unwritten
    BY <2>1, AgentsAre DEF Unwritten
  <2>. QED
    BY <2>2, ClockKept, RefreshRewritesIs DEF counts
<1>4. WorkOK'
  <2>1. PICK s \in work[a].todo, d \in Meta :
          /\ s \in HalfWritten(a) /\ s \in DOMAIN work[a].snap
          /\ d.stamp = work[a].snap[s].stamp
          /\ Becomes(a, IF work[a].todo = {s} THEN "reindex" ELSE "rewrite", work[a].own,
                     Put(work[a].snap, s, d), work[a].todo \ {s})
    BY RefreshRewritesIs
  <2>2. /\ work[a].snap \in Catalogues /\ work[a].pc = "rewrite" /\ up /\ up' = up /\ verdict' = verdict
        /\ work[a].todo # {} /\ work[a].todo \subseteq HalfWritten(a)
    BY RefreshRewritesIs, WorkHas DEF TypesInv, WorkOK
  <2>3. PICK g : g = Put(work[a].snap, s, d)
    OBVIOUS
  <2>4. DOMAIN g = DOMAIN work[a].snap /\ \A t \in DOMAIN g : g[t].stamp = work[a].snap[t].stamp
    <3>1. DOMAIN g = DOMAIN work[a].snap \union {s}
      BY <2>3, PutDomain
    <3>2. DOMAIN g = DOMAIN work[a].snap
      BY <2>1, <3>1
    <3>3. g[s] = d
      BY <2>3, PutHere
    <3>4. \A t \in DOMAIN work[a].snap \ {s} : g[t] = work[a].snap[t]
      BY <2>3, PutElsewhere
    <3>. QED
      BY <2>1, <3>2, <3>3, <3>4
  <2>5. Last(g, DOMAIN g) = Last(work[a].snap, DOMAIN work[a].snap)
    BY <2>4, SameOrder
  <2>6. HalfWritten(a) = IF a = Deleter THEN DOMAIN g ELSE {Last(g, DOMAIN g)}
    BY <2>2, <2>4, <2>5, HalfWrittenIs
  <2>7. PICK pc : pc = IF work[a].todo = {s} THEN "reindex" ELSE "rewrite"
    OBVIOUS
  <2>8. PICK todo : todo = work[a].todo \ {s}
    OBVIOUS
  <2>9. Becomes(a, pc, work[a].own, g, todo)
    BY <2>1, <2>3, <2>7, <2>8
  <2>10. /\ DOMAIN g # {} /\ todo \subseteq (IF a = Deleter THEN DOMAIN g ELSE {Last(g, DOMAIN g)})
         /\ pc \in {"rewrite", "reindex"} /\ (pc = "rewrite" => todo # {}) /\ (pc = "reindex" => todo = {})
    BY <2>1, <2>2, <2>4, <2>6, <2>7, <2>8
  <2>11. a \in Scans => DOMAIN work[a].own = {a}
    BY <2>2 DEF TypesInv, WorkOK, Running
  <2>12. verdict' \in [Scans -> Over]
    BY <2>2 DEF TypesInv, WorkOK
  <2>. QED
    BY <2>2, <2>9, <2>10, <2>11, <2>12, WorkKept DEF Running
<1>5. ReadersOK'
  BY RefreshRewritesIs, ReadersSame DEF files, copies, ghosts, counts
<1>6. GhostsOK'
  <2>1. work'[a].pc \in {"rewrite", "reindex"} /\ \A b \in Agents \ {a} : work'[b] = work[b]
    BY RefreshRewritesIs DEF Becomes
  <2>2. /\ work[a].pc = "rewrite"
        /\ UNCHANGED <<deleted, haunted, asked, torn, stale, faulted, victim>>
    BY RefreshRewritesIs DEF ghosts, counts
  <2>. QED
    BY <2>1, <2>2, AgentsAre DEF TypesInv, GhostsOK
<1>. QED
  BY <1>1, <1>2, <1>3, <1>4, <1>5, <1>6 DEF TypesInv

LEMMA DiesTypes ==
  ASSUME TypesInv, Dies
  PROVE  TypesInv'
<1>1. FlagsOK'
  <2>1. OneFault /\ UNCHANGED <<indexed, lost>> /\ up' \in BOOLEAN /\ (up' => up)
    BY DiesIs DEF copies, TypesInv, FlagsOK
  <2>. QED
    BY <2>1, OneFaultIs DEF TypesInv, FlagsOK
<1>2. FilesOK'
  BY DiesIs DEF TypesInv, FilesOK, files, copies, ghosts, counts
<1>3. ClockOK'
  <2>1. Unwritten' \subseteq Unwritten
    BY DiesIs DEF Unwritten
  <2>. QED
    BY <2>1, DiesIs, ClockKept DEF OneFault, copies
<1>4. WorkOK'
  <2>1. \A a \in Agents : work'[a].pc \in {"idle", "done", "dead"} /\ work' \in [Agents -> Work]
    BY DiesIs, IdleIs, AgentsAre DEF Agents, Scans, Deleter
  <2>2. verdict' = verdict /\ work'[Deleter].pc = "idle"
    BY DiesIs, IdleIs
  <2>. QED
    BY <2>1, <2>2, AgentsAre DEF TypesInv, WorkOK, Running
<1>5. ReadersOK'
  BY DiesIs, RestingIs DEF ReadersOK
<1>6. GhostsOK'
  <2>1. UNION {HalfWritten(a) : a \in Agents} \subseteq Scans
    BY HalfWrittenIs
  <2>2. torn' \subseteq Scans /\ stale' = {} /\ faulted' = TRUE
    BY <2>1, DiesIs DEF TypesInv, GhostsOK, OneFault
  <2>3. work'[Deleter].pc = "idle"
    BY DiesIs, IdleIs
  <2>. QED
    BY <2>2, <2>3, DiesIs DEF TypesInv, GhostsOK
<1>. QED
  BY <1>1, <1>2, <1>3, <1>4, <1>5, <1>6 DEF TypesInv

LEMMA StartsTypes ==
  ASSUME TypesInv, Starts
  PROVE  TypesInv'
<1>1. FlagsOK'
  BY StartsIs, ArchiveAssumption DEF TypesInv, FlagsOK, OneMore, OneFault, files, copies, ghosts,
     counts
<1>2. FilesOK'
  BY StartsIs, AgentsAre DEF TypesInv, FilesOK, Becomes, files, copies, ghosts, counts
<1>3. ClockOK'
  BY StartsIs, ClockKept DEF Unwritten, OneFault, files, copies, ghosts, counts
<1>4. WorkOK'
  BY StartsIs, WorkSame DEF files, copies, ghosts, counts
<1>5. ReadersOK'
  BY StartsIs, ReadersSame DEF files, copies, ghosts, counts
<1>6. GhostsOK'
  BY StartsIs DEF TypesInv, GhostsOK, OneMore, OneFault, files, copies, ghosts, counts
<1>. QED
  BY <1>1, <1>2, <1>3, <1>4, <1>5, <1>6 DEF TypesInv

LEMMA ListRowsTypes ==
  ASSUME TypesInv, ListRows
  PROVE  TypesInv'
<1>1. FlagsOK'
  BY ListRowsIs, ArchiveAssumption DEF TypesInv, FlagsOK, OneMore, OneFault, files, copies,
     ghosts, counts
<1>2. FilesOK'
  BY ListRowsIs, AgentsAre DEF TypesInv, FilesOK, Becomes, files, copies, ghosts, counts
<1>3. ClockOK'
  BY ListRowsIs, ClockKept DEF Unwritten, OneFault, files, copies, ghosts, counts
<1>4. WorkOK'
  BY ListRowsIs, WorkSame DEF files, copies, ghosts, counts
<1>5. ReadersOK'
  BY ListRowsIs DEF TypesInv, ReadersOK, files, copies, ghosts, counts
<1>6. GhostsOK'
  BY ListRowsIs DEF TypesInv, GhostsOK, OneMore, OneFault, files, copies, ghosts, counts
<1>. QED
  BY <1>1, <1>2, <1>3, <1>4, <1>5, <1>6 DEF TypesInv

LEMMA ListIndexTypes ==
  ASSUME TypesInv, ListIndex
  PROVE  TypesInv'
<1>1. FlagsOK'
  BY ListIndexIs, ArchiveAssumption DEF TypesInv, FlagsOK, OneMore, OneFault, files, copies,
     ghosts, counts
<1>2. FilesOK'
  BY ListIndexIs, AgentsAre DEF TypesInv, FilesOK, Becomes, files, copies, ghosts, counts
<1>3. ClockOK'
  BY ListIndexIs, ClockKept DEF Unwritten, OneFault, files, copies, ghosts, counts
<1>4. WorkOK'
  BY ListIndexIs, WorkSame DEF files, copies, ghosts, counts
<1>5. ReadersOK'
  BY ListIndexIs DEF TypesInv, ReadersOK, files, copies, ghosts, counts
<1>6. GhostsOK'
  BY ListIndexIs, TakenUpIs DEF TypesInv, GhostsOK, files, copies, ghosts, counts
<1>. QED
  BY <1>1, <1>2, <1>3, <1>4, <1>5, <1>6 DEF TypesInv

LEMMA ListChecksTypes ==
  ASSUME TypesInv, ListChecks
  PROVE  TypesInv'
<1>1. FlagsOK'
  BY ListChecksIs, ArchiveAssumption DEF TypesInv, FlagsOK, OneMore, OneFault, files, copies,
     ghosts, counts
<1>2. FilesOK'
  BY ListChecksIs, AgentsAre DEF TypesInv, FilesOK, Becomes, files, copies, ghosts, counts
<1>3. ClockOK'
  BY ListChecksIs, ClockKept DEF Unwritten, OneFault, files, copies, ghosts, counts
<1>4. WorkOK'
  BY ListChecksIs, WorkSame DEF files, copies, ghosts, counts
<1>5. ReadersOK'
  BY ListChecksIs DEF TypesInv, ReadersOK, files, copies, ghosts, counts
<1>6. GhostsOK'
  BY ListChecksIs DEF TypesInv, GhostsOK, OneMore, OneFault, files, copies, ghosts, counts
<1>. QED
  BY <1>1, <1>2, <1>3, <1>4, <1>5, <1>6 DEF TypesInv

LEMMA ListInsertsTypes ==
  ASSUME TypesInv, ListInserts
  PROVE  TypesInv'
<1>1. FlagsOK'
  BY ListInsertsIs, ArchiveAssumption DEF TypesInv, FlagsOK, OneMore, OneFault, files, copies,
     ghosts, counts
<1>2. FilesOK'
  BY ListInsertsIs, AgentsAre DEF TypesInv, FilesOK, Becomes, files, copies, ghosts, counts
<1>3. ClockOK'
  BY ListInsertsIs, ClockKept DEF Unwritten, OneFault, files, copies, ghosts, counts
<1>4. WorkOK'
  BY ListInsertsIs, WorkSame DEF files, copies, ghosts, counts
<1>5. ReadersOK'
  BY ListInsertsIs, WithoutNextIs DEF TypesInv, ReadersOK, files, copies, ghosts, counts
<1>6. GhostsOK'
  BY ListInsertsIs DEF TypesInv, GhostsOK, OneMore, OneFault, files, copies, ghosts, counts
<1>. QED
  BY <1>1, <1>2, <1>3, <1>4, <1>5, <1>6 DEF TypesInv

LEMMA PdfPicksTypes ==
  ASSUME TypesInv, PdfPicks
  PROVE  TypesInv'
<1>1. FlagsOK'
  BY PdfPicksIs, ArchiveAssumption DEF TypesInv, FlagsOK, OneMore, OneFault, files, copies,
     ghosts, counts
<1>2. FilesOK'
  BY PdfPicksIs, AgentsAre DEF TypesInv, FilesOK, Becomes, files, copies, ghosts, counts
<1>3. ClockOK'
  BY PdfPicksIs, ClockKept DEF Unwritten, OneFault, files, copies, ghosts, counts
<1>4. WorkOK'
  BY PdfPicksIs, WorkSame DEF files, copies, ghosts, counts
<1>5. ReadersOK'
  BY PdfPicksIs DEF TypesInv, ReadersOK, files, copies, ghosts, counts
<1>6. GhostsOK'
  BY PdfPicksIs, TakenUpIs DEF TypesInv, GhostsOK, files, copies, ghosts, counts
<1>. QED
  BY <1>1, <1>2, <1>3, <1>4, <1>5, <1>6 DEF TypesInv

LEMMA PdfRendersTypes ==
  ASSUME TypesInv, PdfRenders
  PROVE  TypesInv'
<1>1. FlagsOK'
  BY PdfRendersIs, ArchiveAssumption DEF TypesInv, FlagsOK, OneMore, OneFault, files, copies,
     ghosts, counts
<1>2. FilesOK'
  BY PdfRendersIs, AgentsAre DEF TypesInv, FilesOK, Becomes, files, copies, ghosts, counts
<1>3. ClockOK'
  BY PdfRendersIs, ClockKept DEF Unwritten, OneFault, files, copies, ghosts, counts
<1>4. WorkOK'
  BY PdfRendersIs, WorkSame DEF files, copies, ghosts, counts
<1>5. ReadersOK'
  BY PdfRendersIs, RestingIs DEF TypesInv, ReadersOK, files, copies, ghosts, counts
<1>6. GhostsOK'
  BY PdfRendersIs DEF TypesInv, GhostsOK, OneMore, OneFault, files, copies, ghosts, counts
<1>. QED
  BY <1>1, <1>2, <1>3, <1>4, <1>5, <1>6 DEF TypesInv

LEMMA PdfPersistsTypes ==
  ASSUME TypesInv, PdfPersists
  PROVE  TypesInv'
<1>1. FlagsOK'
  BY PdfPersistsIs, ArchiveAssumption DEF TypesInv, FlagsOK, OneMore, OneFault, files, copies,
     ghosts, counts
<1>2. FilesOK'
  BY PdfPersistsIs, AgentsAre DEF TypesInv, FilesOK, Becomes, files, copies, ghosts, counts
<1>3. ClockOK'
  BY PdfPersistsIs, ClockKept DEF Unwritten, OneFault, files, copies, ghosts, counts
<1>4. WorkOK'
  BY PdfPersistsIs, WorkSame DEF files, copies, ghosts, counts
<1>5. ReadersOK'
  BY PdfPersistsIs, RestingIs DEF TypesInv, ReadersOK, files, copies, ghosts, counts
<1>6. GhostsOK'
  BY PdfPersistsIs DEF TypesInv, GhostsOK, OneMore, OneFault, files, copies, ghosts, counts
<1>. QED
  BY <1>1, <1>2, <1>3, <1>4, <1>5, <1>6 DEF TypesInv

LEMMA TypesStep == TypesInv /\ [Next]_vars => TypesInv'
<1>1. ASSUME TypesInv, UNCHANGED vars
      PROVE  TypesInv'
  <2>1. FlagsOK'
    BY <1>1 DEF TypesInv, FlagsOK, vars, files, copies, ghosts, counts
  <2>2. FilesOK'
    BY <1>1 DEF TypesInv, FilesOK, vars, files, copies, ghosts, counts
  <2>3. ClockOK'
    BY <1>1, ClockKept DEF Unwritten, vars, files, copies, ghosts, counts
  <2>4. WorkOK'
    BY <1>1, WorkSame DEF vars
  <2>5. ReadersOK'
    BY <1>1, ReadersSame DEF vars
  <2>6. GhostsOK'
    BY <1>1 DEF TypesInv, GhostsOK, vars, files, copies, ghosts, counts
  <2>. QED
    BY <2>1, <2>2, <2>3, <2>4, <2>5, <2>6 DEF TypesInv
<1>2. ASSUME TypesInv, NEW s \in Scans,
             \/ BeginReport(s) \/ WriteMeta(s) \/ PersistRow(s)
             \/ \E v \in Over : ScanEnds(s, v)
             \/ DeleteBegins(s)
      PROVE  TypesInv'
  BY <1>2, BeginReportTypes, WriteMetaTypes, PersistRowTypes, ScanEndsTypes, DeleteBeginsTypes
<1>3. ASSUME TypesInv, NEW a \in Agents,
             \/ LoadIndex(a) \/ SaveIndex(a) \/ RefreshLoads(a)
             \/ RefreshRewrites(a) \/ RefreshSaves(a) \/ Raises(a)
      PROVE  TypesInv'
  BY <1>3, LoadIndexTypes, SaveIndexTypes, RefreshLoadsTypes, RefreshRewritesTypes,
     RefreshSavesTypes,
     RaisesTypes
<1>4. ASSUME TypesInv,
             \/ DeleteRow \/ DeleteTree
             \/ ListRows \/ ListIndex \/ ListChecks \/ ListInserts
             \/ PdfPicks \/ PdfRenders \/ PdfPersists
             \/ Dies \/ Starts
      PROVE  TypesInv'
  BY <1>4, DeleteRowTypes, DeleteTreeTypes, ListRowsTypes, ListIndexTypes, ListChecksTypes,
     ListInsertsTypes, PdfPicksTypes, PdfRendersTypes, PdfPersistsTypes, DiesTypes, StartsTypes
<1>. QED
  BY <1>1, <1>2, <1>3, <1>4 DEF Next

LEMMA TypesInit == Init => TypesInv
<1>. SUFFICES ASSUME Init
              PROVE  TypesInv
  OBVIOUS
<1>1. 1..Legacy \subseteq Scans /\ dirs = 1..Legacy
  BY ArchiveAssumption DEF Init, Scans
<1>2. meta \in Catalogues /\ DOMAIN meta = dirs
  <2>1. \A s \in dirs : s \in 1..(2 * N)
    BY <1>1, ArchiveAssumption DEF Scans
  <2>2. meta \in [dirs -> Meta]
    BY <2>1 DEF Init, Meta, Over, NoBase
  <2>. QED
    BY <1>1, <2>2, InCatalogues
<1>3. [Idle EXCEPT !.pc = "done"] \in Work /\ [Idle EXCEPT !.pc = "done"].pc = "done"
  BY EmptyCatalogue DEF Idle, Work, Pcs
<1>4. /\ work \in [Agents -> Work] /\ work[Deleter].pc = "idle"
      /\ \A s \in dirs : work[s].pc = "done"
      /\ \A a \in Agents : work[a].pc \in {"idle", "done"}
  <2>1. PICK done \in Work : done = [Idle EXCEPT !.pc = "done"] /\ done.pc = "done"
    BY <1>3
  <2>2. work = [a \in Agents |-> IF a \in dirs THEN done ELSE Idle]
    BY <2>1 DEF Init
  <2>. QED
    BY <1>1, <2>1, <2>2, IdleIs, AgentsAre
<1>5. FlagsOK
  <2>1. up = FALSE /\ indexed = FALSE /\ lost = FALSE /\ faulted = FALSE /\ events = 0
    BY DEF Init
  <2>2. 0 \in 0..MaxEvents
    BY ArchiveAssumption
  <2>3. events \in 0..MaxEvents
    BY <2>1, <2>2
  <2>. QED
    BY <2>1, <2>3, Zenon DEF FlagsOK
<1>6. FilesOK
  BY <1>1, <1>2, <1>4, EmptyCatalogue DEF Init, FilesOK
<1>7. ClockOK
  <2>1. Unwritten = (Legacy + 1)..N
    <3>1. \A s \in Scans : work[s].pc = IF s \in 1..Legacy THEN "done" ELSE "idle"
      BY <1>1, <1>3, AgentsAre, IdleIs DEF Init
    <3>. QED
      BY <1>1, <3>1, ArchiveAssumption DEF Unwritten, Scans
  <2>2. Legacy + 1 \in Int /\ N \in Int /\ Legacy <= N /\ Legacy \in Nat
    BY ArchiveAssumption
  <2>3. Cardinality((Legacy + 1)..N) = IF Legacy + 1 > N THEN 0 ELSE N - (Legacy + 1) + 1
    BY <2>2, FS_Interval
  <2>4. Cardinality(Unwritten) = N - Legacy
    BY <2>1, <2>2, <2>3
  <2>. QED
    BY <2>2, <2>4 DEF Init, ClockOK
<1>8. WorkOK
  BY <1>4, AgentsAre DEF Init, WorkOK, Over, Running
<1>9. ReadersOK
  BY RestingIs DEF Init, ReadersOK
<1>10. GhostsOK
  <2>1. 1 \in Scans
    BY ArchiveAssumption DEF Scans
  <2>. QED
    BY <2>1, <1>4 DEF Init, GhostsOK
<1>. QED
  BY <1>5, <1>6, <1>7, <1>8, <1>9, <1>10 DEF TypesInv

LEMMA TypesAreKept == Spec => []TypesInv
BY TypesInit, TypesStep, PTL DEF Spec

\* Every variable of the archive has its type; an agent that saves the index has
\* loaded it, and the clock stays within two timestamps for each scan.
THEOREM ArchiveTypesHold == Spec => []ArchiveTypeOK
<1>1. ASSUME TypesInv
      PROVE  ArchiveTypeOK
  <2>1. clock \in 0..(2 * N)
    BY <1>1, UnwrittenIs, ArchiveAssumption DEF TypesInv, ClockOK
  <2>2. \A a \in Agents : work[a].pc = "rewrite" =>
           work[a].todo # {} /\ work[a].todo \subseteq DOMAIN work[a].snap
    BY <1>1, HalfWrittenIs DEF TypesInv, WorkOK
  <2>3. \A s \in Scans : work[s].pc \in {"load", "row"} \union Holding => DOMAIN work[s].own = {s}
    BY <1>1 DEF TypesInv, WorkOK, Running, Holding
  <2>. QED
    BY <1>1, <2>1, <2>2, <2>3
    DEF ArchiveTypeOK, TypesInv, FlagsOK, FilesOK, WorkOK, ReadersOK, GhostsOK
<1>. QED
  BY <1>1, TypesAreKept, PTL

-----------------------------------------------------------------------------
(* Deletion is final.  A scan that is gone stays gone whatever steps follow. *)

LEMMA GoneStays ==
  ASSUME TypesInv, NEW g \in Scans, Gone(g), [Next]_vars
  PROVE  Gone(g)'
<1>. USE AgentsAre
<1>1. ASSUME NEW s \in Scans, BeginReport(s)
      PROVE  Gone(g)'
  BY <1>1, BeginReportIs DEF Gone, Untaken, Holding, Becomes, files, copies, ghosts, counts
<1>2. ASSUME NEW s \in Scans, NEW v \in Over, ScanEnds(s, v)
      PROVE  Gone(g)'
  BY <1>2, ScanEndsIs DEF Gone, Untaken, Holding, Becomes, files, copies, ghosts, counts
<1>3. ASSUME NEW s \in Scans, WriteMeta(s)
      PROVE  Gone(g)'
  BY <1>3, WriteMetaIs DEF Gone, Untaken, Holding, Becomes, files, copies, ghosts, counts
<1>4. ASSUME NEW s \in Scans, PersistRow(s)
      PROVE  Gone(g)'
  BY <1>4, PersistRowIs DEF Gone, Untaken, Holding, Becomes, files, copies, ghosts, counts
<1>5. ASSUME NEW s \in Scans, DeleteBegins(s)
      PROVE  Gone(g)'
  BY <1>5, DeleteBeginsIs DEF Gone, Untaken, Holding, Becomes, Listed, files, copies, ghosts,
     counts
<1>6. ASSUME NEW a \in Agents, LoadIndex(a)
      PROVE  Gone(g)'
  BY <1>6, LoadIndexIs DEF Gone, Untaken, Holding, Becomes, files, copies, ghosts, counts
<1>7. ASSUME NEW a \in Agents, SaveIndex(a)
      PROVE  Gone(g)'
  <2>1. work[a].pc = "index" /\ a # g /\ g \notin DOMAIN work[a].snap
    BY <1>7, SaveIndexIs DEF Gone, Untaken, Holding
  <2>2. index' = EntryChanged(a)
    BY <1>7, SaveIndexIs
  <2>3. g \notin DOMAIN index'
    <3>1. CASE a = Deleter
      <4>1. index' = Without(work[a].snap, victim)
        BY <2>1, <2>2, <3>1, EntryChangedIs
      <4>2. DOMAIN index' = DOMAIN work[a].snap \ {victim}
        BY <4>1, WithoutDomain
      <4>. QED
        BY <2>1, <4>2
    <3>2. CASE a # Deleter
      <4>0. index' = Put(work[a].snap, a, work[a].own[a])
        BY <2>1, <2>2, <3>2, EntryChangedIs
      <4>1. DOMAIN index' = DOMAIN work[a].snap \union {a}
        BY <4>0, PutDomain
      <4>. QED
        BY <2>1, <4>1
    <3>. QED
      BY <3>1, <3>2
  <2>4. work'[a].pc \in {"refresh", "idle"} /\ \A b \in Agents \ {a} : work'[b] = work[b]
    BY <1>7, SaveIndexIs DEF Becomes
  <2>5. UNCHANGED <<dirs, rows, lister, pdf>>
    BY <1>7, SaveIndexIs DEF files
  <2>. QED
    BY <2>1, <2>3, <2>4, <2>5 DEF Gone, Untaken, Holding
<1>8. ASSUME NEW a \in Agents, RefreshLoads(a)
      PROVE  Gone(g)'
  BY <1>8, RefreshLoadsIs DEF Gone, Untaken, Holding, Becomes, files, copies, ghosts, counts
<1>9. ASSUME NEW a \in Agents, RefreshRewrites(a)
      PROVE  Gone(g)'
  <2>1. /\ work[a].pc = "rewrite" /\ a # g /\ g \notin DOMAIN work[a].snap
        /\ UNCHANGED <<dirs, rows, index, lister, pdf>>
    BY <1>9, RefreshRewritesIs DEF Gone, Untaken, Holding, copies
  <2>2. DOMAIN work'[a].snap = DOMAIN work[a].snap /\ \A b \in Agents \ {a} : work'[b] = work[b]
    <3>1. PICK t \in work[a].todo, d \in Meta :
            /\ t \in DOMAIN work[a].snap /\ work'[a].snap = Put(work[a].snap, t, d)
            /\ \A b \in Agents \ {a} : work'[b] = work[b]
      BY <1>9, RefreshRewritesIs DEF Becomes
    <3>2. DOMAIN work'[a].snap = DOMAIN work[a].snap \union {t}
      BY <3>1, PutDomain
    <3>. QED
      BY <3>1, <3>2
  <2>. QED
    BY <2>1, <2>2 DEF Gone, Untaken, Holding
<1>10. ASSUME NEW a \in Agents, RefreshSaves(a)
       PROVE  Gone(g)'
  <2>1. /\ work[a].pc = "reindex" /\ a # g /\ g \notin DOMAIN work[a].snap /\ index' = work[a].snap
        /\ UNCHANGED <<dirs, rows, lister, pdf>>
    BY <1>10, RefreshSavesIs DEF Gone, Untaken, Holding, files
  <2>2. work'[a].pc \in {"row", "idle"} /\ \A b \in Agents \ {a} : work'[b] = work[b]
    BY <1>10, RefreshSavesIs DEF Becomes
  <2>. QED
    BY <2>1, <2>2 DEF Gone, Untaken, Holding
<1>11. ASSUME NEW a \in Agents, Raises(a)
       PROVE  Gone(g)'
  BY <1>11, RaisesIs DEF Gone, Untaken, Holding, Becomes, files, copies, ghosts, counts
<1>12. ASSUME DeleteRow
       PROVE  Gone(g)'
  BY <1>12, DeleteRowIs DEF Gone, Untaken, Holding, Becomes, files, copies, ghosts, counts
<1>13. ASSUME DeleteTree
       PROVE  Gone(g)'
  BY <1>13, DeleteTreeIs DEF Gone, Untaken, Holding, Becomes, files, copies, ghosts, counts
<1>14. ASSUME ListRows
       PROVE  Gone(g)'
  BY <1>14, ListRowsIs DEF Gone, Untaken, Holding, files, copies, ghosts, counts
<1>15. ASSUME ListIndex
       PROVE  Gone(g)'
  BY <1>15, ListIndexIs DEF Gone, Untaken, Holding, files, copies, ghosts, counts
<1>16. ASSUME ListChecks
       PROVE  Gone(g)'
  BY <1>16, ListChecksIs DEF Gone, Untaken, Holding, files, copies, ghosts, counts
<1>17. ASSUME ListInserts
       PROVE  Gone(g)'
  BY <1>17, ListInsertsIs, WithoutNextIs DEF Gone, Untaken, files, copies, ghosts, counts
<1>18. ASSUME PdfPicks
       PROVE  Gone(g)'
  BY <1>18, PdfPicksIs DEF Gone, Untaken, Listed, files, copies, ghosts, counts
<1>19. ASSUME PdfRenders
       PROVE  Gone(g)'
  BY <1>19, PdfRendersIs, RestingIs DEF Gone, Untaken, files, copies, ghosts, counts, NoBase,
     Scans
<1>20. ASSUME PdfPersists
       PROVE  Gone(g)'
  BY <1>20, PdfPersistsIs, RestingIs DEF Gone, Untaken, files, copies, ghosts, counts, NoBase,
     Scans
<1>21. ASSUME Dies
       PROVE  Gone(g)'
  <2>1. \A b \in Agents : work'[b].pc \notin Holding
    BY <1>21, DiesIs, IdleIs DEF Agents, Scans, Deleter, Holding
  <2>2. work'[g].pc \in {"done", "dead"}
    BY <1>21, DiesIs DEF Gone, Untaken
  <2>3. lister'.todo = {} /\ pdf'.scan # g /\ UNCHANGED <<dirs, rows, index>>
    BY <1>21, DiesIs, RestingIs DEF files, copies, Deleter, NoBase
  <2>. QED
    BY <2>1, <2>2, <2>3 DEF Gone, Untaken
<1>22. ASSUME Starts
       PROVE  Gone(g)'
  BY <1>22, StartsIs DEF Gone, Untaken, TypesInv, FilesOK, files, copies, ghosts, counts
<1>23. ASSUME UNCHANGED vars
       PROVE  Gone(g)'
  BY <1>23 DEF Gone, Untaken, vars, files, copies, ghosts, counts
<1>. QED
  BY <1>1, <1>2, <1>3, <1>4, <1>5, <1>6, <1>7, <1>8, <1>9, <1>10, <1>11, <1>12, <1>13, <1>14,
     <1>15, <1>16, <1>17, <1>18, <1>19, <1>20, <1>21, <1>22, <1>23 DEF Next

LEMMA HauntedGrows ==
  ASSUME TypesInv, [Next]_vars
  PROVE  haunted \subseteq haunted'
<1>1. ASSUME NEW s \in Scans, BeginReport(s)
      PROVE  haunted \subseteq haunted'
  BY <1>1, BeginReportIs DEF ghosts
<1>2. ASSUME NEW s \in Scans, NEW v \in Over, ScanEnds(s, v)
      PROVE  haunted \subseteq haunted'
  BY <1>2, ScanEndsIs DEF ghosts
<1>3. ASSUME NEW s \in Scans, WriteMeta(s)
      PROVE  haunted \subseteq haunted'
  BY <1>3, WriteMetaIs DEF ghosts
<1>4. ASSUME NEW s \in Scans, PersistRow(s)
      PROVE  haunted \subseteq haunted'
  BY <1>4, PersistRowIs DEF ghosts
<1>5. ASSUME NEW s \in Scans, DeleteBegins(s)
      PROVE  haunted \subseteq haunted'
  BY <1>5, DeleteBeginsIs DEF ghosts
<1>6. ASSUME NEW a \in Agents, LoadIndex(a)
      PROVE  haunted \subseteq haunted'
  BY <1>6, LoadIndexIs DEF ghosts
<1>7. ASSUME NEW a \in Agents, SaveIndex(a)
      PROVE  haunted \subseteq haunted'
  BY <1>7, SaveIndexIs DEF ghosts
<1>8. ASSUME NEW a \in Agents, RefreshLoads(a)
      PROVE  haunted \subseteq haunted'
  BY <1>8, RefreshLoadsIs DEF ghosts
<1>9. ASSUME NEW a \in Agents, RefreshRewrites(a)
      PROVE  haunted \subseteq haunted'
  BY <1>9, RefreshRewritesIs DEF ghosts
<1>10. ASSUME NEW a \in Agents, RefreshSaves(a)
       PROVE  haunted \subseteq haunted'
  BY <1>10, RefreshSavesIs DEF ghosts
<1>11. ASSUME NEW a \in Agents, Raises(a)
       PROVE  haunted \subseteq haunted'
  BY <1>11, RaisesIs DEF ghosts
<1>12. ASSUME DeleteRow
       PROVE  haunted \subseteq haunted'
  BY <1>12, DeleteRowIs DEF ghosts
<1>13. ASSUME DeleteTree
       PROVE  haunted \subseteq haunted'
  BY <1>13, DeleteTreeIs DEF ghosts
<1>14. ASSUME ListRows
       PROVE  haunted \subseteq haunted'
  BY <1>14, ListRowsIs DEF ghosts
<1>15. ASSUME ListIndex
       PROVE  haunted \subseteq haunted'
  BY <1>15, ListIndexIs, TakenUpIs DEF ghosts
<1>16. ASSUME ListChecks
       PROVE  haunted \subseteq haunted'
  BY <1>16, ListChecksIs DEF ghosts
<1>17. ASSUME ListInserts
       PROVE  haunted \subseteq haunted'
  BY <1>17, ListInsertsIs DEF ghosts
<1>18. ASSUME PdfPicks
       PROVE  haunted \subseteq haunted'
  BY <1>18, PdfPicksIs, TakenUpIs DEF ghosts
<1>19. ASSUME PdfRenders
       PROVE  haunted \subseteq haunted'
  BY <1>19, PdfRendersIs DEF ghosts
<1>20. ASSUME PdfPersists
       PROVE  haunted \subseteq haunted'
  BY <1>20, PdfPersistsIs DEF ghosts
<1>21. ASSUME Dies
       PROVE  haunted \subseteq haunted'
  BY <1>21, DiesIs DEF ghosts
<1>22. ASSUME Starts
       PROVE  haunted \subseteq haunted'
  BY <1>22, StartsIs DEF ghosts
<1>23. ASSUME UNCHANGED vars
       PROVE  haunted \subseteq haunted'
  BY <1>23 DEF vars, ghosts
<1>. QED
  BY <1>1, <1>2, <1>3, <1>4, <1>5, <1>6, <1>7, <1>8, <1>9, <1>10, <1>11, <1>12, <1>13, <1>14,
     <1>15, <1>16, <1>17, <1>18, <1>19, <1>20, <1>21, <1>22, <1>23 DEF Next

\* How the request moves on.
LEMMA DeleterMoves ==
  ASSUME TypesInv, [Next]_vars
  PROVE  /\ work'[Deleter].pc = "tree" => work[Deleter].pc = "tree" \/ DeleteRow
         /\ work'[Deleter].pc = "load" => work[Deleter].pc = "load" \/ DeleteTree
         /\ work'[Deleter].pc = "index" => work[Deleter].pc \in {"load", "index"}
         /\ work'[Deleter].pc \in Refreshing => work[Deleter].pc \in Refreshing \/ SaveIndex(Deleter)
         /\ work'[Deleter].pc # "drop" => victim' = victim
         /\ \A g \in deleted' \ deleted :
              g = victim /\ victim' = victim /\ (work[Deleter].pc \in Refreshing \/ SaveIndex(Deleter))
<1>. DEFINE Moves == /\ work'[Deleter].pc = "tree" => work[Deleter].pc = "tree" \/ DeleteRow
                     /\ work'[Deleter].pc = "load" => work[Deleter].pc = "load" \/ DeleteTree
                     /\ work'[Deleter].pc = "index" => work[Deleter].pc \in {"load", "index"}
                     /\ work'[Deleter].pc \in Refreshing =>
                          work[Deleter].pc \in Refreshing \/ SaveIndex(Deleter)
                     /\ work'[Deleter].pc # "drop" => victim' = victim
                     /\ \A g \in deleted' \ deleted :
                          g = victim /\ victim' = victim
                            /\ (work[Deleter].pc \in Refreshing \/ SaveIndex(Deleter))
<1>. USE AgentsAre
<1>1. ASSUME NEW s \in Scans, BeginReport(s)
      PROVE  Moves
  BY <1>1, BeginReportIs DEF Becomes, Refreshing, files, copies, ghosts, counts
<1>2. ASSUME NEW s \in Scans, NEW v \in Over, ScanEnds(s, v)
      PROVE  Moves
  BY <1>2, ScanEndsIs DEF Becomes, Refreshing, files, copies, ghosts, counts
<1>3. ASSUME NEW s \in Scans, WriteMeta(s)
      PROVE  Moves
  BY <1>3, WriteMetaIs DEF Becomes, Refreshing, files, copies, ghosts, counts
<1>4. ASSUME NEW s \in Scans, PersistRow(s)
      PROVE  Moves
  BY <1>4, PersistRowIs DEF Becomes, Refreshing, files, copies, ghosts, counts
<1>5. ASSUME NEW s \in Scans, DeleteBegins(s)
      PROVE  Moves
  BY <1>5, DeleteBeginsIs DEF Becomes, Refreshing, files, copies, ghosts, counts
<1>6. ASSUME NEW a \in Agents, LoadIndex(a)
      PROVE  Moves
  BY <1>6, LoadIndexIs DEF Becomes, Refreshing, files, copies, ghosts, counts
<1>7. ASSUME NEW a \in Agents, SaveIndex(a)
      PROVE  Moves
  BY <1>7, SaveIndexIs DEF Becomes, Refreshing, files, copies, ghosts, counts
<1>8. ASSUME NEW a \in Agents, RefreshLoads(a)
      PROVE  Moves
  BY <1>8, RefreshLoadsIs DEF Becomes, Refreshing, files, copies, ghosts, counts
<1>9. ASSUME NEW a \in Agents, RefreshRewrites(a)
      PROVE  Moves
  <2>1. /\ work[a].pc = "rewrite" /\ UNCHANGED <<victim, deleted>>
        /\ work'[a].pc \in {"rewrite", "reindex"} /\ \A b \in Agents \ {a} : work'[b] = work[b]
    BY <1>9, RefreshRewritesIs DEF Becomes, ghosts
  <2>. QED
    BY <2>1 DEF Refreshing
<1>10. ASSUME NEW a \in Agents, RefreshSaves(a)
       PROVE  Moves
  BY <1>10, RefreshSavesIs DEF Becomes, Refreshing, files, copies, ghosts, counts
<1>11. ASSUME NEW a \in Agents, Raises(a)
       PROVE  Moves
  BY <1>11, RaisesIs DEF Becomes, Refreshing, files, copies, ghosts, counts
<1>12. ASSUME DeleteRow
       PROVE  Moves
  BY <1>12, DeleteRowIs DEF Becomes, Refreshing, files, copies, ghosts, counts
<1>13. ASSUME DeleteTree
       PROVE  Moves
  BY <1>13, DeleteTreeIs DEF Becomes, Refreshing, files, copies, ghosts, counts
<1>14. ASSUME ListRows
       PROVE  Moves
  BY <1>14, ListRowsIs DEF Becomes, Refreshing, files, copies, ghosts, counts
<1>15. ASSUME ListIndex
       PROVE  Moves
  BY <1>15, ListIndexIs DEF Becomes, Refreshing, files, copies, ghosts, counts
<1>16. ASSUME ListChecks
       PROVE  Moves
  BY <1>16, ListChecksIs DEF Becomes, Refreshing, files, copies, ghosts, counts
<1>17. ASSUME ListInserts
       PROVE  Moves
  BY <1>17, ListInsertsIs DEF Becomes, Refreshing, files, copies, ghosts, counts
<1>18. ASSUME PdfPicks
       PROVE  Moves
  BY <1>18, PdfPicksIs DEF Becomes, Refreshing, files, copies, ghosts, counts
<1>19. ASSUME PdfRenders
       PROVE  Moves
  BY <1>19, PdfRendersIs DEF Becomes, Refreshing, files, copies, ghosts, counts
<1>20. ASSUME PdfPersists
       PROVE  Moves
  BY <1>20, PdfPersistsIs DEF Becomes, Refreshing, files, copies, ghosts, counts
<1>21. ASSUME Dies
       PROVE  Moves
  BY <1>21, DiesIs, IdleIs DEF Becomes, Refreshing, files, copies, ghosts, counts
<1>22. ASSUME Starts
       PROVE  Moves
  BY <1>22, StartsIs DEF Becomes, Refreshing, files, copies, ghosts, counts
<1>23. ASSUME UNCHANGED vars
       PROVE  Moves
  BY <1>23 DEF vars, Refreshing, files, copies, ghosts, counts
<1>. QED
  BY <1>1, <1>2, <1>3, <1>4, <1>5, <1>6, <1>7, <1>8, <1>9, <1>10, <1>11, <1>12, <1>13, <1>14,
     <1>15, <1>16, <1>17, <1>18, <1>19, <1>20, <1>21, <1>22, <1>23 DEF Next

\* Nobody takes up a scan that is being deleted and was left by everyone.
LEMMA UntakenStays ==
  ASSUME TypesInv, [Next]_vars, work[Deleter].pc \in {"tree", "load", "index"},
         victim \notin haunted', victim \notin DOMAIN rows, Untaken(victim)
  PROVE  /\ victim \notin DOMAIN rows' /\ work'[victim].pc \in {"done", "dead"}
         /\ victim \notin lister'.todo /\ pdf'.scan # victim
         /\ victim \notin dirs => victim \notin dirs'
<1>. DEFINE Left == /\ victim \notin DOMAIN rows' /\ work'[victim].pc \in {"done", "dead"}
                    /\ victim \notin lister'.todo /\ pdf'.scan # victim
                    /\ victim \notin dirs => victim \notin dirs'
<1>. USE AgentsAre
<1>0. /\ up /\ victim \in Scans /\ victim # NoBase /\ work[victim].pc \in {"done", "dead"}
      /\ victim \notin lister.todo /\ pdf.scan # victim
  BY DEF TypesInv, FlagsOK, WorkOK, GhostsOK, Untaken, Scans, NoBase
<1>1. ASSUME NEW s \in Scans, BeginReport(s)
      PROVE  Left
  BY <1>1, <1>0, BeginReportIs DEF Becomes, files, copies, ghosts, counts
<1>2. ASSUME NEW s \in Scans, NEW v \in Over, ScanEnds(s, v)
      PROVE  Left
  BY <1>2, <1>0, ScanEndsIs DEF Becomes, files, copies, ghosts, counts
<1>3. ASSUME NEW s \in Scans, WriteMeta(s)
      PROVE  Left
  BY <1>3, <1>0, WriteMetaIs DEF Becomes, files, copies, ghosts, counts
<1>4. ASSUME NEW s \in Scans, PersistRow(s)
      PROVE  Left
  BY <1>4, <1>0, PersistRowIs DEF Becomes, files, copies, ghosts, counts
<1>5. ASSUME NEW s \in Scans, DeleteBegins(s)
      PROVE  Left
  BY <1>5, <1>0, DeleteBeginsIs DEF Becomes, files, copies, ghosts, counts
<1>6. ASSUME NEW a \in Agents, LoadIndex(a)
      PROVE  Left
  BY <1>6, <1>0, LoadIndexIs DEF Becomes, files, copies, ghosts, counts
<1>7. ASSUME NEW a \in Agents, SaveIndex(a)
      PROVE  Left
  BY <1>7, <1>0, SaveIndexIs DEF Becomes, files, copies, ghosts, counts
<1>8. ASSUME NEW a \in Agents, RefreshLoads(a)
      PROVE  Left
  BY <1>8, <1>0, RefreshLoadsIs DEF Becomes, files, copies, ghosts, counts
<1>9. ASSUME NEW a \in Agents, RefreshRewrites(a)
      PROVE  Left
  <2>1. /\ work[a].pc = "rewrite" /\ UNCHANGED <<dirs, rows, lister, pdf>>
        /\ \A b \in Agents \ {a} : work'[b] = work[b]
    BY <1>9, RefreshRewritesIs DEF Becomes, copies
  <2>. QED
    BY <2>1, <1>0
<1>10. ASSUME NEW a \in Agents, RefreshSaves(a)
       PROVE  Left
  BY <1>10, <1>0, RefreshSavesIs DEF Becomes, files, copies, ghosts, counts
<1>11. ASSUME NEW a \in Agents, Raises(a)
       PROVE  Left
  BY <1>11, <1>0, RaisesIs DEF Becomes, files, copies, ghosts, counts
<1>12. ASSUME DeleteRow
       PROVE  Left
  BY <1>12, <1>0, DeleteRowIs DEF Becomes, files, copies, ghosts, counts
<1>13. ASSUME DeleteTree
       PROVE  Left
  BY <1>13, <1>0, DeleteTreeIs DEF Becomes, files, copies, ghosts, counts
<1>14. ASSUME ListRows
       PROVE  Left
  BY <1>14, <1>0, ListRowsIs DEF Becomes, files, copies, ghosts, counts
<1>15. ASSUME ListIndex
       PROVE  Left
  BY <1>15, <1>0, ListIndexIs, TakenUpIs DEF Becomes, files, copies, ghosts, counts
<1>16. ASSUME ListChecks
       PROVE  Left
  BY <1>16, <1>0, ListChecksIs DEF Becomes, files, copies, ghosts, counts
<1>17. ASSUME ListInserts
       PROVE  Left
  BY <1>17, <1>0, ListInsertsIs, WithoutNextIs DEF Becomes, files, copies, ghosts, counts
<1>18. ASSUME PdfPicks
       PROVE  Left
  BY <1>18, <1>0, PdfPicksIs, TakenUpIs DEF Becomes, files, copies, ghosts, counts
<1>19. ASSUME PdfRenders
       PROVE  Left
  BY <1>19, <1>0, PdfRendersIs, RestingIs DEF Becomes, files, copies, ghosts, counts
<1>20. ASSUME PdfPersists
       PROVE  Left
  BY <1>20, <1>0, PdfPersistsIs, RestingIs DEF Becomes, files, copies, ghosts, counts
<1>21. ASSUME Dies
       PROVE  Left
  <2>1. /\ lister'.todo = {} /\ pdf'.scan = NoBase /\ UNCHANGED <<dirs, rows>>
    BY <1>21, DiesIs, RestingIs DEF files, copies
  <2>2. work'[victim] = work[victim]
    BY <1>21, DiesIs, <1>0
  <2>. QED
    BY <2>1, <2>2, <1>0
<1>22. ASSUME Starts
       PROVE  Left
  BY <1>22, <1>0, StartsIs DEF Becomes, files, copies, ghosts, counts
<1>23. ASSUME UNCHANGED vars
       PROVE  Left
  BY <1>23, <1>0 DEF vars, files, copies, ghosts, counts
<1>. QED
  BY <1>1, <1>2, <1>3, <1>4, <1>5, <1>6, <1>7, <1>8, <1>9, <1>10, <1>11, <1>12, <1>13, <1>14,
     <1>15, <1>16, <1>17, <1>18, <1>19, <1>20, <1>21, <1>22, <1>23 DEF Next

\* The index entry is the last thing of a scan to go.
LEMMA EntryGoes ==
  ASSUME TypesInv, DeletionInv, SaveIndex(Deleter), victim \notin haunted'
  PROVE  victim' = victim /\ Gone(victim)'
<1>. USE AgentsAre
<1>1. /\ work[Deleter].pc = "index" /\ index' = Without(work[Deleter].snap, victim)
      /\ \A s \in Scans : work[s].pc \in Holding => victim \notin DOMAIN work[s].snap
      /\ work'[Deleter].pc \in {"refresh", "idle"} /\ \A b \in Agents \ {Deleter} : work'[b] = work[b]
      /\ UNCHANGED <<dirs, rows, lister, pdf, victim>>
  BY SaveIndexIs, EntryChangedIs DEF files, Becomes
<1>2. victim \notin haunted /\ victim \in Scans
  BY SaveIndexIs DEF TypesInv, GhostsOK
<1>3. victim \notin DOMAIN rows /\ Untaken(victim) /\ victim \notin dirs
  BY <1>1, <1>2 DEF DeletionInv
<1>4. victim \notin DOMAIN index'
  <2>1. DOMAIN index' = DOMAIN work[Deleter].snap \ {victim}
    BY <1>1, WithoutDomain
  <2>. QED
    BY <2>1
<1>5. \A b \in Agents : work'[b].pc \in Holding => victim \notin DOMAIN work'[b].snap
  BY <1>1 DEF Holding, Agents, Scans, Deleter
<1>6. work'[victim] = work[victim]
  BY <1>1, <1>2
<1>. QED
  BY <1>1, <1>3, <1>4, <1>5, <1>6 DEF Gone, Untaken

LEMMA DeletionStep == TypesInv /\ DeletionInv /\ [Next]_vars => DeletionInv'
<1>. SUFFICES ASSUME TypesInv, DeletionInv, [Next]_vars
              PROVE  DeletionInv'
  OBVIOUS
<1>. USE AgentsAre
<1>1. haunted \subseteq haunted' /\ victim \in Scans /\ deleted \subseteq Scans
  BY HauntedGrows DEF TypesInv, GhostsOK
<1>2. ASSUME victim \notin haunted', work[Deleter].pc \in Refreshing
      PROVE  Gone(victim) /\ (victim' = victim => Gone(victim)')
  <2>1. Gone(victim)
    BY <1>1, <1>2 DEF DeletionInv
  <2>2. PICK g \in Scans : g = victim
    BY <1>1
  <2>3. Gone(g)'
    BY <2>1, <2>2, GoneStays
  <2>. QED
    BY <2>1, <2>2, <2>3
<1>3. ASSUME NEW g \in deleted' \ haunted'
      PROVE  Gone(g)'
  <2>1. CASE g \in deleted
    <3>1. Gone(g) /\ g \in Scans
      BY <1>1, <1>3, <2>1 DEF DeletionInv
    <3>. QED
      BY <3>1, GoneStays
  <2>2. CASE g \notin deleted
    <3>1. g = victim /\ victim' = victim /\ (work[Deleter].pc \in Refreshing \/ SaveIndex(Deleter))
      BY <1>3, <2>2, DeleterMoves
    <3>2. Gone(victim)'
      BY <1>2, <1>3, <3>1, EntryGoes
    <3>. QED
      BY <3>1, <3>2
  <2>. QED
    BY <2>1, <2>2
<1>4. ASSUME victim' \notin haunted', work'[Deleter].pc \in {"tree", "load", "index"}
      PROVE  /\ victim' = victim
             /\ victim \notin DOMAIN rows' /\ work'[victim].pc \in {"done", "dead"}
             /\ victim \notin lister'.todo /\ pdf'.scan # victim
             /\ work'[Deleter].pc \in {"load", "index"} => victim \notin dirs'
  <2>1. victim' = victim /\ victim \notin haunted
    BY <1>1, <1>4, DeleterMoves
  <2>2. CASE work[Deleter].pc \in {"tree", "load", "index"} /\ ~DeleteTree
    <3>1. victim \notin DOMAIN rows /\ Untaken(victim)
      BY <2>1, <2>2 DEF DeletionInv
    <3>2. work'[Deleter].pc \in {"load", "index"} => victim \notin dirs
      BY <1>4, <2>1, <2>2, DeleterMoves DEF DeletionInv
    <3>. QED
      BY <1>4, <2>1, <2>2, <3>1, <3>2, UntakenStays
  <2>3. CASE DeleteTree
    <3>1. /\ work[Deleter].pc = "tree" /\ dirs' = dirs \ {victim}
          /\ UNCHANGED <<rows, lister, pdf>> /\ work'[victim] = work[victim]
      BY <1>1, <2>3, DeleteTreeIs DEF Becomes, copies
    <3>2. victim \notin DOMAIN rows /\ Untaken(victim)
      BY <2>1, <3>1 DEF DeletionInv
    <3>. QED
      BY <2>1, <3>1, <3>2 DEF Untaken
  <2>4. CASE work[Deleter].pc \notin {"tree", "load", "index"}
    <3>1. DeleteRow
      BY <1>4, <2>4, DeleteTreeIs, DeleterMoves
    <3>2. /\ work[Deleter].pc = "drop" /\ victim \notin DOMAIN rows'
          /\ work[victim].pc \in {"idle", "done", "dead"} /\ work'[Deleter].pc = "tree"
          /\ victim \notin lister.todo /\ pdf.scan # victim
          /\ work'[victim] = work[victim] /\ UNCHANGED <<lister, pdf>>
      BY <1>1, <1>4, <2>1, <3>1, DeleteRowIs DEF Becomes
    <3>3. work[victim].pc # "idle"
      BY <3>2 DEF TypesInv, GhostsOK
    <3>. QED
      BY <2>1, <3>2, <3>3
  <2>. QED
    BY <2>2, <2>3, <2>4
<1>5. ASSUME victim' \notin haunted', work'[Deleter].pc \in Refreshing
      PROVE  Gone(victim)'
  <2>1. victim' = victim
    BY <1>5, DeleterMoves DEF Refreshing
  <2>2. work[Deleter].pc \in Refreshing \/ SaveIndex(Deleter)
    BY <1>5, DeleterMoves
  <2>. QED
    BY <1>2, <1>5, <2>1, <2>2, EntryGoes
<1>. QED
  BY <1>3, <1>4, <1>5 DEF DeletionInv, Untaken

LEMMA DeletionInit == Init => DeletionInv
<1>1. Init => 1..Legacy \subseteq Scans /\ dirs = 1..Legacy
  BY ArchiveAssumption DEF Init, Scans
<1>2. Init => Deleter \notin dirs
  BY <1>1, AgentsAre
<1>3. Init => deleted = {} /\ work[Deleter].pc = "idle"
  BY <1>2, AgentsAre, IdleIs DEF Init
<1>. QED
  BY <1>3 DEF DeletionInv, Refreshing

\* A deletion answered with success is final: the directory, the index entry
\* and the row of the scan are gone for good, unless another thread held a copy of
\* the scan while it was deleted.
THEOREM DeletionIsFinal == Spec => []DeletedScansStayGone
<1>1. DeletionInv => DeletedScansStayGone
  BY DEF DeletionInv, DeletedScansStayGone, Gone, Listed
<1>. QED
  BY <1>1, TypesAreKept, DeletionInit, DeletionStep, PTL DEF Spec

-----------------------------------------------------------------------------
(* Finished reports stay listed.                                            *)

LEMMA ListedStays ==
  ASSUME TypesInv, ListedInv, [Next]_vars, NEW r \in Scans \ asked', work'[r].pc = "done"
  PROVE  r \in DOMAIN rows' \/ (~indexed' /\ r \in DOMAIN meta')
<1>. DEFINE Stays == r \in DOMAIN rows' \/ (~indexed' /\ r \in DOMAIN meta')
<1>. USE AgentsAre
<1>0. r \notin asked /\ work[r].pc = "done" => r \in DOMAIN rows \/ (~indexed /\ r \in DOMAIN meta)
  BY DEF ListedInv
<1>1. ASSUME NEW s \in Scans, BeginReport(s)
      PROVE  Stays
  BY <1>1, <1>0, BeginReportIs DEF Becomes, files, copies, ghosts, counts
<1>2. ASSUME NEW s \in Scans, NEW v \in Over, ScanEnds(s, v)
      PROVE  Stays
  BY <1>2, <1>0, ScanEndsIs DEF Becomes, files, copies, ghosts, counts
<1>3. ASSUME NEW s \in Scans, WriteMeta(s)
      PROVE  Stays
  <2>1. /\ work'[s].pc = "load" /\ \A b \in Agents \ {s} : work'[b] = work[b]
        /\ UNCHANGED <<rows, indexed, asked>>
    BY <1>3, WriteMetaIs DEF Becomes, copies, ghosts
  <2>2. meta' = Put(meta, s, meta'[s])
    BY <1>3, WriteMetaIs
  <2>3. DOMAIN meta' = DOMAIN meta \union {s}
    BY <2>2, PutDomain
  <2>. QED
    BY <2>1, <2>3, <1>0
<1>4. ASSUME NEW s \in Scans, PersistRow(s)
      PROVE  Stays
  BY <1>4, <1>0, PersistRowIs DEF Becomes, files, copies, ghosts, counts
<1>5. ASSUME NEW s \in Scans, DeleteBegins(s)
      PROVE  Stays
  BY <1>5, <1>0, DeleteBeginsIs DEF Becomes, files, copies, ghosts, counts
<1>6. ASSUME NEW a \in Agents, LoadIndex(a)
      PROVE  Stays
  BY <1>6, <1>0, LoadIndexIs DEF Becomes, files, copies, ghosts, counts
<1>7. ASSUME NEW a \in Agents, SaveIndex(a)
      PROVE  Stays
  BY <1>7, <1>0, SaveIndexIs DEF Becomes, files, copies, ghosts, counts
<1>8. ASSUME NEW a \in Agents, RefreshLoads(a)
      PROVE  Stays
  BY <1>8, <1>0, RefreshLoadsIs DEF Becomes, files, copies, ghosts, counts
<1>9. ASSUME NEW a \in Agents, RefreshRewrites(a)
      PROVE  Stays
  <2>1. /\ work'[a].pc \in {"rewrite", "reindex"} /\ \A b \in Agents \ {a} : work'[b] = work[b]
        /\ UNCHANGED <<rows, indexed, asked>>
    BY <1>9, RefreshRewritesIs DEF Becomes, copies, ghosts
  <2>2. up /\ indexed
    BY <1>9, RefreshRewritesIs DEF TypesInv, FlagsOK
  <2>. QED
    BY <2>1, <2>2, <1>0
<1>10. ASSUME NEW a \in Agents, RefreshSaves(a)
       PROVE  Stays
  BY <1>10, <1>0, RefreshSavesIs DEF Becomes, files, copies, ghosts, counts
<1>11. ASSUME NEW a \in Agents, Raises(a)
       PROVE  Stays
  BY <1>11, <1>0, RaisesIs DEF Becomes, files, copies, ghosts, counts
<1>12. ASSUME DeleteRow
       PROVE  Stays
  <2>1. /\ work'[r] = work[r] /\ DOMAIN rows' = DOMAIN rows \ {victim} /\ victim \in asked
        /\ UNCHANGED <<meta, indexed, asked>>
    BY <1>12, DeleteRowIs DEF Becomes, files, TypesInv, GhostsOK
  <2>. QED
    BY <2>1, <1>0
<1>13. ASSUME DeleteTree
       PROVE  Stays
  <2>1. /\ work'[r] = work[r] /\ DOMAIN meta' = DOMAIN meta \ {victim} /\ victim \in asked
        /\ UNCHANGED <<rows, indexed, asked>>
    BY <1>13, DeleteTreeIs DEF Becomes, copies, ghosts, TypesInv, GhostsOK
  <2>. QED
    BY <2>1, <1>0
<1>14. ASSUME ListRows
       PROVE  Stays
  BY <1>14, <1>0, ListRowsIs DEF Becomes, files, copies, ghosts, counts
<1>15. ASSUME ListIndex
       PROVE  Stays
  BY <1>15, <1>0, ListIndexIs DEF Becomes, files, copies, ghosts, counts
<1>16. ASSUME ListChecks
       PROVE  Stays
  BY <1>16, <1>0, ListChecksIs DEF Becomes, files, copies, ghosts, counts
<1>17. ASSUME ListInserts
       PROVE  Stays
  BY <1>17, <1>0, ListInsertsIs DEF Becomes, files, copies, ghosts, counts
<1>18. ASSUME PdfPicks
       PROVE  Stays
  BY <1>18, <1>0, PdfPicksIs DEF Becomes, files, copies, ghosts, counts
<1>19. ASSUME PdfRenders
       PROVE  Stays
  BY <1>19, <1>0, PdfRendersIs DEF Becomes, files, copies, ghosts, counts
<1>20. ASSUME PdfPersists
       PROVE  Stays
  BY <1>20, <1>0, PdfPersistsIs DEF Becomes, files, copies, ghosts, counts
<1>21. ASSUME Dies
       PROVE  Stays
  BY <1>21, <1>0, DiesIs DEF Becomes, files, copies, ghosts, counts
<1>22. ASSUME Starts
       PROVE  Stays
  BY <1>22, <1>0, StartsIs DEF Becomes, files, copies, ghosts, counts
<1>23. ASSUME UNCHANGED vars
       PROVE  Stays
  BY <1>23, <1>0 DEF vars, files, copies, ghosts, counts
<1>. QED
  BY <1>1, <1>2, <1>3, <1>4, <1>5, <1>6, <1>7, <1>8, <1>9, <1>10, <1>11, <1>12, <1>13, <1>14,
     <1>15, <1>16, <1>17, <1>18, <1>19, <1>20, <1>21, <1>22, <1>23 DEF Next

LEMMA ListedStep == TypesInv /\ ListedInv /\ [Next]_vars => ListedInv'
<1>. SUFFICES ASSUME TypesInv, ListedInv, [Next]_vars
              PROVE  ListedInv'
  OBVIOUS
<1>1. ASSUME NEW r \in Scans \ asked', work'[r].pc = "done"
      PROVE  r \in DOMAIN rows' \/ (~indexed' /\ r \in DOMAIN meta')
  BY <1>1, ListedStays
<1>. QED
  BY <1>1 DEF ListedInv

LEMMA ListedInit == Init => ListedInv
<1>. SUFFICES ASSUME Init
              PROVE  ListedInv
  OBVIOUS
<1>1. \A s \in Scans : work[s].pc = "done" => s \in dirs
  BY AgentsAre, IdleIs DEF Init
<1>2. DOMAIN meta = dirs /\ ~indexed
  BY DEF Init
<1>. QED
  BY <1>1, <1>2 DEF ListedInv

-----------------------------------------------------------------------------
(* The index agrees with the disk.                                          *)

Unsettled == {"load", "index", "rewrite", "reindex"}

LEMMA AgentsSplit == \A b : b \in Agents <=> b = Deleter \/ b \in Scans
BY ArchiveAssumption DEF Agents, Scans, Deleter

LEMMA MovingIs ==
  \A t \in Scans : t \in Moving <=> \/ work[t].pc \in {"load", "index"}
                                    \/ t = victim /\ work[Deleter].pc \in {"load", "index"}
BY AgentsSplit, AgentsAre DEF Moving, Subject

LEMMA MovingNext ==
  \A t \in Scans : t \in Moving' <=> \/ work'[t].pc \in {"load", "index"}
                                     \/ t = victim' /\ work'[Deleter].pc \in {"load", "index"}
BY AgentsSplit, AgentsAre DEF Moving, Subject

LEMMA SameHalf ==
  ASSUME NEW b \in Agents, work'[b] = work[b],
         victim' = victim \/ b # Deleter \/ work[b].pc \notin {"load", "index"}
  PROVE  HalfWritten(b)' = HalfWritten(b) /\ Rewritten(b)' = Rewritten(b)
BY DEF HalfWritten, Rewritten

LEMMA NothingHalf ==
  ASSUME NEW b \in Agents
  PROVE  /\ work[b].pc \notin Unsettled => HalfWritten(b) = {}
         /\ work'[b].pc \notin Unsettled => HalfWritten(b)' = {}
         /\ work[b].pc \in {"load", "index"} => HalfWritten(b) = {Subject(b)}
         /\ work'[b].pc \in {"load", "index"} => HalfWritten(b)' = {Subject(b)'}
BY DEF HalfWritten, Subject, Unsettled

\* Steps of agents that hold no copy, and of the readers.
LEMMA QuietStep ==
  ASSUME TypesInv, IndexInv,
         meta' = meta, index' = index, indexed' = indexed, stale' = stale, lost' = lost,
         haunted \subseteq haunted', torn \subseteq torn',
         \A b \in Agents :
           work'[b] = work[b] \/ (work[b].pc \notin Unsettled /\ work'[b].pc \notin Unsettled),
         victim' = victim \/ (work[Deleter].pc \notin Unsettled /\ work'[Deleter].pc \notin Unsettled)
  PROVE  IndexInv'
<1>. SUFFICES ASSUME ~lost
              PROVE  /\ indexed => MembersMatch' /\ ContentsMatch'
                     /\ OwnIsSaved' /\ HeldIsCurrent' /\ RewrittenIsSaved'
  BY DEF IndexInv
<1>. USE AgentsAre
<1>1. \A b \in Agents : /\ HalfWritten(b)' = HalfWritten(b)
                        /\ work[b].pc \in Unsettled \/ work'[b].pc \in Unsettled =>
                              work'[b] = work[b] /\ Rewritten(b)' = Rewritten(b)
  <2>1. ASSUME NEW b \in Agents, work'[b] = work[b]
        PROVE  HalfWritten(b)' = HalfWritten(b) /\ Rewritten(b)' = Rewritten(b)
    <3>1. victim' = victim \/ b # Deleter \/ work[b].pc \notin {"load", "index"}
      BY DEF Unsettled
    <3>. QED
      BY <2>1, <3>1, SameHalf
  <2>2. ASSUME NEW b \in Agents, work[b].pc \notin Unsettled, work'[b].pc \notin Unsettled
        PROVE  HalfWritten(b)' = HalfWritten(b)
    BY <2>2, NothingHalf
  <2>. QED
    BY <2>1, <2>2
<1>2. \A t \in Scans : t \in Moving' <=> t \in Moving
  <2>1. \A t \in Scans : work'[t].pc \in {"load", "index"} <=> work[t].pc \in {"load", "index"}
    BY DEF Unsettled
  <2>2. \A t \in Scans : t = victim' /\ work'[Deleter].pc \in {"load", "index"}
                          <=> t = victim /\ work[Deleter].pc \in {"load", "index"}
    BY DEF Unsettled
  <2>. QED
    BY <2>1, <2>2, MovingIs, MovingNext
<1>3. Off \subseteq Off'
  BY DEF Off
<1>4. ASSUME indexed
      PROVE  MembersMatch'
  BY <1>2, <1>3, <1>4 DEF IndexInv, MembersMatch
<1>5. ASSUME indexed
      PROVE  ContentsMatch'
  BY <1>1, <1>3, <1>5 DEF IndexInv, ContentsMatch
<1>6. OwnIsSaved'
  BY <1>1 DEF IndexInv, OwnIsSaved, Unsettled
<1>7. HeldIsCurrent'
  BY <1>1 DEF IndexInv, HeldIsCurrent, Unsettled, Holding
<1>8. RewrittenIsSaved'
  BY <1>1, <1>3 DEF IndexInv, RewrittenIsSaved, Unsettled
<1>. QED
  BY <1>4, <1>5, <1>6, <1>7, <1>8

LEMMA QuietActions ==
  ASSUME TypesInv, IndexInv,
         \/ \E s \in Scans : \/ BeginReport(s) \/ PersistRow(s) \/ DeleteBegins(s)
                           \/ \E v \in Over : ScanEnds(s, v)
         \/ DeleteRow \/ ListRows \/ ListIndex \/ ListChecks \/ ListInserts
         \/ PdfPicks \/ PdfRenders \/ PdfPersists \/ UNCHANGED vars
  PROVE  IndexInv'
<1>. USE AgentsAre
<1>. DEFINE Quiet ==
       /\ meta' = meta /\ index' = index /\ indexed' = indexed /\ stale' = stale /\ lost' = lost
       /\ haunted \subseteq haunted' /\ torn \subseteq torn'
       /\ \A b \in Agents :
            work'[b] = work[b] \/ (work[b].pc \notin Unsettled /\ work'[b].pc \notin Unsettled)
       /\ victim' = victim \/ (work[Deleter].pc \notin Unsettled /\ work'[Deleter].pc \notin Unsettled)
<1>1. ASSUME NEW s \in Scans, BeginReport(s)
      PROVE  Quiet
  BY <1>1, BeginReportIs DEF Becomes, Unsettled, files, copies, ghosts, counts
<1>2. ASSUME NEW s \in Scans, NEW v \in Over, ScanEnds(s, v)
      PROVE  Quiet
  BY <1>2, ScanEndsIs DEF Becomes, Unsettled, files, copies, ghosts, counts
<1>3. ASSUME NEW s \in Scans, PersistRow(s)
      PROVE  Quiet
  BY <1>3, PersistRowIs DEF Becomes, Unsettled, files, copies, ghosts, counts
<1>4. ASSUME NEW s \in Scans, DeleteBegins(s)
      PROVE  Quiet
  BY <1>4, DeleteBeginsIs DEF Becomes, Unsettled, files, copies, ghosts, counts
<1>5. ASSUME DeleteRow
      PROVE  Quiet
  BY <1>5, DeleteRowIs DEF Becomes, Unsettled, files, copies, ghosts, counts
<1>6. ASSUME ListRows
      PROVE  Quiet
  BY <1>6, ListRowsIs DEF Becomes, Unsettled, files, copies, ghosts, counts
<1>7. ASSUME ListIndex
      PROVE  Quiet
  BY <1>7, ListIndexIs, TakenUpIs DEF Becomes, Unsettled, files, copies, ghosts, counts
<1>8. ASSUME ListChecks
      PROVE  Quiet
  BY <1>8, ListChecksIs DEF Becomes, Unsettled, files, copies, ghosts, counts
<1>9. ASSUME ListInserts
      PROVE  Quiet
  BY <1>9, ListInsertsIs DEF Becomes, Unsettled, files, copies, ghosts, counts
<1>10. ASSUME PdfPicks
       PROVE  Quiet
  BY <1>10, PdfPicksIs, TakenUpIs DEF Becomes, Unsettled, files, copies, ghosts, counts
<1>11. ASSUME PdfRenders
       PROVE  Quiet
  BY <1>11, PdfRendersIs DEF Becomes, Unsettled, files, copies, ghosts, counts
<1>12. ASSUME PdfPersists
       PROVE  Quiet
  BY <1>12, PdfPersistsIs DEF Becomes, Unsettled, files, copies, ghosts, counts
<1>13. ASSUME UNCHANGED vars
       PROVE  Quiet
  BY <1>13 DEF vars, files, copies, ghosts, counts
<1>14. Quiet
  BY <1>1, <1>2, <1>3, <1>4, <1>5, <1>6, <1>7, <1>8, <1>9, <1>10, <1>11, <1>12, <1>13
<1>. QED
  BY <1>14, QuietStep

LEMMA IndexHolds ==
  ASSUME TypesInv, IndexInv, ~lost, up
  PROVE  /\ indexed /\ MembersMatch /\ ContentsMatch /\ OwnIsSaved /\ HeldIsCurrent /\ RewrittenIsSaved
BY DEF TypesInv, FlagsOK, IndexInv

LEMMA WriteMetaIndex ==
  ASSUME TypesInv, IndexInv, ~lost, NEW s \in Scans, WriteMeta(s)
  PROVE  IndexInv'
<1>. USE AgentsAre
<1>0. indexed /\ MembersMatch /\ ContentsMatch /\ OwnIsSaved /\ HeldIsCurrent /\ RewrittenIsSaved
  BY WriteMetaIs, IndexHolds
<1>1. /\ work[s].pc = "meta" /\ work'[s].pc = "load" /\ work'[s].own = Only(s, meta'[s])
      /\ \A b \in Agents \ {s} : work'[b] = work[b]
      /\ UNCHANGED <<index, indexed, stale, victim, torn, haunted>>
  BY WriteMetaIs DEF Becomes, copies, ghosts
<1>2. meta' = Put(meta, s, meta'[s])
  BY WriteMetaIs
<1>3. DOMAIN meta' = DOMAIN meta \union {s}
  BY <1>2, PutDomain
<1>4. \A t \in DOMAIN meta \ {s} : meta'[t] = meta[t]
  BY <1>2, PutElsewhere
<1>5. /\ HalfWritten(s) = {} /\ HalfWritten(s)' = {s}
      /\ \A b \in Agents \ {s} : HalfWritten(b)' = HalfWritten(b) /\ Rewritten(b)' = Rewritten(b)
  <2>1. HalfWritten(s) = {} /\ HalfWritten(s)' = {s}
    BY <1>1, NothingHalf DEF Subject, Unsettled
  <2>. QED
    BY <1>1, <2>1, SameHalf
<1>6. Off' = Off /\ \A t \in Scans \ {s} : t \in Moving' <=> t \in Moving
  BY <1>1, MovingIs, MovingNext DEF Off
<1>7. s \in Moving'
  BY <1>1, MovingNext
<1>8. MembersMatch'
  BY <1>0, <1>1, <1>3, <1>6, <1>7 DEF MembersMatch
<1>9. ContentsMatch'
  BY <1>0, <1>1, <1>3, <1>4, <1>5, <1>6 DEF ContentsMatch
<1>10. OwnIsSaved'
  <2>1. PICK m : m = meta'[s]
    OBVIOUS
  <2>2. work'[s].own = Only(s, m)
    BY <1>1, <2>1
  <2>3. work'[s].own[s] = m
    BY <2>2, OnlyIs
  <2>. QED
    BY <1>0, <1>1, <1>3, <1>4, <2>1, <2>3 DEF OwnIsSaved
<1>11. HeldIsCurrent'
  BY <1>0, <1>1, <1>5 DEF HeldIsCurrent, Holding
<1>12. RewrittenIsSaved'
  BY <1>0, <1>1, <1>3, <1>4, <1>5, <1>6 DEF RewrittenIsSaved
<1>. QED
  BY <1>8, <1>9, <1>10, <1>11, <1>12 DEF IndexInv

LEMMA DeleteTreeIndex ==
  ASSUME TypesInv, DeletionInv, IndexInv, ~lost, DeleteTree
  PROVE  IndexInv'
<1>. USE AgentsAre
<1>0. indexed /\ MembersMatch /\ ContentsMatch /\ OwnIsSaved /\ HeldIsCurrent /\ RewrittenIsSaved
  BY DeleteTreeIs, IndexHolds
<1>1. /\ work[Deleter].pc = "tree" /\ work'[Deleter].pc = "load" /\ victim \in Scans
      /\ \A b \in Agents \ {Deleter} : work'[b] = work[b]
      /\ UNCHANGED <<index, indexed, stale, victim, torn, haunted>>
  BY DeleteTreeIs DEF Becomes, copies, ghosts
<1>2. meta' = Without(meta, victim) /\ DOMAIN meta' = DOMAIN meta \ {victim}
  BY DeleteTreeIs
<1>3. \A t \in DOMAIN meta \ {victim} : meta'[t] = meta[t]
  BY <1>2, WithoutElsewhere
<1>4. /\ HalfWritten(Deleter) = {} /\ HalfWritten(Deleter)' = {victim}
      /\ \A b \in Agents \ {Deleter} : HalfWritten(b)' = HalfWritten(b) /\ Rewritten(b)' = Rewritten(b)
  <2>1. HalfWritten(Deleter) = {} /\ HalfWritten(Deleter)' = {victim}
    BY <1>1, NothingHalf DEF Subject, Unsettled
  <2>. QED
    BY <1>1, <2>1, SameHalf
<1>5. Off' = Off /\ victim \in Moving' /\ \A t \in Scans \ {victim} : t \in Moving' <=> t \in Moving
  BY <1>1, MovingIs, MovingNext DEF Off
<1>6. victim \in haunted \/ work[victim].pc \in {"done", "dead"}
  BY <1>1 DEF DeletionInv, Untaken
<1>7. MembersMatch'
  BY <1>0, <1>1, <1>2, <1>5 DEF MembersMatch
<1>8. ContentsMatch'
  BY <1>0, <1>1, <1>2, <1>3, <1>4, <1>5 DEF ContentsMatch
<1>9. OwnIsSaved'
  BY <1>0, <1>1, <1>2, <1>3, <1>6 DEF OwnIsSaved
<1>10. HeldIsCurrent'
  BY <1>0, <1>1, <1>4 DEF HeldIsCurrent, Holding
<1>11. RewrittenIsSaved'
  BY <1>0, <1>1, <1>2, <1>3, <1>4, <1>5 DEF RewrittenIsSaved
<1>. QED
  BY <1>7, <1>8, <1>9, <1>10, <1>11 DEF IndexInv

LEMMA LoadIndexIndex ==
  ASSUME TypesInv, IndexInv, ~lost, NEW a \in Agents, LoadIndex(a)
  PROVE  IndexInv'
<1>. USE AgentsAre
<1>0. indexed /\ MembersMatch /\ ContentsMatch /\ OwnIsSaved /\ HeldIsCurrent /\ RewrittenIsSaved
  BY LoadIndexIs, IndexHolds
<1>1. /\ work[a].pc = "load" /\ work'[a].pc = "index" /\ work'[a].own = work[a].own
      /\ work'[a].snap = index /\ stale' = stale \ {a}
      /\ \A b \in Agents \ {a} : work'[b] = work[b]
      /\ UNCHANGED <<index, indexed, meta, victim, torn, haunted>>
  BY LoadIndexIs DEF Becomes, files, copies, ghosts
<1>2. /\ \A b \in Agents : HalfWritten(b)' = HalfWritten(b)
      /\ \A b \in Agents \ {a} : Rewritten(b)' = Rewritten(b)
  <2>1. HalfWritten(a)' = HalfWritten(a)
    BY <1>1, NothingHalf DEF Subject
  <2>. QED
    BY <1>1, <2>1, SameHalf
<1>3. Off' = Off /\ \A t \in Scans : t \in Moving' <=> t \in Moving
  BY <1>1, MovingIs, MovingNext DEF Off
<1>4. MembersMatch'
  BY <1>0, <1>1, <1>3 DEF MembersMatch
<1>5. ContentsMatch'
  BY <1>0, <1>1, <1>2, <1>3 DEF ContentsMatch
<1>6. OwnIsSaved'
  BY <1>0, <1>1 DEF OwnIsSaved
<1>7. HeldIsCurrent'
  <2>1. ASSUME NEW b \in Agents \ stale', work'[b].pc \in Holding
        PROVE  /\ DOMAIN work'[b].snap = DOMAIN index
               /\ \A s \in DOMAIN index : work'[b].snap[s].stamp = index[s].stamp
               /\ work'[b].pc = "index" => work'[b].snap = index
               /\ work'[b].pc # "index" => \A s \in DOMAIN index \ Rewritten(b)' : work'[b].snap[s] = index[s]
    <3>1. CASE b = a
      BY <1>1, <3>1
    <3>2. CASE b # a
      BY <1>0, <1>1, <1>2, <2>1, <3>2 DEF HeldIsCurrent
    <3>. QED
      BY <3>1, <3>2
  <2>. QED
    BY <1>1, <2>1 DEF HeldIsCurrent
<1>8. RewrittenIsSaved'
  BY <1>0, <1>1, <1>2, <1>3 DEF RewrittenIsSaved
<1>. QED
  BY <1>4, <1>5, <1>6, <1>7, <1>8 DEF IndexInv

LEMMA SaveIndexIndex ==
  ASSUME TypesInv, DeletionInv, IndexInv, ~lost', NEW a \in Agents, SaveIndex(a)
  PROVE  IndexInv'
<1>. USE AgentsAre
<1>0. ~lost /\ a \notin stale /\ a \notin stale'
  BY SaveIndexIs, OvertakeIs
<1>1. indexed /\ MembersMatch /\ ContentsMatch /\ OwnIsSaved /\ HeldIsCurrent /\ RewrittenIsSaved
  BY <1>0, SaveIndexIs, IndexHolds
<1>2. /\ work[a].pc = "index" /\ work'[a].pc \in {"refresh", "idle"}
      /\ \A b \in Agents \ {a} : work'[b] = work[b]
      /\ haunted \subseteq haunted' /\ UNCHANGED <<indexed, meta, victim, torn>>
  BY SaveIndexIs DEF Becomes, files
<1>3. work[a].snap = index
  BY <1>0, <1>1, <1>2 DEF HeldIsCurrent, Holding
<1>4. \A t \in Scans : t \in Moving' => t \in Moving
  BY <1>2, MovingIs, MovingNext
<1>5. \A t \in Scans : t \in Moving /\ t # Subject(a) => t \in Moving'
  BY <1>2, MovingIs, MovingNext DEF Subject
<1>6. HalfWritten(a) = {Subject(a)} /\ HalfWritten(a)' = {}
  BY <1>2, NothingHalf DEF Unsettled
<1>7. \A b \in Agents \ {a} : HalfWritten(b)' = HalfWritten(b)
  BY <1>2, SameHalf
<1>8. Off \subseteq Off' /\ haunted' \subseteq Off'
  BY <1>2 DEF Off
<1>9. /\ DOMAIN index' \ {Subject(a)} = DOMAIN index \ {Subject(a)}
      /\ \A t \in DOMAIN index \ {Subject(a)} : index'[t] = index[t]
      /\ Subject(a) \in Scans
      /\ Subject(a) \notin haunted' /\ Subject(a) \in DOMAIN index' =>
           Subject(a) \in DOMAIN meta /\ index'[Subject(a)] = meta[Subject(a)]
      /\ Subject(a) \notin haunted' /\ Subject(a) \notin DOMAIN index' => Subject(a) \notin DOMAIN meta
  <2>1. CASE a = Deleter
    <3>1. index' = Without(index, victim) /\ Subject(a) = victim
      BY <1>2, <1>3, <2>1, SaveIndexIs, EntryChangedIs DEF Subject
    <3>2. DOMAIN index' = DOMAIN index \ {victim}
      BY <3>1, WithoutDomain
    <3>3. \A t \in DOMAIN index \ {victim} : index'[t] = index[t]
      BY <3>1, WithoutElsewhere
    <3>4. victim \in haunted' \/ victim \notin DOMAIN meta
      BY <1>2, <2>1 DEF DeletionInv, TypesInv, FilesOK
    <3>. QED
      BY <3>1, <3>2, <3>3, <3>4 DEF TypesInv, GhostsOK
  <2>2. CASE a # Deleter
    <3>1. index' = Put(index, a, work[a].own[a]) /\ Subject(a) = a /\ a \in Scans
      BY <1>2, <1>3, <2>2, SaveIndexIs, EntryChangedIs DEF Subject
    <3>2. DOMAIN index' = DOMAIN index \union {a}
      BY <3>1, PutDomain
    <3>3. \A t \in DOMAIN index \ {a} : index'[t] = index[t]
      BY <3>1, PutElsewhere
    <3>4. index'[a] = work[a].own[a]
      BY <3>1, PutHere
    <3>5. a \in haunted \/ (a \in DOMAIN meta /\ meta[a] = work[a].own[a])
      BY <1>1, <1>2, <3>1 DEF OwnIsSaved
    <3>. QED
      BY <1>2, <3>1, <3>2, <3>3, <3>4, <3>5
  <2>. QED
    BY <2>1, <2>2
<1>10. ASSUME NEW t \in Scans \ (Off' \union Moving')
      PROVE  t \in DOMAIN index' <=> t \in DOMAIN meta
  <2>1. CASE t = Subject(a)
    BY <1>8, <1>9, <1>10, <2>1
  <2>2. CASE t # Subject(a)
    <3>1. t \notin Off /\ t \notin Moving
      BY <1>5, <1>8, <1>10, <2>2
    <3>. QED
      BY <1>1, <1>9, <2>2, <3>1 DEF MembersMatch
  <2>. QED
    BY <2>1, <2>2
<1>11. ASSUME NEW t \in Scans \ Off'
       PROVE  \/ \E b \in Agents : t \in HalfWritten(b)'
              \/ t \in DOMAIN index' \intersect DOMAIN meta => index'[t] = meta[t]
  <2>1. CASE t = Subject(a)
    BY <1>8, <1>9, <1>11, <2>1
  <2>2. CASE t # Subject(a)
    <3>1. t \notin Off
      BY <1>8, <1>11
    <3>2. \A b \in Agents : t \in HalfWritten(b) => b # a
      BY <1>6, <2>2
    <3>. QED
      BY <1>1, <1>7, <1>9, <1>11, <2>2, <3>1, <3>2 DEF ContentsMatch
  <2>. QED
    BY <2>1, <2>2
<1>12. OwnIsSaved'
  BY <1>1, <1>2 DEF OwnIsSaved
<1>13. \A b \in Agents \ stale' : work'[b].pc \notin Holding
  BY <1>0, <1>2, SaveIndexIs, OvertakeIs DEF Holding
<1>14. HeldIsCurrent' /\ RewrittenIsSaved'
  BY <1>13 DEF HeldIsCurrent, RewrittenIsSaved, Holding
<1>15. MembersMatch' /\ ContentsMatch'
  BY <1>2, <1>10, <1>11 DEF MembersMatch, ContentsMatch
<1>. QED
  BY <1>12, <1>14, <1>15 DEF IndexInv

LEMMA RefreshLoadsIndex ==
  ASSUME TypesInv, TypesInv', IndexInv, ~lost, NEW a \in Agents, RefreshLoads(a)
  PROVE  IndexInv'
<1>. USE AgentsAre
<1>0. indexed /\ MembersMatch /\ ContentsMatch /\ OwnIsSaved /\ HeldIsCurrent /\ RewrittenIsSaved
  BY RefreshLoadsIs, IndexHolds
<1>1. /\ work[a].pc = "refresh" /\ stale' = stale \ {a}
      /\ \A b \in Agents \ {a} : work'[b] = work[b]
      /\ \/ work'[a].pc \in {"idle", "row"}
         \/ /\ work'[a].pc = "rewrite" /\ work'[a].snap = index /\ work'[a].todo = ToRefresh(a)
      /\ UNCHANGED <<index, indexed, meta, victim, torn, haunted>>
  BY RefreshLoadsIs DEF Becomes, files, copies
<1>2. /\ HalfWritten(a) = {}
      /\ \A b \in Agents \ {a} : HalfWritten(b)' = HalfWritten(b) /\ Rewritten(b)' = Rewritten(b)
  <2>1. HalfWritten(a) = {}
    BY <1>1, NothingHalf DEF Unsettled
  <2>. QED
    BY <1>1, <2>1, SameHalf
<1>3. work'[a].pc = "rewrite" => Rewritten(a)' = {}
  <2>1. ASSUME work'[a].pc = "rewrite"
        PROVE  HalfWritten(a)' = work'[a].todo
    BY <1>1, <2>1 DEF HalfWritten, ToRefresh
  <2>. QED
    BY <2>1 DEF Rewritten
<1>4. Off' = Off /\ \A t \in Scans : t \in Moving' <=> t \in Moving
  BY <1>1, MovingIs, MovingNext DEF Off
<1>5. MembersMatch'
  BY <1>0, <1>1, <1>4 DEF MembersMatch
<1>6. ContentsMatch'
  BY <1>0, <1>1, <1>2, <1>4 DEF ContentsMatch
<1>7. OwnIsSaved'
  BY <1>0, <1>1 DEF OwnIsSaved
<1>8. HeldIsCurrent'
  <2>1. ASSUME NEW b \in Agents \ stale', work'[b].pc \in Holding
        PROVE  /\ DOMAIN work'[b].snap = DOMAIN index
               /\ \A s \in DOMAIN index : work'[b].snap[s].stamp = index[s].stamp
               /\ work'[b].pc = "index" => work'[b].snap = index
               /\ work'[b].pc # "index" => \A s \in DOMAIN index \ Rewritten(b)' : work'[b].snap[s] = index[s]
    <3>1. CASE b = a
      BY <1>1, <2>1, <3>1 DEF Holding
    <3>2. CASE b # a
      BY <1>0, <1>1, <1>2, <2>1, <3>2 DEF HeldIsCurrent
    <3>. QED
      BY <3>1, <3>2
  <2>. QED
    BY <1>1, <2>1 DEF HeldIsCurrent
<1>9. RewrittenIsSaved'
  <2>1. ASSUME NEW b \in Agents \ stale', work'[b].pc \in {"rewrite", "reindex"},
               NEW t \in Rewritten(b)' \ Off'
        PROVE  \/ t \notin DOMAIN meta
               \/ \E c \in Agents \ {b} : t \in HalfWritten(c)'
               \/ work'[b].snap[t] = meta[t]
    <3>1. b # a
      BY <1>1, <1>3, <2>1
    <3>. QED
      BY <1>0, <1>1, <1>2, <1>4, <2>1, <3>1 DEF RewrittenIsSaved
  <2>. QED
    BY <1>1, <2>1 DEF RewrittenIsSaved
<1>. QED
  BY <1>5, <1>6, <1>7, <1>8, <1>9 DEF IndexInv

LEMMA RewrittenMore ==
  ASSUME TypesInv, NEW a \in Agents, work[a].pc = "rewrite",
         NEW s \in work[a].todo, s \in HalfWritten(a), NEW d \in Meta, d.stamp = work[a].snap[s].stamp,
         victim' = victim, NEW pc \in {"rewrite", "reindex"}, NEW own,
         Becomes(a, pc, own, Put(work[a].snap, s, d), work[a].todo \ {s})
  PROVE  /\ work'[a].snap[s] = d /\ DOMAIN work'[a].snap = DOMAIN work[a].snap
         /\ \A t \in DOMAIN work[a].snap \ {s} : work'[a].snap[t] = work[a].snap[t]
         /\ \A t \in DOMAIN work[a].snap : work'[a].snap[t].stamp = work[a].snap[t].stamp
         /\ HalfWritten(a)' = HalfWritten(a) /\ Rewritten(a)' = Rewritten(a) \union {s}
<1>1. s \in DOMAIN work[a].snap
  BY HalfWrittenIs
<1>2. PICK g : g = Put(work[a].snap, s, d)
  OBVIOUS
<1>3. work'[a].snap = g /\ work'[a].pc \in {"rewrite", "reindex"} /\ work'[a].todo = work[a].todo \ {s}
  BY <1>2 DEF Becomes
<1>4. DOMAIN g = DOMAIN work[a].snap \union {s}
  BY <1>2, PutDomain
<1>5. DOMAIN g = DOMAIN work[a].snap
  BY <1>1, <1>4
<1>6. g[s] = d
  BY <1>2, PutHere
<1>7. \A t \in DOMAIN work[a].snap \ {s} : g[t] = work[a].snap[t]
  BY <1>2, PutElsewhere
<1>8. \A t \in DOMAIN g : g[t].stamp = work[a].snap[t].stamp
  BY <1>5, <1>6, <1>7
<1>9. Last(g, DOMAIN g) = Last(work[a].snap, DOMAIN work[a].snap)
  BY <1>5, <1>8, SameOrder
<1>10. HalfWritten(a)' = IF a = Deleter THEN DOMAIN g ELSE {Last(g, DOMAIN g)}
  BY <1>3 DEF HalfWritten
<1>11. HalfWritten(a)' = HalfWritten(a)
  BY <1>5, <1>9, <1>10, HalfWrittenIs
<1>12. Rewritten(a)' = Rewritten(a) \union {s}
  BY <1>3, <1>11 DEF Rewritten
<1>. QED
  BY <1>3, <1>5, <1>6, <1>7, <1>8, <1>11, <1>12

LEMMA RefreshRewritesIndex ==
  ASSUME TypesInv, IndexInv, ~lost', NEW a \in Agents, RefreshRewrites(a)
  PROVE  IndexInv'
<1>. USE AgentsAre
<1>1. PICK s \in work[a].todo, d \in Meta :
        /\ s \in HalfWritten(a) /\ s \in DOMAIN work[a].snap
        /\ d.stamp = work[a].snap[s].stamp
        /\ meta' = IF s \in DOMAIN meta THEN Put(meta, s, d) ELSE meta
        /\ lost' = (lost \/ work[s].pc \in {"load", "index"})
        /\ Becomes(a, IF work[a].todo = {s} THEN "reindex" ELSE "rewrite", work[a].own,
                   Put(work[a].snap, s, d), work[a].todo \ {s})
  BY RefreshRewritesIs
<1>2. ~lost /\ work[s].pc \notin {"load", "index"} /\ work[a].pc = "rewrite" /\ up
  BY <1>1, RefreshRewritesIs
<1>3. indexed /\ MembersMatch /\ ContentsMatch /\ OwnIsSaved /\ HeldIsCurrent /\ RewrittenIsSaved
  BY <1>2, IndexHolds
<1>4. UNCHANGED <<index, indexed, stale, victim, torn, haunted>>
  BY RefreshRewritesIs DEF copies, ghosts
<1>5. PICK pc \in {"rewrite", "reindex"} : pc = IF work[a].todo = {s} THEN "reindex" ELSE "rewrite"
  OBVIOUS
<1>6. Becomes(a, pc, work[a].own, Put(work[a].snap, s, d), work[a].todo \ {s})
  BY <1>1, <1>5
<1>7. /\ work'[a].snap[s] = d /\ DOMAIN work'[a].snap = DOMAIN work[a].snap
      /\ \A t \in DOMAIN work[a].snap \ {s} : work'[a].snap[t] = work[a].snap[t]
      /\ \A t \in DOMAIN work[a].snap : work'[a].snap[t].stamp = work[a].snap[t].stamp
      /\ HalfWritten(a)' = HalfWritten(a) /\ Rewritten(a)' = Rewritten(a) \union {s}
  BY <1>1, <1>2, <1>4, <1>6, RewrittenMore
<1>8. work'[a].pc \in {"rewrite", "reindex"} /\ \A b \in Agents \ {a} : work'[b] = work[b]
  BY <1>6 DEF Becomes
<1>9. \A b \in Agents \ {a} : HalfWritten(b)' = HalfWritten(b) /\ Rewritten(b)' = Rewritten(b)
  BY <1>4, <1>8, SameHalf
<1>10. /\ DOMAIN meta' = DOMAIN meta /\ (s \in DOMAIN meta => meta'[s] = d)
       /\ \A t \in DOMAIN meta \ {s} : meta'[t] = meta[t]
  <2>1. CASE s \in DOMAIN meta
    <3>1. meta' = Put(meta, s, d)
      BY <1>1, <2>1
    <3>2. DOMAIN meta' = DOMAIN meta \union {s}
      BY <3>1, PutDomain
    <3>3. meta'[s] = d
      BY <3>1, PutHere
    <3>4. \A t \in DOMAIN meta \ {s} : meta'[t] = meta[t]
      BY <3>1, PutElsewhere
    <3>. QED
      BY <2>1, <3>2, <3>3, <3>4
  <2>2. CASE s \notin DOMAIN meta
    BY <1>1, <2>2
  <2>. QED
    BY <2>1, <2>2
<1>11. Off' = Off /\ \A t \in Scans : t \in Moving' <=> t \in Moving
  BY <1>2, <1>4, <1>8, MovingIs, MovingNext DEF Off
<1>12. MembersMatch'
  BY <1>3, <1>4, <1>10, <1>11 DEF MembersMatch
<1>13. ContentsMatch'
  <2>1. \A b \in Agents : HalfWritten(b)' = HalfWritten(b)
    BY <1>7, <1>9
  <2>. QED
    BY <1>1, <1>3, <1>4, <1>10, <1>11, <2>1 DEF ContentsMatch
<1>14. OwnIsSaved'
  BY <1>2, <1>3, <1>4, <1>8, <1>10 DEF OwnIsSaved
<1>15. HeldIsCurrent'
  <2>1. ASSUME NEW b \in Agents \ stale', work'[b].pc \in Holding
        PROVE  /\ DOMAIN work'[b].snap = DOMAIN index
               /\ \A t \in DOMAIN index : work'[b].snap[t].stamp = index[t].stamp
               /\ work'[b].pc = "index" => work'[b].snap = index
               /\ work'[b].pc # "index" => \A t \in DOMAIN index \ Rewritten(b)' : work'[b].snap[t] = index[t]
    <3>1. CASE b = a
      <4>1. /\ DOMAIN work[a].snap = DOMAIN index
            /\ \A t \in DOMAIN index : work[a].snap[t].stamp = index[t].stamp
            /\ \A t \in DOMAIN index \ Rewritten(a) : work[a].snap[t] = index[t]
        BY <1>2, <1>3, <1>4, <2>1, <3>1 DEF HeldIsCurrent, Holding
      <4>. QED
        BY <1>7, <1>8, <3>1, <4>1
    <3>2. CASE b # a
      BY <1>3, <1>4, <1>8, <1>9, <2>1, <3>2 DEF HeldIsCurrent
    <3>. QED
      BY <3>1, <3>2
  <2>. QED
    BY <1>4, <2>1 DEF HeldIsCurrent
<1>16. RewrittenIsSaved'
  <2>1. ASSUME NEW b \in Agents \ stale', work'[b].pc \in {"rewrite", "reindex"},
               NEW t \in Rewritten(b)' \ Off'
        PROVE  \/ t \notin DOMAIN meta'
               \/ \E c \in Agents \ {b} : t \in HalfWritten(c)'
               \/ work'[b].snap[t] = meta'[t]
    <3>1. CASE b = a /\ t = s
      BY <1>7, <1>10, <3>1
    <3>2. CASE b = a /\ t # s
      <4>1. t \in Rewritten(a) \ Off /\ a \in Agents \ stale
        BY <1>4, <1>7, <1>11, <2>1, <3>2
      <4>2. \/ t \notin DOMAIN meta
            \/ \E c \in Agents \ {a} : t \in HalfWritten(c)
            \/ work[a].snap[t] = meta[t]
        BY <1>2, <1>3, <4>1 DEF RewrittenIsSaved
      <4>3. t \in DOMAIN work[a].snap
        BY <1>2, <4>1, HalfWrittenIs DEF Rewritten
      <4>. QED
        BY <1>7, <1>9, <1>10, <3>2, <4>2, <4>3
    <3>3. CASE b # a /\ t = s
      BY <1>1, <1>7, <3>3
    <3>4. CASE b # a /\ t # s
      <4>1. \/ t \notin DOMAIN meta
            \/ \E c \in Agents \ {b} : t \in HalfWritten(c)
            \/ work[b].snap[t] = meta[t]
        BY <1>3, <1>4, <1>8, <1>9, <1>11, <2>1, <3>4 DEF RewrittenIsSaved
      <4>. QED
        BY <1>7, <1>8, <1>9, <1>10, <3>4, <4>1
    <3>. QED
      BY <3>1, <3>2, <3>3, <3>4
  <2>. QED
    BY <2>1 DEF RewrittenIsSaved
<1>. QED
  BY <1>12, <1>13, <1>14, <1>15, <1>16 DEF IndexInv

LEMMA RefreshSavesIndex ==
  ASSUME TypesInv, IndexInv, ~lost', NEW a \in Agents, RefreshSaves(a)
  PROVE  IndexInv'
<1>. USE AgentsAre
<1>0. ~lost /\ a \notin stale /\ a \notin stale'
  BY RefreshSavesIs, OvertakeIs
<1>1. indexed /\ MembersMatch /\ ContentsMatch /\ OwnIsSaved /\ HeldIsCurrent /\ RewrittenIsSaved
  BY <1>0, RefreshSavesIs, IndexHolds
<1>2. /\ work[a].pc = "reindex" /\ work'[a].pc \in {"row", "idle"} /\ index' = work[a].snap
      /\ \A b \in Agents \ {a} : work'[b] = work[b]
      /\ UNCHANGED <<indexed, meta, victim, torn, haunted>>
  BY RefreshSavesIs DEF Becomes, files
<1>3. work[a].todo = {} /\ Rewritten(a) = HalfWritten(a)
  BY <1>2 DEF TypesInv, WorkOK, Rewritten
<1>4. /\ DOMAIN index' = DOMAIN index
      /\ \A t \in DOMAIN index \ HalfWritten(a) : index'[t] = index[t]
  BY <1>0, <1>1, <1>2, <1>3 DEF HeldIsCurrent, Holding
<1>5. \A b \in Agents \ {a} : HalfWritten(b)' = HalfWritten(b)
  BY <1>2, SameHalf
<1>6. Off' = Off /\ \A t \in Scans : t \in Moving' <=> t \in Moving
  BY <1>2, MovingIs, MovingNext DEF Off
<1>7. MembersMatch'
  BY <1>1, <1>2, <1>4, <1>6 DEF MembersMatch
<1>8. ASSUME NEW t \in Scans \ Off'
      PROVE  \/ \E b \in Agents : t \in HalfWritten(b)'
             \/ t \in DOMAIN index' \intersect DOMAIN meta => index'[t] = meta[t]
  <2>1. CASE t \in HalfWritten(a)
    <3>1. \/ t \notin DOMAIN meta
          \/ \E b \in Agents \ {a} : t \in HalfWritten(b)
          \/ work[a].snap[t] = meta[t]
      BY <1>0, <1>1, <1>2, <1>3, <1>6, <1>8, <2>1 DEF RewrittenIsSaved
    <3>. QED
      BY <1>2, <1>5, <3>1
  <2>2. CASE t \notin HalfWritten(a)
    <3>1. \/ \E b \in Agents : t \in HalfWritten(b)
          \/ t \in DOMAIN index \intersect DOMAIN meta => index[t] = meta[t]
      BY <1>1, <1>6, <1>8 DEF ContentsMatch
    <3>. QED
      BY <1>4, <1>5, <2>2, <3>1
  <2>. QED
    BY <2>1, <2>2
<1>9. ContentsMatch'
  BY <1>2, <1>8 DEF ContentsMatch
<1>10. OwnIsSaved'
  BY <1>1, <1>2 DEF OwnIsSaved
<1>11. \A b \in Agents \ stale' : work'[b].pc \notin Holding
  BY <1>0, <1>2, RefreshSavesIs, OvertakeIs DEF Holding
<1>12. HeldIsCurrent' /\ RewrittenIsSaved'
  BY <1>11 DEF HeldIsCurrent, RewrittenIsSaved, Holding
<1>. QED
  BY <1>7, <1>9, <1>10, <1>12 DEF IndexInv

LEMMA RaisesIndex ==
  ASSUME TypesInv, IndexInv, ~lost, NEW a \in Agents, Raises(a)
  PROVE  IndexInv'
<1>. USE AgentsAre
<1>0. indexed /\ MembersMatch /\ ContentsMatch /\ OwnIsSaved /\ HeldIsCurrent /\ RewrittenIsSaved
  BY RaisesIs, IndexHolds
<1>1. /\ work'[a].pc \in {"idle", "meta", "dead"} /\ stale' = stale \ {a}
      /\ torn' = torn \union HalfWritten(a)
      /\ \A b \in Agents \ {a} : work'[b] = work[b]
      /\ UNCHANGED <<index, indexed, meta, victim, haunted>>
  BY RaisesIs DEF Becomes, files, copies
<1>2. /\ HalfWritten(a)' = {}
      /\ \A b \in Agents \ {a} : HalfWritten(b)' = HalfWritten(b) /\ Rewritten(b)' = Rewritten(b)
  <2>1. HalfWritten(a)' = {}
    BY <1>1, NothingHalf DEF Unsettled
  <2>. QED
    BY <1>1, <2>1, SameHalf
<1>3. Off' = Off \union HalfWritten(a)
  BY <1>1 DEF Off
<1>4. \A t \in Scans : t \in Moving => t \in Moving' \/ t \in HalfWritten(a)
  BY <1>1, MovingIs, MovingNext, NothingHalf DEF Subject
<1>5. MembersMatch'
  BY <1>0, <1>1, <1>3, <1>4 DEF MembersMatch
<1>6. ContentsMatch'
  BY <1>0, <1>1, <1>2, <1>3 DEF ContentsMatch
<1>7. OwnIsSaved'
  BY <1>0, <1>1 DEF OwnIsSaved
<1>8. HeldIsCurrent'
  BY <1>0, <1>1, <1>2 DEF HeldIsCurrent, Holding
<1>9. RewrittenIsSaved'
  BY <1>0, <1>1, <1>2, <1>3 DEF RewrittenIsSaved
<1>. QED
  BY <1>5, <1>6, <1>7, <1>8, <1>9 DEF IndexInv

LEMMA DiesIndex ==
  ASSUME TypesInv, IndexInv, ~lost, Dies
  PROVE  IndexInv'
<1>. USE AgentsAre
<1>0. indexed /\ MembersMatch /\ ContentsMatch /\ OwnIsSaved /\ HeldIsCurrent /\ RewrittenIsSaved
  BY DiesIs, IndexHolds
<1>1. \A b \in Agents : work'[b].pc \in {"idle", "done", "dead"}
  BY DiesIs, IdleIs, AgentsSplit
<1>2. /\ torn' = torn \union UNION {HalfWritten(b) : b \in Agents}
      /\ UNCHANGED <<index, indexed, meta, haunted>>
  BY DiesIs DEF files, copies
<1>3. \A t \in Scans \ Off' : /\ t \notin Off /\ t \notin Moving
                              /\ \A b \in Agents : t \notin HalfWritten(b)
  <2>1. \A t \in Scans \ Off' : t \notin Off /\ \A b \in Agents : t \notin HalfWritten(b)
    BY <1>2 DEF Off
  <2>2. \A t \in Moving : \E b \in Agents : t \in HalfWritten(b)
    BY NothingHalf DEF Moving
  <2>. QED
    BY <2>1, <2>2
<1>4. MembersMatch'
  BY <1>0, <1>2, <1>3 DEF MembersMatch
<1>5. ContentsMatch'
  BY <1>0, <1>2, <1>3 DEF ContentsMatch
<1>6. OwnIsSaved' /\ HeldIsCurrent' /\ RewrittenIsSaved'
  BY <1>1 DEF OwnIsSaved, HeldIsCurrent, RewrittenIsSaved, Holding
<1>. QED
  BY <1>4, <1>5, <1>6 DEF IndexInv

LEMMA StartsIndex ==
  ASSUME TypesInv, IndexInv, ~lost, Starts
  PROVE  IndexInv'
<1>. USE AgentsAre
<1>1. /\ ~up /\ index' = (IF indexed THEN index ELSE meta)
      /\ UNCHANGED <<meta, work, victim, torn, haunted>>
  BY StartsIs DEF files, ghosts
<1>2. \A b \in Agents : work[b].pc \in {"idle", "done", "dead"}
  BY <1>1 DEF TypesInv, WorkOK
<1>3. Off' = Off /\ \A t \in Scans : t \in Moving' <=> t \in Moving
  BY <1>1, MovingIs, MovingNext DEF Off
<1>4. \A b \in Agents : HalfWritten(b)' = HalfWritten(b)
  BY <1>1, SameHalf
<1>5. MembersMatch'
  BY <1>1, <1>3 DEF MembersMatch, IndexInv
<1>6. ContentsMatch'
  BY <1>1, <1>3, <1>4 DEF ContentsMatch, IndexInv
<1>7. OwnIsSaved' /\ HeldIsCurrent' /\ RewrittenIsSaved'
  BY <1>1, <1>2 DEF OwnIsSaved, HeldIsCurrent, RewrittenIsSaved, Holding
<1>. QED
  BY <1>5, <1>6, <1>7 DEF IndexInv

LEMMA LostStays ==
  ASSUME TypesInv, [Next]_vars, ~lost'
  PROVE  ~lost
<1>1. ASSUME NEW s \in Scans, BeginReport(s)
      PROVE  ~lost
  BY <1>1, BeginReportIs
<1>2. ASSUME NEW s \in Scans, NEW v \in Over, ScanEnds(s, v)
      PROVE  ~lost
  BY <1>2, ScanEndsIs
<1>3. ASSUME NEW s \in Scans, WriteMeta(s)
      PROVE  ~lost
  BY <1>3, WriteMetaIs
<1>4. ASSUME NEW s \in Scans, PersistRow(s)
      PROVE  ~lost
  BY <1>4, PersistRowIs
<1>5. ASSUME NEW s \in Scans, DeleteBegins(s)
      PROVE  ~lost
  BY <1>5, DeleteBeginsIs
<1>6. ASSUME NEW a \in Agents, LoadIndex(a)
      PROVE  ~lost
  BY <1>6, LoadIndexIs
<1>7. ASSUME NEW a \in Agents, SaveIndex(a)
      PROVE  ~lost
  BY <1>7, SaveIndexIs, OvertakeIs
<1>8. ASSUME NEW a \in Agents, RefreshLoads(a)
      PROVE  ~lost
  BY <1>8, RefreshLoadsIs
<1>9. ASSUME NEW a \in Agents, RefreshRewrites(a)
      PROVE  ~lost
  BY <1>9, RefreshRewritesIs
<1>10. ASSUME NEW a \in Agents, RefreshSaves(a)
       PROVE  ~lost
  BY <1>10, RefreshSavesIs, OvertakeIs
<1>11. ASSUME NEW a \in Agents, Raises(a)
       PROVE  ~lost
  BY <1>11, RaisesIs
<1>12. ASSUME DeleteRow
       PROVE  ~lost
  BY <1>12, DeleteRowIs
<1>13. ASSUME DeleteTree
       PROVE  ~lost
  BY <1>13, DeleteTreeIs
<1>14. ASSUME ListRows
       PROVE  ~lost
  BY <1>14, ListRowsIs
<1>15. ASSUME ListIndex
       PROVE  ~lost
  BY <1>15, ListIndexIs
<1>16. ASSUME ListChecks
       PROVE  ~lost
  BY <1>16, ListChecksIs
<1>17. ASSUME ListInserts
       PROVE  ~lost
  BY <1>17, ListInsertsIs
<1>18. ASSUME PdfPicks
       PROVE  ~lost
  BY <1>18, PdfPicksIs
<1>19. ASSUME PdfRenders
       PROVE  ~lost
  BY <1>19, PdfRendersIs
<1>20. ASSUME PdfPersists
       PROVE  ~lost
  BY <1>20, PdfPersistsIs
<1>21. ASSUME Dies
       PROVE  ~lost
  BY <1>21, DiesIs
<1>22. ASSUME Starts
       PROVE  ~lost
  BY <1>22, StartsIs
<1>23. ASSUME UNCHANGED vars
       PROVE  ~lost
  BY <1>23 DEF vars
<1>. QED
  BY <1>1, <1>2, <1>3, <1>4, <1>5, <1>6, <1>7, <1>8, <1>9, <1>10, <1>11, <1>12, <1>13, <1>14,
     <1>15, <1>16, <1>17, <1>18, <1>19, <1>20, <1>21, <1>22, <1>23 DEF Next

LEMMA IndexStep == TypesInv /\ DeletionInv /\ IndexInv /\ [Next]_vars => IndexInv'
<1>. SUFFICES ASSUME TypesInv, DeletionInv, IndexInv, [Next]_vars
              PROVE  IndexInv'
  OBVIOUS
<1>1. CASE lost'
  BY <1>1 DEF IndexInv
<1>2. CASE ~lost'
  <2>0. ~lost
    BY <1>2, LostStays
  <2>1. ASSUME NEW s \in Scans,
               \/ BeginReport(s) \/ WriteMeta(s) \/ PersistRow(s)
               \/ \E v \in Over : ScanEnds(s, v)
               \/ DeleteBegins(s)
        PROVE  IndexInv'
    BY <2>0, <2>1, QuietActions, WriteMetaIndex
  <2>2. ASSUME NEW a \in Agents,
               \/ LoadIndex(a) \/ SaveIndex(a) \/ RefreshLoads(a)
               \/ RefreshRewrites(a) \/ RefreshSaves(a) \/ Raises(a)
        PROVE  IndexInv'
    <3>1. TypesInv'
      BY TypesStep
    <3>. QED
      BY <1>2, <2>0, <2>2, <3>1, LoadIndexIndex, SaveIndexIndex, RefreshLoadsIndex,
         RefreshRewritesIndex,
         RefreshSavesIndex, RaisesIndex
  <2>3. ASSUME \/ DeleteRow \/ DeleteTree
               \/ ListRows \/ ListIndex \/ ListChecks \/ ListInserts
               \/ PdfPicks \/ PdfRenders \/ PdfPersists
               \/ Dies \/ Starts
        PROVE  IndexInv'
    BY <2>0, <2>3, QuietActions, DeleteTreeIndex, DiesIndex, StartsIndex
  <2>4. ASSUME UNCHANGED vars
        PROVE  IndexInv'
    BY <2>4, QuietActions
  <2>. QED
    BY <2>1, <2>2, <2>3, <2>4 DEF Next
<1>. QED
  BY <1>1, <1>2

LEMMA IndexInit == Init => IndexInv
<1>. SUFFICES ASSUME Init
              PROVE  IndexInv
  OBVIOUS
<1>1. \A a \in Agents : work[a].pc \in {"idle", "done"}
  BY IdleIs DEF Init
<1>2. ~indexed
  BY DEF Init
<1>. QED
  BY <1>1, <1>2, AgentsAre DEF IndexInv, OwnIsSaved, HeldIsCurrent, RewrittenIsSaved, Holding

\* Every finished report stays in the history until its deletion is asked for, and
\* whenever nobody is writing the index shows what the disk holds, as long as no
\* agent has saved an overtaken copy; a crash leaves only the scans it tore apart.
THEOREM HistoryMatches == Spec => []HistoryMatchesDisk
<1>1. TypesInv /\ ListedInv => FinishedReportsAreListed
  BY DEF TypesInv, FlagsOK, ListedInv, FinishedReportsAreListed, Listed
<1>2. TypesInv /\ IndexInv => IndexMatchesDisk
  <2>. SUFFICES ASSUME TypesInv, IndexInv, up, Settled, ~lost, NEW s \in Scans \ (torn \union haunted)
                PROVE  /\ s \in DOMAIN index <=> s \in DOMAIN meta
                       /\ s \in DOMAIN index => index[s] = meta[s]
    BY DEF IndexMatchesDisk
  <2>1. \A a \in Agents : work[a].pc \notin Unsettled
    BY DEF Settled, Unsettled
  <2>2. s \notin Off /\ s \notin Moving /\ \A a \in Agents : s \notin HalfWritten(a)
    BY <2>1, MovingIs, NothingHalf, AgentsAre DEF Off, Unsettled
  <2>3. MembersMatch /\ ContentsMatch
    BY IndexHolds
  <2>. QED
    BY <2>2, <2>3 DEF MembersMatch, ContentsMatch
<1>. QED
  BY <1>1, <1>2, TypesAreKept, DeletionInit, DeletionStep, ListedInit, ListedStep, IndexInit,
     IndexStep,
     PTL DEF Spec, HistoryMatchesDisk

-----------------------------------------------------------------------------
(* The scans the entries are compared with.                                 *)

\* No save was lost and no write has failed.
Clean == ~lost /\ ~faulted
Compared == FirstTime /\ Backed /\ BasesOK /\ RewrittenIsFresh /\ NewestOK

LEMMA CleanStays ==
  ASSUME TypesInv, [Next]_vars, Clean'
  PROVE  Clean
<1>1. ~lost
  BY LostStays DEF Clean
<1>2. ~faulted
  <2>1. ASSUME NEW s \in Scans, BeginReport(s)
        PROVE  ~faulted
    BY <2>1, BeginReportIs DEF Clean, OneFault, files, copies, ghosts, counts
  <2>2. ASSUME NEW s \in Scans, NEW v \in Over, ScanEnds(s, v)
        PROVE  ~faulted
    BY <2>2, ScanEndsIs DEF Clean, OneFault, files, copies, ghosts, counts
  <2>3. ASSUME NEW s \in Scans, WriteMeta(s)
        PROVE  ~faulted
    BY <2>3, WriteMetaIs DEF Clean, OneFault, files, copies, ghosts, counts
  <2>4. ASSUME NEW s \in Scans, PersistRow(s)
        PROVE  ~faulted
    BY <2>4, PersistRowIs DEF Clean, OneFault, files, copies, ghosts, counts
  <2>5. ASSUME NEW s \in Scans, DeleteBegins(s)
        PROVE  ~faulted
    BY <2>5, DeleteBeginsIs DEF Clean, OneFault, files, copies, ghosts, counts
  <2>6. ASSUME NEW a \in Agents, LoadIndex(a)
        PROVE  ~faulted
    BY <2>6, LoadIndexIs DEF Clean, OneFault, files, copies, ghosts, counts
  <2>7. ASSUME NEW a \in Agents, SaveIndex(a)
        PROVE  ~faulted
    BY <2>7, SaveIndexIs DEF Clean, OneFault, files, copies, ghosts, counts
  <2>8. ASSUME NEW a \in Agents, RefreshLoads(a)
        PROVE  ~faulted
    BY <2>8, RefreshLoadsIs DEF Clean, OneFault, files, copies, ghosts, counts
  <2>9. ASSUME NEW a \in Agents, RefreshRewrites(a)
        PROVE  ~faulted
    BY <2>9, RefreshRewritesIs DEF Clean, OneFault, files, copies, ghosts, counts
  <2>10. ASSUME NEW a \in Agents, RefreshSaves(a)
         PROVE  ~faulted
    BY <2>10, RefreshSavesIs DEF Clean, OneFault, files, copies, ghosts, counts
  <2>11. ASSUME NEW a \in Agents, Raises(a)
         PROVE  ~faulted
    BY <2>11, RaisesIs DEF Clean, OneFault, files, copies, ghosts, counts
  <2>12. ASSUME DeleteRow
         PROVE  ~faulted
    BY <2>12, DeleteRowIs DEF Clean, OneFault, files, copies, ghosts, counts
  <2>13. ASSUME DeleteTree
         PROVE  ~faulted
    BY <2>13, DeleteTreeIs DEF Clean, OneFault, files, copies, ghosts, counts
  <2>14. ASSUME ListRows
         PROVE  ~faulted
    BY <2>14, ListRowsIs DEF Clean, OneFault, files, copies, ghosts, counts
  <2>15. ASSUME ListIndex
         PROVE  ~faulted
    BY <2>15, ListIndexIs DEF Clean, OneFault, files, copies, ghosts, counts
  <2>16. ASSUME ListChecks
         PROVE  ~faulted
    BY <2>16, ListChecksIs DEF Clean, OneFault, files, copies, ghosts, counts
  <2>17. ASSUME ListInserts
         PROVE  ~faulted
    BY <2>17, ListInsertsIs DEF Clean, OneFault, files, copies, ghosts, counts
  <2>18. ASSUME PdfPicks
         PROVE  ~faulted
    BY <2>18, PdfPicksIs DEF Clean, OneFault, files, copies, ghosts, counts
  <2>19. ASSUME PdfRenders
         PROVE  ~faulted
    BY <2>19, PdfRendersIs DEF Clean, OneFault, files, copies, ghosts, counts
  <2>20. ASSUME PdfPersists
         PROVE  ~faulted
    BY <2>20, PdfPersistsIs DEF Clean, OneFault, files, copies, ghosts, counts
  <2>21. ASSUME Dies
         PROVE  ~faulted
    BY <2>21, DiesIs DEF Clean, OneFault, files, copies, ghosts, counts
  <2>22. ASSUME Starts
         PROVE  ~faulted
    BY <2>22, StartsIs DEF Clean, OneFault, files, copies, ghosts, counts
  <2>23. ASSUME UNCHANGED vars
         PROVE  ~faulted
    BY <2>23 DEF Clean, vars, counts
  <2>. QED
    BY <2>1, <2>2, <2>3, <2>4, <2>5, <2>6, <2>7, <2>8, <2>9, <2>10, <2>11, <2>12, <2>13, <2>14,
       <2>15, <2>16, <2>17, <2>18, <2>19, <2>20, <2>21, <2>22, <2>23 DEF Next
<1>. QED
  BY <1>1, <1>2 DEF Clean

LEMMA ComparedHolds ==
  ASSUME TypesInv, BaseInv, Clean
  PROVE  FirstTime /\ Backed /\ BasesOK /\ RewrittenIsFresh /\ NewestOK
BY DEF BaseInv, Clean

\* Steps that leave the index and the agents that refresh it alone.
LEMMA SameBases ==
  ASSUME BasesOK, RewrittenIsFresh, NewestOK, index' = index,
         \A b \in Agents :
           work'[b] = work[b] \/ (work[b].pc \notin Refreshing /\ work'[b].pc \notin Refreshing),
         victim' = victim \/ (work[Deleter].pc \notin Refreshing /\ work'[Deleter].pc \notin Refreshing)
  PROVE  BasesOK' /\ RewrittenIsFresh' /\ NewestOK'
<1>. USE AgentsAre
<1>1. \A b \in Agents : work'[b].pc \in Refreshing <=> work[b].pc \in Refreshing
  OBVIOUS
<1>2. \A s \in DOMAIN index : Before(index, s)' = Before(index, s)
  BY DEF Before
<1>3. BasesOK'
  BY <1>1, <1>2 DEF BasesOK
<1>4. RewrittenIsFresh'
  <2>1. ASSUME NEW b \in Agents, work'[b].pc \in {"rewrite", "reindex"}
        PROVE  work'[b] = work[b] /\ Rewritten(b)' = Rewritten(b)
    <3>1. work'[b] = work[b]
      BY <2>1 DEF Refreshing
    <3>. QED
      BY <2>1, <3>1, SameHalf
  <2>2. \A b \in Agents : work'[b] = work[b] =>
          \A s : Fresh(work[b].snap, s)' <=> Fresh(work[b].snap, s)
    BY DEF Fresh, Previous, Before, Last
  <2>. QED
    BY <2>1, <2>2 DEF RewrittenIsFresh
<1>5. NewestOK'
  <2>1. Fresh(index, Last(index, DOMAIN index))' <=> Fresh(index, Last(index, DOMAIN index))
    BY DEF Fresh, Previous, Before, Last
  <2>. QED
    BY <1>1, <2>1 DEF NewestOK
<1>. QED
  BY <1>3, <1>4, <1>5

\* The invariant in a state without losses or faults, and what a step has to keep.
Sound == TypesInv /\ IndexInv /\ BaseInv /\ Clean
Kept == indexed' /\ Compared'

LEMMA SoundIs ==
  ASSUME Sound
  PROVE  /\ TypesInv /\ Clean
         /\ FirstTime /\ Backed /\ BasesOK /\ RewrittenIsFresh /\ NewestOK
         /\ up => indexed /\ HeldIsCurrent
BY ComparedHolds, IndexHolds DEF Sound, Clean

\* Reports before their first save, and reports about to add themselves to the index.
Early == {"idle", "scan", "meta"}
Saving == {"load", "index"}

LEMMA FirstTimeStays ==
  ASSUME FirstTime, DOMAIN meta' \subseteq DOMAIN meta, DOMAIN index' \subseteq DOMAIN index,
         DOMAIN index \subseteq Scans,
         \A s \in Scans :
           \/ work'[s] = work[s]
           \/ work'[s].pc \in Early /\ work[s].pc \in Early
           \/ work'[s].pc \in Saving /\ work[s].pc \in Saving /\ work'[s].own = work[s].own
           \/ Late(s)' /\ Late(s)
  PROVE  FirstTime'
BY DEF FirstTime, Early, Saving, Late

\* Steps that bring back no row, reader or directory of a report that is not indexed yet.
LEMMA BackedStays ==
  ASSUME TypesInv, Backed,
         \A t \in Scans : Late(t) => Late(t)',
         \A t \in DOMAIN rows' \union lister'.todo \union ({pdf'.scan} \ {NoBase}) :
           t \in DOMAIN rows \union lister.todo \union ({pdf.scan} \ {NoBase}) \/ Late(t)',
         \A t \in dirs' :
           \/ work'[t].pc \in Early \/ t \in DOMAIN meta'
           \/ t \in dirs /\ work[t].pc \notin Early /\ (t \in DOMAIN meta => t \in DOMAIN meta'),
         work'[Deleter].pc \in {"drop", "tree", "load", "index"} =>
           \/ work'[Deleter].own # <<>>
           \/ /\ work[Deleter].pc \in {"drop", "tree", "load", "index"}
              /\ work'[Deleter].own = work[Deleter].own
  PROVE  Backed'
<1>1. /\ DOMAIN rows \subseteq Scans /\ lister.todo \subseteq Scans
      /\ {pdf.scan} \ {NoBase} \subseteq Scans
  BY CatalogueHas, ReadersHave DEF TypesInv, FilesOK
<1>2. \A t \in dirs' : t \in DOMAIN meta' \/ work'[t].pc \in {"idle", "scan", "meta"}
  BY DEF Backed, Early
<1>3. \A t \in DOMAIN rows' \union lister'.todo \union ({pdf'.scan} \ {NoBase}) : Late(t)'
  BY <1>1 DEF Backed
<1>. QED
  BY <1>2, <1>3 DEF Backed, Late

LEMMA AgentBacked ==
  ASSUME TypesInv, Backed, NEW a \in Agents, \A b \in Agents \ {a} : work'[b] = work[b],
         rows' = rows, lister' = lister, pdf' = pdf, dirs' = dirs, DOMAIN meta \subseteq DOMAIN meta',
         work'[a].pc \notin Saving \union {"drop", "tree"},
         a \in Scans => work[a].pc \notin Early /\ work'[a].pc \notin Early
  PROVE  Backed'
<1>. USE AgentsAre
<1>1. \A t \in Scans : Late(t) => Late(t)'
  BY DEF Late, Early, Saving
<1>2. \A t \in dirs : t \in Scans /\ (work[t].pc \in Early => work'[t].pc \in Early)
  BY DEF TypesInv, FilesOK
<1>3. work'[Deleter].pc \in {"drop", "tree", "load", "index"} => work'[Deleter] = work[Deleter]
  BY DEF Saving
<1>4. \A t \in dirs' :
        \/ work'[t].pc \in Early \/ t \in DOMAIN meta'
        \/ t \in dirs /\ work[t].pc \notin Early /\ (t \in DOMAIN meta => t \in DOMAIN meta')
  BY <1>2
<1>. QED
  BY <1>1, <1>3, <1>4, BackedStays

\* Agents that go on rewriting the same copy.
LEMMA FreshStays ==
  ASSUME RewrittenIsFresh, NEW b \in Agents, work'[b] = work[b], work'[b].pc \in {"rewrite", "reindex"}
  PROVE  \A s \in Rewritten(b)' : Fresh(work[b].snap, s)'
<1>1. Rewritten(b)' = Rewritten(b)
  BY SameHalf
<1>2. \A s : Fresh(work[b].snap, s)' <=> Fresh(work[b].snap, s)
  BY DEF Fresh, Previous, Before, Last
<1>. QED
  BY <1>1, <1>2 DEF RewrittenIsFresh

LEMMA SamePrevious ==
  ASSUME NEW f, NEW g, NEW s \in DOMAIN f, DOMAIN g = DOMAIN f,
         \A t \in DOMAIN f : g[t].stamp = f[t].stamp
  PROVE  Before(g, s) = Before(f, s) /\ Previous(g, s) = Previous(f, s)
<1>1. Before(g, s) = Before(f, s)
  BY DEF Before
<1>2. Before(f, s) \subseteq DOMAIN f
  BY DEF Before
<1>3. Last(g, Before(f, s)) = Last(f, Before(f, s))
  BY <1>2, SameOrder
<1>. QED
  BY <1>1, <1>3 DEF Previous

LEMMA BeginReportBases ==
  ASSUME Sound, Clean', NEW s \in Scans, BeginReport(s)
  PROVE  Kept
<1>. USE AgentsAre
<1>1. /\ TypesInv /\ FirstTime /\ Backed
      /\ DOMAIN index \subseteq Scans /\ victim \in Scans /\ dirs \subseteq Scans
  BY SoundIs, CatalogueHas DEF TypesInv, GhostsOK, FilesOK
<1>2. /\ up /\ index' = index /\ indexed' = indexed
      /\ meta' = meta
      /\ \A b \in Agents :
           work'[b] = work[b] \/ (work[b].pc \notin Refreshing /\ work'[b].pc \notin Refreshing)
      /\ \/ victim' = victim
         \/ work[Deleter].pc \notin Refreshing /\ work'[Deleter].pc \notin Refreshing
  BY <1>1, BeginReportIs DEF Becomes, Refreshing, files, copies, ghosts, counts
<1>3. BasesOK' /\ RewrittenIsFresh' /\ NewestOK' /\ indexed'
  BY <1>2, SameBases, SoundIs
<1>4. \A t \in Scans :
        \/ work'[t] = work[t]
        \/ work'[t].pc \in Early /\ work[t].pc \in Early
        \/ work'[t].pc \in Saving /\ work[t].pc \in Saving /\ work'[t].own = work[t].own
        \/ Late(t)' /\ Late(t)
  BY <1>1, BeginReportIs DEF Becomes, Early, Saving, Late
<1>5. FirstTime'
  BY <1>1, <1>2, <1>4, FirstTimeStays
<1>6. \A t \in Scans : Late(t) => Late(t)'
  BY <1>4 DEF Early, Saving, Late
<1>7. \A t \in DOMAIN rows' \union lister'.todo \union ({pdf'.scan} \ {NoBase}) :
        t \in DOMAIN rows \union lister.todo \union ({pdf.scan} \ {NoBase}) \/ Late(t)'
  BY <1>1, BeginReportIs DEF copies
<1>8. \A t \in dirs' :
        \/ work'[t].pc \in Early \/ t \in DOMAIN meta'
        \/ t \in dirs /\ work[t].pc \notin Early /\ (t \in DOMAIN meta => t \in DOMAIN meta')
  BY <1>1, <1>2, <1>4, BeginReportIs DEF Early, Saving, Late, Becomes, files
<1>9. work'[Deleter].pc \in {"drop", "tree", "load", "index"} =>
        \/ work'[Deleter].own # <<>>
        \/ /\ work[Deleter].pc \in {"drop", "tree", "load", "index"}
           /\ work'[Deleter].own = work[Deleter].own
  BY <1>1, BeginReportIs DEF Becomes
<1>10. Backed'
  BY <1>1, <1>6, <1>7, <1>8, <1>9, BackedStays
<1>. QED
  BY <1>3, <1>5, <1>10 DEF Kept, Compared

LEMMA ScanEndsBases ==
  ASSUME Sound, Clean', NEW s \in Scans, NEW v \in Over, ScanEnds(s, v)
  PROVE  Kept
<1>. USE AgentsAre
<1>1. /\ TypesInv /\ FirstTime /\ Backed
      /\ DOMAIN index \subseteq Scans /\ victim \in Scans /\ dirs \subseteq Scans
  BY SoundIs, CatalogueHas DEF TypesInv, GhostsOK, FilesOK
<1>2. /\ up /\ index' = index /\ indexed' = indexed
      /\ meta' = meta
      /\ \A b \in Agents :
           work'[b] = work[b] \/ (work[b].pc \notin Refreshing /\ work'[b].pc \notin Refreshing)
      /\ \/ victim' = victim
         \/ work[Deleter].pc \notin Refreshing /\ work'[Deleter].pc \notin Refreshing
  BY <1>1, ScanEndsIs DEF Becomes, Refreshing, files, copies, ghosts, counts
<1>3. BasesOK' /\ RewrittenIsFresh' /\ NewestOK' /\ indexed'
  BY <1>2, SameBases, SoundIs
<1>4. \A t \in Scans :
        \/ work'[t] = work[t]
        \/ work'[t].pc \in Early /\ work[t].pc \in Early
        \/ work'[t].pc \in Saving /\ work[t].pc \in Saving /\ work'[t].own = work[t].own
        \/ Late(t)' /\ Late(t)
  BY <1>1, ScanEndsIs DEF Becomes, Early, Saving, Late
<1>5. FirstTime'
  BY <1>1, <1>2, <1>4, FirstTimeStays
<1>6. \A t \in Scans : Late(t) => Late(t)'
  BY <1>4 DEF Early, Saving, Late
<1>7. \A t \in DOMAIN rows' \union lister'.todo \union ({pdf'.scan} \ {NoBase}) :
        t \in DOMAIN rows \union lister.todo \union ({pdf.scan} \ {NoBase}) \/ Late(t)'
  BY <1>1, ScanEndsIs DEF copies
<1>8. \A t \in dirs' :
        \/ work'[t].pc \in Early \/ t \in DOMAIN meta'
        \/ t \in dirs /\ work[t].pc \notin Early /\ (t \in DOMAIN meta => t \in DOMAIN meta')
  BY <1>1, <1>2, <1>4, ScanEndsIs DEF Early, Saving, Late, Becomes, files
<1>9. work'[Deleter].pc \in {"drop", "tree", "load", "index"} =>
        \/ work'[Deleter].own # <<>>
        \/ /\ work[Deleter].pc \in {"drop", "tree", "load", "index"}
           /\ work'[Deleter].own = work[Deleter].own
  BY <1>1, ScanEndsIs DEF Becomes
<1>10. Backed'
  BY <1>1, <1>6, <1>7, <1>8, <1>9, BackedStays
<1>. QED
  BY <1>3, <1>5, <1>10 DEF Kept, Compared

LEMMA PersistRowBases ==
  ASSUME Sound, Clean', NEW s \in Scans, PersistRow(s)
  PROVE  Kept
<1>. USE AgentsAre
<1>1. /\ TypesInv /\ FirstTime /\ Backed
      /\ DOMAIN index \subseteq Scans /\ victim \in Scans /\ dirs \subseteq Scans
  BY SoundIs, CatalogueHas DEF TypesInv, GhostsOK, FilesOK
<1>2. /\ up /\ index' = index /\ indexed' = indexed
      /\ meta' = meta
      /\ \A b \in Agents :
           work'[b] = work[b] \/ (work[b].pc \notin Refreshing /\ work'[b].pc \notin Refreshing)
      /\ \/ victim' = victim
         \/ work[Deleter].pc \notin Refreshing /\ work'[Deleter].pc \notin Refreshing
  BY <1>1, PersistRowIs DEF Becomes, Refreshing, files, copies, ghosts, counts
<1>3. BasesOK' /\ RewrittenIsFresh' /\ NewestOK' /\ indexed'
  BY <1>2, SameBases, SoundIs
<1>4. \A t \in Scans :
        \/ work'[t] = work[t]
        \/ work'[t].pc \in Early /\ work[t].pc \in Early
        \/ work'[t].pc \in Saving /\ work[t].pc \in Saving /\ work'[t].own = work[t].own
        \/ Late(t)' /\ Late(t)
  BY <1>1, PersistRowIs DEF Becomes, Early, Saving, Late, Clean, OneFault, counts
<1>5. FirstTime'
  BY <1>1, <1>2, <1>4, FirstTimeStays
<1>6. \A t \in Scans : Late(t) => Late(t)'
  BY <1>4 DEF Early, Saving, Late
<1>7. \A t \in DOMAIN rows' \union lister'.todo \union ({pdf'.scan} \ {NoBase}) :
        t \in DOMAIN rows \union lister.todo \union ({pdf.scan} \ {NoBase}) \/ Late(t)'
  BY <1>1, PersistRowIs DEF Becomes, Late, Clean, OneFault, counts
<1>8. \A t \in dirs' :
        \/ work'[t].pc \in Early \/ t \in DOMAIN meta'
        \/ t \in dirs /\ work[t].pc \notin Early /\ (t \in DOMAIN meta => t \in DOMAIN meta')
  BY <1>1, <1>2, <1>4, PersistRowIs DEF Early, Saving, Late, Becomes, files
<1>9. work'[Deleter].pc \in {"drop", "tree", "load", "index"} =>
        \/ work'[Deleter].own # <<>>
        \/ /\ work[Deleter].pc \in {"drop", "tree", "load", "index"}
           /\ work'[Deleter].own = work[Deleter].own
  BY <1>1, PersistRowIs DEF Becomes
<1>10. Backed'
  BY <1>1, <1>6, <1>7, <1>8, <1>9, BackedStays
<1>. QED
  BY <1>3, <1>5, <1>10 DEF Kept, Compared

LEMMA LoadIndexBases ==
  ASSUME Sound, Clean', NEW a \in Agents, LoadIndex(a)
  PROVE  Kept
<1>. USE AgentsAre
<1>1. /\ TypesInv /\ FirstTime /\ Backed
      /\ DOMAIN index \subseteq Scans /\ victim \in Scans /\ dirs \subseteq Scans
  BY SoundIs, CatalogueHas DEF TypesInv, GhostsOK, FilesOK
<1>2. /\ up /\ index' = index /\ indexed' = indexed
      /\ meta' = meta
      /\ \A b \in Agents :
           work'[b] = work[b] \/ (work[b].pc \notin Refreshing /\ work'[b].pc \notin Refreshing)
      /\ \/ victim' = victim
         \/ work[Deleter].pc \notin Refreshing /\ work'[Deleter].pc \notin Refreshing
  BY <1>1, LoadIndexIs DEF Becomes, Refreshing, files, copies, ghosts, counts
<1>3. BasesOK' /\ RewrittenIsFresh' /\ NewestOK' /\ indexed'
  BY <1>2, SameBases, SoundIs
<1>4. \A t \in Scans :
        \/ work'[t] = work[t]
        \/ work'[t].pc \in Early /\ work[t].pc \in Early
        \/ work'[t].pc \in Saving /\ work[t].pc \in Saving /\ work'[t].own = work[t].own
        \/ Late(t)' /\ Late(t)
  BY <1>1, LoadIndexIs DEF Becomes, Early, Saving, Late
<1>5. FirstTime'
  BY <1>1, <1>2, <1>4, FirstTimeStays
<1>6. \A t \in Scans : Late(t) => Late(t)'
  BY <1>4 DEF Early, Saving, Late
<1>7. \A t \in DOMAIN rows' \union lister'.todo \union ({pdf'.scan} \ {NoBase}) :
        t \in DOMAIN rows \union lister.todo \union ({pdf.scan} \ {NoBase}) \/ Late(t)'
  BY <1>1, LoadIndexIs DEF copies
<1>8. \A t \in dirs' :
        \/ work'[t].pc \in Early \/ t \in DOMAIN meta'
        \/ t \in dirs /\ work[t].pc \notin Early /\ (t \in DOMAIN meta => t \in DOMAIN meta')
  BY <1>1, <1>2, <1>4, LoadIndexIs DEF Early, Saving, Late, Becomes, files
<1>9. work'[Deleter].pc \in {"drop", "tree", "load", "index"} =>
        \/ work'[Deleter].own # <<>>
        \/ /\ work[Deleter].pc \in {"drop", "tree", "load", "index"}
           /\ work'[Deleter].own = work[Deleter].own
  BY <1>1, LoadIndexIs DEF Becomes
<1>10. Backed'
  BY <1>1, <1>6, <1>7, <1>8, <1>9, BackedStays
<1>. QED
  BY <1>3, <1>5, <1>10 DEF Kept, Compared

LEMMA DeleteRowBases ==
  ASSUME Sound, Clean', DeleteRow
  PROVE  Kept
<1>. USE AgentsAre
<1>1. /\ TypesInv /\ FirstTime /\ Backed
      /\ DOMAIN index \subseteq Scans /\ victim \in Scans /\ dirs \subseteq Scans
  BY SoundIs, CatalogueHas DEF TypesInv, GhostsOK, FilesOK
<1>2. /\ up /\ index' = index /\ indexed' = indexed
      /\ meta' = meta
      /\ \A b \in Agents :
           work'[b] = work[b] \/ (work[b].pc \notin Refreshing /\ work'[b].pc \notin Refreshing)
      /\ \/ victim' = victim
         \/ work[Deleter].pc \notin Refreshing /\ work'[Deleter].pc \notin Refreshing
  BY <1>1, DeleteRowIs DEF Becomes, Refreshing, files, copies, ghosts, counts
<1>3. BasesOK' /\ RewrittenIsFresh' /\ NewestOK' /\ indexed'
  BY <1>2, SameBases, SoundIs
<1>4. \A t \in Scans :
        \/ work'[t] = work[t]
        \/ work'[t].pc \in Early /\ work[t].pc \in Early
        \/ work'[t].pc \in Saving /\ work[t].pc \in Saving /\ work'[t].own = work[t].own
        \/ Late(t)' /\ Late(t)
  BY <1>1, DeleteRowIs DEF Becomes, Early, Saving, Late
<1>5. FirstTime'
  BY <1>1, <1>2, <1>4, FirstTimeStays
<1>6. \A t \in Scans : Late(t) => Late(t)'
  BY <1>4 DEF Early, Saving, Late
<1>7. \A t \in DOMAIN rows' \union lister'.todo \union ({pdf'.scan} \ {NoBase}) :
        t \in DOMAIN rows \union lister.todo \union ({pdf.scan} \ {NoBase}) \/ Late(t)'
  BY <1>1, DeleteRowIs DEF copies
<1>8. \A t \in dirs' :
        \/ work'[t].pc \in Early \/ t \in DOMAIN meta'
        \/ t \in dirs /\ work[t].pc \notin Early /\ (t \in DOMAIN meta => t \in DOMAIN meta')
  BY <1>1, <1>2, <1>4, DeleteRowIs DEF Early, Saving, Late, Becomes, files
<1>9. work'[Deleter].pc \in {"drop", "tree", "load", "index"} =>
        \/ work'[Deleter].own # <<>>
        \/ /\ work[Deleter].pc \in {"drop", "tree", "load", "index"}
           /\ work'[Deleter].own = work[Deleter].own
  BY <1>1, DeleteRowIs DEF Becomes
<1>10. Backed'
  BY <1>1, <1>6, <1>7, <1>8, <1>9, BackedStays
<1>. QED
  BY <1>3, <1>5, <1>10 DEF Kept, Compared

LEMMA DeleteTreeBases ==
  ASSUME Sound, Clean', DeleteTree
  PROVE  Kept
<1>. USE AgentsAre
<1>1. /\ TypesInv /\ FirstTime /\ Backed
      /\ DOMAIN index \subseteq Scans /\ victim \in Scans /\ dirs \subseteq Scans
  BY SoundIs, CatalogueHas DEF TypesInv, GhostsOK, FilesOK
<1>2. /\ up /\ index' = index /\ indexed' = indexed
      /\ DOMAIN meta' = DOMAIN meta \ {victim} /\ dirs' = dirs \ {victim}
      /\ \A b \in Agents :
           work'[b] = work[b] \/ (work[b].pc \notin Refreshing /\ work'[b].pc \notin Refreshing)
      /\ \/ victim' = victim
         \/ work[Deleter].pc \notin Refreshing /\ work'[Deleter].pc \notin Refreshing
  BY <1>1, DeleteTreeIs DEF Becomes, Refreshing, files, copies, ghosts, counts
<1>3. BasesOK' /\ RewrittenIsFresh' /\ NewestOK' /\ indexed'
  BY <1>2, SameBases, SoundIs
<1>4. \A t \in Scans :
        \/ work'[t] = work[t]
        \/ work'[t].pc \in Early /\ work[t].pc \in Early
        \/ work'[t].pc \in Saving /\ work[t].pc \in Saving /\ work'[t].own = work[t].own
        \/ Late(t)' /\ Late(t)
  BY <1>1, DeleteTreeIs DEF Becomes, Early, Saving, Late
<1>5. FirstTime'
  BY <1>1, <1>2, <1>4, FirstTimeStays
<1>6. \A t \in Scans : Late(t) => Late(t)'
  BY <1>4 DEF Early, Saving, Late
<1>7. \A t \in DOMAIN rows' \union lister'.todo \union ({pdf'.scan} \ {NoBase}) :
        t \in DOMAIN rows \union lister.todo \union ({pdf.scan} \ {NoBase}) \/ Late(t)'
  BY <1>1, DeleteTreeIs DEF copies
<1>8. \A t \in dirs' :
        \/ work'[t].pc \in Early \/ t \in DOMAIN meta'
        \/ t \in dirs /\ work[t].pc \notin Early /\ (t \in DOMAIN meta => t \in DOMAIN meta')
  BY <1>1, <1>2, <1>4, DeleteTreeIs DEF Early, Saving, Late, Becomes, files
<1>9. work'[Deleter].pc \in {"drop", "tree", "load", "index"} =>
        \/ work'[Deleter].own # <<>>
        \/ /\ work[Deleter].pc \in {"drop", "tree", "load", "index"}
           /\ work'[Deleter].own = work[Deleter].own
  BY <1>1, DeleteTreeIs DEF Becomes
<1>10. Backed'
  BY <1>1, <1>6, <1>7, <1>8, <1>9, BackedStays
<1>. QED
  BY <1>3, <1>5, <1>10 DEF Kept, Compared

LEMMA ListRowsBases ==
  ASSUME Sound, Clean', ListRows
  PROVE  Kept
<1>. USE AgentsAre
<1>1. /\ TypesInv /\ FirstTime /\ Backed
      /\ DOMAIN index \subseteq Scans /\ victim \in Scans /\ dirs \subseteq Scans
  BY SoundIs, CatalogueHas DEF TypesInv, GhostsOK, FilesOK
<1>2. /\ up /\ index' = index /\ indexed' = indexed
      /\ meta' = meta
      /\ \A b \in Agents :
           work'[b] = work[b] \/ (work[b].pc \notin Refreshing /\ work'[b].pc \notin Refreshing)
      /\ \/ victim' = victim
         \/ work[Deleter].pc \notin Refreshing /\ work'[Deleter].pc \notin Refreshing
  BY <1>1, ListRowsIs DEF Becomes, Refreshing, files, copies, ghosts, counts
<1>3. BasesOK' /\ RewrittenIsFresh' /\ NewestOK' /\ indexed'
  BY <1>2, SameBases, SoundIs
<1>4. \A t \in Scans :
        \/ work'[t] = work[t]
        \/ work'[t].pc \in Early /\ work[t].pc \in Early
        \/ work'[t].pc \in Saving /\ work[t].pc \in Saving /\ work'[t].own = work[t].own
        \/ Late(t)' /\ Late(t)
  BY <1>1, ListRowsIs DEF Becomes, Early, Saving, Late
<1>5. FirstTime'
  BY <1>1, <1>2, <1>4, FirstTimeStays
<1>6. \A t \in Scans : Late(t) => Late(t)'
  BY <1>4 DEF Early, Saving, Late
<1>7. \A t \in DOMAIN rows' \union lister'.todo \union ({pdf'.scan} \ {NoBase}) :
        t \in DOMAIN rows \union lister.todo \union ({pdf.scan} \ {NoBase}) \/ Late(t)'
  BY <1>1, ListRowsIs DEF copies
<1>8. \A t \in dirs' :
        \/ work'[t].pc \in Early \/ t \in DOMAIN meta'
        \/ t \in dirs /\ work[t].pc \notin Early /\ (t \in DOMAIN meta => t \in DOMAIN meta')
  BY <1>1, <1>2, <1>4, ListRowsIs DEF Early, Saving, Late, Becomes, files
<1>9. work'[Deleter].pc \in {"drop", "tree", "load", "index"} =>
        \/ work'[Deleter].own # <<>>
        \/ /\ work[Deleter].pc \in {"drop", "tree", "load", "index"}
           /\ work'[Deleter].own = work[Deleter].own
  BY <1>1, ListRowsIs DEF Becomes
<1>10. Backed'
  BY <1>1, <1>6, <1>7, <1>8, <1>9, BackedStays
<1>. QED
  BY <1>3, <1>5, <1>10 DEF Kept, Compared

LEMMA ListIndexBases ==
  ASSUME Sound, Clean', ListIndex
  PROVE  Kept
<1>. USE AgentsAre
<1>1. /\ TypesInv /\ FirstTime /\ Backed
      /\ DOMAIN index \subseteq Scans /\ victim \in Scans /\ dirs \subseteq Scans
  BY SoundIs, CatalogueHas DEF TypesInv, GhostsOK, FilesOK
<1>2. /\ up /\ index' = index /\ indexed' = indexed
      /\ meta' = meta
      /\ \A b \in Agents :
           work'[b] = work[b] \/ (work[b].pc \notin Refreshing /\ work'[b].pc \notin Refreshing)
      /\ \/ victim' = victim
         \/ work[Deleter].pc \notin Refreshing /\ work'[Deleter].pc \notin Refreshing
  BY <1>1, ListIndexIs, TakenUpIs DEF Becomes, Refreshing, files, copies, ghosts, counts
<1>3. BasesOK' /\ RewrittenIsFresh' /\ NewestOK' /\ indexed'
  BY <1>2, SameBases, SoundIs
<1>4. \A t \in Scans :
        \/ work'[t] = work[t]
        \/ work'[t].pc \in Early /\ work[t].pc \in Early
        \/ work'[t].pc \in Saving /\ work[t].pc \in Saving /\ work'[t].own = work[t].own
        \/ Late(t)' /\ Late(t)
  BY <1>1, ListIndexIs, TakenUpIs DEF Becomes, Early, Saving, Late
<1>5. FirstTime'
  BY <1>1, <1>2, <1>4, FirstTimeStays
<1>6. \A t \in Scans : Late(t) => Late(t)'
  BY <1>4 DEF Early, Saving, Late
<1>7. \A t \in DOMAIN rows' \union lister'.todo \union ({pdf'.scan} \ {NoBase}) :
        t \in DOMAIN rows \union lister.todo \union ({pdf.scan} \ {NoBase}) \/ Late(t)'
  BY <1>1, <1>2, <1>6, ListIndexIs DEF FirstTime, copies
<1>8. \A t \in dirs' :
        \/ work'[t].pc \in Early \/ t \in DOMAIN meta'
        \/ t \in dirs /\ work[t].pc \notin Early /\ (t \in DOMAIN meta => t \in DOMAIN meta')
  BY <1>1, <1>2, <1>4, ListIndexIs DEF Early, Saving, Late, Becomes, files
<1>9. work'[Deleter].pc \in {"drop", "tree", "load", "index"} =>
        \/ work'[Deleter].own # <<>>
        \/ /\ work[Deleter].pc \in {"drop", "tree", "load", "index"}
           /\ work'[Deleter].own = work[Deleter].own
  BY <1>1, ListIndexIs, TakenUpIs DEF Becomes
<1>10. Backed'
  BY <1>1, <1>6, <1>7, <1>8, <1>9, BackedStays
<1>. QED
  BY <1>3, <1>5, <1>10 DEF Kept, Compared

LEMMA ListChecksBases ==
  ASSUME Sound, Clean', ListChecks
  PROVE  Kept
<1>. USE AgentsAre
<1>1. /\ TypesInv /\ FirstTime /\ Backed
      /\ DOMAIN index \subseteq Scans /\ victim \in Scans /\ dirs \subseteq Scans
  BY SoundIs, CatalogueHas DEF TypesInv, GhostsOK, FilesOK
<1>2. /\ up /\ index' = index /\ indexed' = indexed
      /\ meta' = meta
      /\ \A b \in Agents :
           work'[b] = work[b] \/ (work[b].pc \notin Refreshing /\ work'[b].pc \notin Refreshing)
      /\ \/ victim' = victim
         \/ work[Deleter].pc \notin Refreshing /\ work'[Deleter].pc \notin Refreshing
  BY <1>1, ListChecksIs DEF Becomes, Refreshing, files, copies, ghosts, counts
<1>3. BasesOK' /\ RewrittenIsFresh' /\ NewestOK' /\ indexed'
  BY <1>2, SameBases, SoundIs
<1>4. \A t \in Scans :
        \/ work'[t] = work[t]
        \/ work'[t].pc \in Early /\ work[t].pc \in Early
        \/ work'[t].pc \in Saving /\ work[t].pc \in Saving /\ work'[t].own = work[t].own
        \/ Late(t)' /\ Late(t)
  BY <1>1, ListChecksIs DEF Becomes, Early, Saving, Late
<1>5. FirstTime'
  BY <1>1, <1>2, <1>4, FirstTimeStays
<1>6. \A t \in Scans : Late(t) => Late(t)'
  BY <1>4 DEF Early, Saving, Late
<1>7. \A t \in DOMAIN rows' \union lister'.todo \union ({pdf'.scan} \ {NoBase}) :
        t \in DOMAIN rows \union lister.todo \union ({pdf.scan} \ {NoBase}) \/ Late(t)'
  BY <1>1, ListChecksIs DEF copies
<1>8. \A t \in dirs' :
        \/ work'[t].pc \in Early \/ t \in DOMAIN meta'
        \/ t \in dirs /\ work[t].pc \notin Early /\ (t \in DOMAIN meta => t \in DOMAIN meta')
  BY <1>1, <1>2, <1>4, ListChecksIs DEF Early, Saving, Late, Becomes, files
<1>9. work'[Deleter].pc \in {"drop", "tree", "load", "index"} =>
        \/ work'[Deleter].own # <<>>
        \/ /\ work[Deleter].pc \in {"drop", "tree", "load", "index"}
           /\ work'[Deleter].own = work[Deleter].own
  BY <1>1, ListChecksIs DEF Becomes
<1>10. Backed'
  BY <1>1, <1>6, <1>7, <1>8, <1>9, BackedStays
<1>. QED
  BY <1>3, <1>5, <1>10 DEF Kept, Compared

LEMMA ListInsertsBases ==
  ASSUME Sound, Clean', ListInserts
  PROVE  Kept
<1>. USE AgentsAre
<1>1. /\ TypesInv /\ FirstTime /\ Backed
      /\ DOMAIN index \subseteq Scans /\ victim \in Scans /\ dirs \subseteq Scans
  BY SoundIs, CatalogueHas DEF TypesInv, GhostsOK, FilesOK
<1>2. /\ up /\ index' = index /\ indexed' = indexed
      /\ meta' = meta
      /\ \A b \in Agents :
           work'[b] = work[b] \/ (work[b].pc \notin Refreshing /\ work'[b].pc \notin Refreshing)
      /\ \/ victim' = victim
         \/ work[Deleter].pc \notin Refreshing /\ work'[Deleter].pc \notin Refreshing
  BY <1>1, ListInsertsIs DEF Becomes, Refreshing, files, copies, ghosts, counts
<1>3. BasesOK' /\ RewrittenIsFresh' /\ NewestOK' /\ indexed'
  BY <1>2, SameBases, SoundIs
<1>4. \A t \in Scans :
        \/ work'[t] = work[t]
        \/ work'[t].pc \in Early /\ work[t].pc \in Early
        \/ work'[t].pc \in Saving /\ work[t].pc \in Saving /\ work'[t].own = work[t].own
        \/ Late(t)' /\ Late(t)
  BY <1>1, ListInsertsIs DEF Becomes, Early, Saving, Late
<1>5. FirstTime'
  BY <1>1, <1>2, <1>4, FirstTimeStays
<1>6. \A t \in Scans : Late(t) => Late(t)'
  BY <1>4 DEF Early, Saving, Late
<1>7. \A t \in DOMAIN rows' \union lister'.todo \union ({pdf'.scan} \ {NoBase}) :
        t \in DOMAIN rows \union lister.todo \union ({pdf.scan} \ {NoBase}) \/ Late(t)'
  BY <1>1, ListInsertsIs, WithoutNextIs DEF copies
<1>8. \A t \in dirs' :
        \/ work'[t].pc \in Early \/ t \in DOMAIN meta'
        \/ t \in dirs /\ work[t].pc \notin Early /\ (t \in DOMAIN meta => t \in DOMAIN meta')
  BY <1>1, <1>2, <1>4, ListInsertsIs DEF Early, Saving, Late, Becomes, files
<1>9. work'[Deleter].pc \in {"drop", "tree", "load", "index"} =>
        \/ work'[Deleter].own # <<>>
        \/ /\ work[Deleter].pc \in {"drop", "tree", "load", "index"}
           /\ work'[Deleter].own = work[Deleter].own
  BY <1>1, ListInsertsIs DEF Becomes
<1>10. Backed'
  BY <1>1, <1>6, <1>7, <1>8, <1>9, BackedStays
<1>. QED
  BY <1>3, <1>5, <1>10 DEF Kept, Compared

LEMMA PdfPicksBases ==
  ASSUME Sound, Clean', PdfPicks
  PROVE  Kept
<1>. USE AgentsAre
<1>1. /\ TypesInv /\ FirstTime /\ Backed
      /\ DOMAIN index \subseteq Scans /\ victim \in Scans /\ dirs \subseteq Scans
  BY SoundIs, CatalogueHas DEF TypesInv, GhostsOK, FilesOK
<1>2. /\ up /\ index' = index /\ indexed' = indexed
      /\ meta' = meta
      /\ \A b \in Agents :
           work'[b] = work[b] \/ (work[b].pc \notin Refreshing /\ work'[b].pc \notin Refreshing)
      /\ \/ victim' = victim
         \/ work[Deleter].pc \notin Refreshing /\ work'[Deleter].pc \notin Refreshing
  BY <1>1, PdfPicksIs, TakenUpIs DEF Becomes, Refreshing, files, copies, ghosts, counts
<1>3. BasesOK' /\ RewrittenIsFresh' /\ NewestOK' /\ indexed'
  BY <1>2, SameBases, SoundIs
<1>4. \A t \in Scans :
        \/ work'[t] = work[t]
        \/ work'[t].pc \in Early /\ work[t].pc \in Early
        \/ work'[t].pc \in Saving /\ work[t].pc \in Saving /\ work'[t].own = work[t].own
        \/ Late(t)' /\ Late(t)
  BY <1>1, PdfPicksIs, TakenUpIs DEF Becomes, Early, Saving, Late
<1>5. FirstTime'
  BY <1>1, <1>2, <1>4, FirstTimeStays
<1>6. \A t \in Scans : Late(t) => Late(t)'
  BY <1>4 DEF Early, Saving, Late
<1>7. \A t \in DOMAIN rows' \union lister'.todo \union ({pdf'.scan} \ {NoBase}) :
        t \in DOMAIN rows \union lister.todo \union ({pdf.scan} \ {NoBase}) \/ Late(t)'
  BY <1>1, <1>2, <1>6, PdfPicksIs DEF FirstTime, Backed, Listed, copies
<1>8. \A t \in dirs' :
        \/ work'[t].pc \in Early \/ t \in DOMAIN meta'
        \/ t \in dirs /\ work[t].pc \notin Early /\ (t \in DOMAIN meta => t \in DOMAIN meta')
  BY <1>1, <1>2, <1>4, PdfPicksIs DEF Early, Saving, Late, Becomes, files
<1>9. work'[Deleter].pc \in {"drop", "tree", "load", "index"} =>
        \/ work'[Deleter].own # <<>>
        \/ /\ work[Deleter].pc \in {"drop", "tree", "load", "index"}
           /\ work'[Deleter].own = work[Deleter].own
  BY <1>1, PdfPicksIs, TakenUpIs DEF Becomes
<1>10. Backed'
  BY <1>1, <1>6, <1>7, <1>8, <1>9, BackedStays
<1>. QED
  BY <1>3, <1>5, <1>10 DEF Kept, Compared

LEMMA PdfRendersBases ==
  ASSUME Sound, Clean', PdfRenders
  PROVE  Kept
<1>. USE AgentsAre
<1>1. /\ TypesInv /\ FirstTime /\ Backed
      /\ DOMAIN index \subseteq Scans /\ victim \in Scans /\ dirs \subseteq Scans
  BY SoundIs, CatalogueHas DEF TypesInv, GhostsOK, FilesOK
<1>2. /\ up /\ index' = index /\ indexed' = indexed
      /\ meta' = meta
      /\ \A b \in Agents :
           work'[b] = work[b] \/ (work[b].pc \notin Refreshing /\ work'[b].pc \notin Refreshing)
      /\ \/ victim' = victim
         \/ work[Deleter].pc \notin Refreshing /\ work'[Deleter].pc \notin Refreshing
  BY <1>1, PdfRendersIs DEF Becomes, Refreshing, files, copies, ghosts, counts
<1>3. BasesOK' /\ RewrittenIsFresh' /\ NewestOK' /\ indexed'
  BY <1>2, SameBases, SoundIs
<1>4. \A t \in Scans :
        \/ work'[t] = work[t]
        \/ work'[t].pc \in Early /\ work[t].pc \in Early
        \/ work'[t].pc \in Saving /\ work[t].pc \in Saving /\ work'[t].own = work[t].own
        \/ Late(t)' /\ Late(t)
  BY <1>1, PdfRendersIs DEF Becomes, Early, Saving, Late
<1>5. FirstTime'
  BY <1>1, <1>2, <1>4, FirstTimeStays
<1>6. \A t \in Scans : Late(t) => Late(t)'
  BY <1>4 DEF Early, Saving, Late
<1>7. \A t \in DOMAIN rows' \union lister'.todo \union ({pdf'.scan} \ {NoBase}) :
        t \in DOMAIN rows \union lister.todo \union ({pdf.scan} \ {NoBase}) \/ Late(t)'
  BY <1>1, PdfRendersIs, RestingIs DEF copies
<1>8. \A t \in dirs' :
        \/ work'[t].pc \in Early \/ t \in DOMAIN meta'
        \/ t \in dirs /\ work[t].pc \notin Early /\ (t \in DOMAIN meta => t \in DOMAIN meta')
  BY <1>1, <1>2, <1>4, PdfRendersIs DEF Early, Saving, Late, Becomes, files
<1>9. work'[Deleter].pc \in {"drop", "tree", "load", "index"} =>
        \/ work'[Deleter].own # <<>>
        \/ /\ work[Deleter].pc \in {"drop", "tree", "load", "index"}
           /\ work'[Deleter].own = work[Deleter].own
  BY <1>1, PdfRendersIs DEF Becomes
<1>10. Backed'
  BY <1>1, <1>6, <1>7, <1>8, <1>9, BackedStays
<1>. QED
  BY <1>3, <1>5, <1>10 DEF Kept, Compared

LEMMA PdfPersistsBases ==
  ASSUME Sound, Clean', PdfPersists
  PROVE  Kept
<1>. USE AgentsAre
<1>1. /\ TypesInv /\ FirstTime /\ Backed
      /\ DOMAIN index \subseteq Scans /\ victim \in Scans /\ dirs \subseteq Scans
  BY SoundIs, CatalogueHas DEF TypesInv, GhostsOK, FilesOK
<1>2. /\ up /\ index' = index /\ indexed' = indexed
      /\ meta' = meta
      /\ \A b \in Agents :
           work'[b] = work[b] \/ (work[b].pc \notin Refreshing /\ work'[b].pc \notin Refreshing)
      /\ \/ victim' = victim
         \/ work[Deleter].pc \notin Refreshing /\ work'[Deleter].pc \notin Refreshing
  BY <1>1, PdfPersistsIs DEF Becomes, Refreshing, files, copies, ghosts, counts
<1>3. BasesOK' /\ RewrittenIsFresh' /\ NewestOK' /\ indexed'
  BY <1>2, SameBases, SoundIs
<1>4. \A t \in Scans :
        \/ work'[t] = work[t]
        \/ work'[t].pc \in Early /\ work[t].pc \in Early
        \/ work'[t].pc \in Saving /\ work[t].pc \in Saving /\ work'[t].own = work[t].own
        \/ Late(t)' /\ Late(t)
  BY <1>1, PdfPersistsIs DEF Becomes, Early, Saving, Late
<1>5. FirstTime'
  BY <1>1, <1>2, <1>4, FirstTimeStays
<1>6. \A t \in Scans : Late(t) => Late(t)'
  BY <1>4 DEF Early, Saving, Late
<1>7. \A t \in DOMAIN rows' \union lister'.todo \union ({pdf'.scan} \ {NoBase}) :
        t \in DOMAIN rows \union lister.todo \union ({pdf.scan} \ {NoBase}) \/ Late(t)'
  BY <1>1, PdfPersistsIs, RestingIs DEF copies, NoBase, Scans
<1>8. \A t \in dirs' :
        \/ work'[t].pc \in Early \/ t \in DOMAIN meta'
        \/ t \in dirs /\ work[t].pc \notin Early /\ (t \in DOMAIN meta => t \in DOMAIN meta')
  BY <1>1, <1>2, <1>4, PdfPersistsIs DEF Early, Saving, Late, Becomes, files
<1>9. work'[Deleter].pc \in {"drop", "tree", "load", "index"} =>
        \/ work'[Deleter].own # <<>>
        \/ /\ work[Deleter].pc \in {"drop", "tree", "load", "index"}
           /\ work'[Deleter].own = work[Deleter].own
  BY <1>1, PdfPersistsIs DEF Becomes
<1>10. Backed'
  BY <1>1, <1>6, <1>7, <1>8, <1>9, BackedStays
<1>. QED
  BY <1>3, <1>5, <1>10 DEF Kept, Compared

LEMMA DeleteBeginsBases ==
  ASSUME Sound, Clean', NEW s \in Scans, DeleteBegins(s)
  PROVE  Kept
<1>. USE AgentsAre
<1>1. /\ TypesInv /\ FirstTime /\ Backed
      /\ DOMAIN index \subseteq Scans /\ victim \in Scans /\ dirs \subseteq Scans
  BY SoundIs, CatalogueHas DEF TypesInv, GhostsOK, FilesOK
<1>2. /\ up /\ index' = index /\ indexed' = indexed
      /\ meta' = meta
      /\ \A b \in Agents :
           work'[b] = work[b] \/ (work[b].pc \notin Refreshing /\ work'[b].pc \notin Refreshing)
      /\ \/ victim' = victim
         \/ work[Deleter].pc \notin Refreshing /\ work'[Deleter].pc \notin Refreshing
  BY <1>1, DeleteBeginsIs DEF Becomes, Refreshing, files, copies, ghosts, counts
<1>3. BasesOK' /\ RewrittenIsFresh' /\ NewestOK' /\ indexed'
  BY <1>2, SameBases, SoundIs
<1>4. \A t \in Scans :
        \/ work'[t] = work[t]
        \/ work'[t].pc \in Early /\ work[t].pc \in Early
        \/ work'[t].pc \in Saving /\ work[t].pc \in Saving /\ work'[t].own = work[t].own
        \/ Late(t)' /\ Late(t)
  BY <1>1, DeleteBeginsIs DEF Becomes, Early, Saving, Late
<1>5. FirstTime'
  BY <1>1, <1>2, <1>4, FirstTimeStays
<1>6. \A t \in Scans : Late(t) => Late(t)'
  BY <1>4 DEF Early, Saving, Late
<1>7. \A t \in DOMAIN rows' \union lister'.todo \union ({pdf'.scan} \ {NoBase}) :
        t \in DOMAIN rows \union lister.todo \union ({pdf.scan} \ {NoBase}) \/ Late(t)'
  BY <1>1, DeleteBeginsIs DEF copies
<1>8. \A t \in dirs' :
        \/ work'[t].pc \in Early \/ t \in DOMAIN meta'
        \/ t \in dirs /\ work[t].pc \notin Early /\ (t \in DOMAIN meta => t \in DOMAIN meta')
  BY <1>1, <1>2, <1>4, DeleteBeginsIs DEF Early, Saving, Late, Becomes, files
<1>9. work'[Deleter].pc \in {"drop", "tree", "load", "index"} =>
        \/ work'[Deleter].own # <<>>
        \/ /\ work[Deleter].pc \in {"drop", "tree", "load", "index"}
           /\ work'[Deleter].own = work[Deleter].own
  <2>1. Late(s)
    BY <1>1, DeleteBeginsIs DEF Listed, FirstTime, Backed
  <2>2. s \in DOMAIN meta
    BY <1>1, <2>1, DeleteBeginsIs DEF Backed, Late
  <2>. QED
    BY <1>1, <2>2, DeleteBeginsIs DEF Becomes
<1>10. Backed'
  BY <1>1, <1>6, <1>7, <1>8, <1>9, BackedStays
<1>. QED
  BY <1>3, <1>5, <1>10 DEF Kept, Compared

LEMMA WriteMetaBases ==
  ASSUME Sound, Clean', NEW s \in Scans, WriteMeta(s)
  PROVE  Kept
<1>. USE AgentsAre
<1>1. TypesInv /\ FirstTime /\ Backed /\ DOMAIN index \subseteq Scans /\ dirs \subseteq Scans
  BY SoundIs, CatalogueHas DEF TypesInv, FilesOK
<1>2. /\ up /\ index' = index /\ indexed' = indexed /\ victim' = victim
      /\ work[s].pc = "meta" /\ work'[s].pc = "load" /\ work'[s].own = Only(s, meta'[s])
      /\ \A b \in Agents \ {s} : work'[b] = work[b]
      /\ meta' = Put(meta, s, meta'[s])
      /\ \/ s \in DOMAIN meta \/ meta'[s].base = NoBase
      /\ dirs' = dirs \union {s}
      /\ UNCHANGED <<rows, lister, pdf>>
  BY <1>1, WriteMetaIs DEF Becomes, copies
<1>3. BasesOK' /\ RewrittenIsFresh' /\ NewestOK' /\ indexed'
  BY <1>2, SameBases, SoundIs DEF Refreshing
<1>4. DOMAIN meta' = DOMAIN meta \union {s}
  <2>1. PICK m : m = meta'[s]
    OBVIOUS
  <2>2. meta' = Put(meta, s, m)
    BY <1>2, <2>1
  <2>. QED
    BY <2>2, PutDomain
<1>5. work'[s].own[s].base = NoBase
  <2>1. PICK m : m = meta'[s]
    OBVIOUS
  <2>2. work'[s].own = Only(s, m)
    BY <1>2, <2>1
  <2>3. work'[s].own[s] = m
    BY <2>2, OnlyIs
  <2>4. s \notin DOMAIN meta
    BY <1>1, <1>2 DEF FirstTime
  <2>. QED
    BY <1>2, <2>1, <2>3, <2>4
<1>6. FirstTime'
  BY <1>1, <1>2, <1>4, <1>5 DEF FirstTime, Late
<1>7. Backed'
  <2>1. \A t \in Scans : Late(t) => Late(t)'
    BY <1>2 DEF Late
  <2>2. \A t \in dirs' :
          \/ t \in DOMAIN meta'
          \/ (t \in dirs /\ work[t].pc \notin Early) \/ work'[t].pc \in Early
    BY <1>1, <1>2, <1>4 DEF Early
  <2>3. DOMAIN meta \subseteq DOMAIN meta' /\ dirs' \ {s} \subseteq dirs /\ s \in DOMAIN meta'
    BY <1>2, <1>4
  <2>4. work'[Deleter] = work[Deleter]
    BY <1>2
  <2>. QED
    BY <1>1, <1>2, <2>1, <2>2, <2>3, <2>4, BackedStays
<1>. QED
  BY <1>3, <1>6, <1>7 DEF Kept, Compared

LEMMA SaveIndexBases ==
  ASSUME Sound, Clean', NEW a \in Agents, SaveIndex(a)
  PROVE  Kept
<1>. USE AgentsAre
<1>1. /\ TypesInv /\ FirstTime /\ Backed /\ BasesOK /\ RewrittenIsFresh
      /\ DOMAIN index \subseteq Scans
  BY SoundIs, CatalogueHas DEF TypesInv, FilesOK
<1>2. /\ up /\ work[a].pc = "index" /\ a \notin stale
      /\ \A b \in Agents \ {a} : work'[b] = work[b]
      /\ UNCHANGED <<indexed, dirs, meta, rows, victim, lister, pdf>>
  BY <1>1, SaveIndexIs, OvertakeIs DEF Becomes, Clean, files
<1>3. indexed /\ work[a].snap = index
  BY <1>2, SoundIs DEF HeldIsCurrent, Holding
<1>4. work'[a].pc = "refresh" /\ work'[a].own = work[a].own
  <2>1. a = Deleter => work[a].own # <<>>
    BY <1>1, <1>2 DEF Backed
  <2>. QED
    BY <1>1, <2>1, SaveIndexIs DEF Becomes
<1>5. RewrittenIsFresh'
  <2>1. ASSUME NEW b \in Agents, work'[b].pc \in {"rewrite", "reindex"}
        PROVE  b # a /\ \A s \in Rewritten(b)' : Fresh(work[b].snap, s)'
    <3>1. b # a /\ work'[b] = work[b]
      BY <1>2, <1>4, <2>1
    <3>. QED
      BY <1>1, <2>1, <3>1, FreshStays
  <2>. QED
    BY <2>1 DEF RewrittenIsFresh
<1>6. NewestOK'
  BY <1>4 DEF NewestOK, Refreshing
<1>7. Backed'
  BY <1>1, <1>2, <1>4, AgentBacked DEF Saving, Early
<1>8. FirstTime' /\ BasesOK'
  <2>1. CASE a = Deleter
    <3>1. index' = Without(index, victim)
      BY <1>1, <1>2, <1>3, <2>1, SaveIndexIs, EntryChangedIs
    <3>2. DOMAIN index' = DOMAIN index \ {victim}
      BY <3>1, WithoutDomain
    <3>3. \A t \in DOMAIN index \ {victim} : index'[t] = index[t]
      BY <3>1, WithoutElsewhere
    <3>4. FirstTime'
      BY <1>1, <1>2, <2>1, <3>2, FirstTimeStays
    <3>5. BasesOK'
      BY <1>1, <1>2, <1>4, <2>1, <3>2, <3>3 DEF BasesOK, Before, Refreshing
    <3>. QED
      BY <3>4, <3>5
  <2>2. CASE a # Deleter
    <3>1. /\ index' = Put(index, a, work[a].own[a]) /\ a \in Scans
      BY <1>1, <1>2, <1>3, <2>2, SaveIndexIs, EntryChangedIs
    <3>2. DOMAIN index' = DOMAIN index \union {a}
      BY <3>1, PutDomain
    <3>3. \A t \in DOMAIN index \ {a} : index'[t] = index[t]
      BY <3>1, PutElsewhere
    <3>4. index'[a] = work[a].own[a]
      BY <3>1, PutHere
    <3>5. a \notin DOMAIN index /\ work[a].own[a].base = NoBase
      BY <1>1, <1>2, <3>1 DEF FirstTime, Late
    <3>6. FirstTime'
      BY <1>1, <1>2, <1>4, <3>2 DEF FirstTime, Late
    <3>7. BasesOK'
      BY <1>1, <1>2, <2>2, <3>2, <3>3, <3>4, <3>5 DEF BasesOK, Before
    <3>. QED
      BY <3>6, <3>7
  <2>. QED
    BY <2>1, <2>2
<1>. QED
  BY <1>2, <1>3, <1>5, <1>6, <1>7, <1>8 DEF Kept, Compared

LEMMA RefreshLoadsBases ==
  ASSUME Sound, Clean', NEW a \in Agents, RefreshLoads(a)
  PROVE  Kept
<1>. USE AgentsAre
<1>1. /\ TypesInv /\ FirstTime /\ Backed /\ BasesOK /\ RewrittenIsFresh /\ (up => indexed)
      /\ DOMAIN index \subseteq Scans
  BY SoundIs, CatalogueHas DEF TypesInv, FilesOK
<1>2. /\ up /\ work[a].pc = "refresh"
      /\ \A b \in Agents \ {a} : work'[b] = work[b]
      /\ UNCHANGED <<index, indexed, dirs, meta, rows, victim, lister, pdf>>
      /\ \/ DOMAIN index = {} /\ a = Deleter /\ work'[a].pc = "idle"
         \/ DOMAIN index = {} /\ a # Deleter /\ work'[a].pc = "row"
         \/ work'[a].pc = "rewrite" /\ work'[a].snap = index /\ work'[a].todo = ToRefresh(a)
  BY <1>1, RefreshLoadsIs DEF Becomes, files, copies
<1>3. work'[a].pc = "rewrite" => Rewritten(a)' = {}
  <2>1. ASSUME work'[a].pc = "rewrite"
        PROVE  HalfWritten(a)' = work'[a].todo
    BY <1>2, <2>1 DEF HalfWritten, ToRefresh
  <2>. QED
    BY <2>1 DEF Rewritten
<1>4. RewrittenIsFresh'
  <2>1. ASSUME NEW b \in Agents, work'[b].pc \in {"rewrite", "reindex"}, NEW s \in Rewritten(b)'
        PROVE  Fresh(work[b].snap, s)'
    <3>1. b # a
      BY <1>2, <1>3, <2>1
    <3>. QED
      BY <1>1, <1>2, <2>1, <3>1, FreshStays
  <2>. QED
    BY <2>1 DEF RewrittenIsFresh
<1>5. NewestOK'
  BY <1>2 DEF NewestOK, Refreshing
<1>6. BasesOK'
  <2>1. CASE DOMAIN index = {}
    BY <1>2, <2>1 DEF BasesOK
  <2>2. CASE work'[a].pc = "rewrite"
    BY <1>1, <1>2, <2>2 DEF BasesOK, Before, Refreshing
  <2>. QED
    BY <1>2, <2>1, <2>2
<1>7. FirstTime'
  BY <1>1, <1>2, FirstTimeStays DEF Early, Saving, Late
<1>8. Backed'
  BY <1>1, <1>2, AgentBacked DEF Saving, Early
<1>. QED
  BY <1>1, <1>2, <1>4, <1>5, <1>6, <1>7, <1>8 DEF Kept, Compared

LEMMA RefreshRewritesBases ==
  ASSUME Sound, Clean', NEW a \in Agents, RefreshRewrites(a)
  PROVE  Kept
<1>. USE AgentsAre
<1>1. /\ TypesInv /\ FirstTime /\ Backed /\ BasesOK /\ RewrittenIsFresh /\ (up => indexed)
      /\ DOMAIN index \subseteq Scans
  BY SoundIs, CatalogueHas DEF TypesInv, FilesOK
<1>2. PICK s \in work[a].todo, d \in Meta :
        /\ s \in HalfWritten(a) /\ s \in DOMAIN work[a].snap
        /\ d.stamp = work[a].snap[s].stamp /\ d.base \in {NoBase, Previous(work[a].snap, s)}
        /\ meta' = IF s \in DOMAIN meta THEN Put(meta, s, d) ELSE meta
        /\ Becomes(a, IF work[a].todo = {s} THEN "reindex" ELSE "rewrite", work[a].own,
                   Put(work[a].snap, s, d), work[a].todo \ {s})
  BY <1>1, RefreshRewritesIs
<1>3. /\ up /\ work[a].pc = "rewrite"
      /\ UNCHANGED <<index, indexed, dirs, rows, victim, lister, pdf>>
  BY <1>1, RefreshRewritesIs DEF copies
<1>4. DOMAIN meta' = DOMAIN meta
  <2>1. CASE s \in DOMAIN meta
    <3>1. DOMAIN meta' = DOMAIN meta \union {s}
      BY <1>2, <2>1, PutDomain
    <3>. QED
      BY <2>1, <3>1
  <2>2. CASE s \notin DOMAIN meta
    BY <1>2, <2>2
  <2>. QED
    BY <2>1, <2>2
<1>5. PICK pc \in {"rewrite", "reindex"} : pc = IF work[a].todo = {s} THEN "reindex" ELSE "rewrite"
  OBVIOUS
<1>6. Becomes(a, pc, work[a].own, Put(work[a].snap, s, d), work[a].todo \ {s})
  BY <1>2, <1>5
<1>7. /\ work'[a].snap[s] = d /\ DOMAIN work'[a].snap = DOMAIN work[a].snap
      /\ \A t \in DOMAIN work[a].snap \ {s} : work'[a].snap[t] = work[a].snap[t]
      /\ \A t \in DOMAIN work[a].snap : work'[a].snap[t].stamp = work[a].snap[t].stamp
      /\ HalfWritten(a)' = HalfWritten(a) /\ Rewritten(a)' = Rewritten(a) \union {s}
  BY <1>1, <1>2, <1>3, <1>6, RewrittenMore
<1>8. /\ work'[a].pc \in {"rewrite", "reindex"} /\ work'[a].own = work[a].own
      /\ \A b \in Agents \ {a} : work'[b] = work[b]
  BY <1>6 DEF Becomes
<1>9. \A t \in DOMAIN work[a].snap : Previous(work'[a].snap, t) = Previous(work[a].snap, t)
  <2>1. PICK g : g = work'[a].snap
    OBVIOUS
  <2>2. ASSUME NEW t \in DOMAIN work[a].snap
        PROVE  Previous(g, t) = Previous(work[a].snap, t)
    BY <1>7, <2>1, SamePrevious
  <2>. QED
    BY <2>1, <2>2
<1>10. \A t \in Rewritten(a)' : Fresh(work[a].snap, t)'
  <2>1. ASSUME NEW t \in Rewritten(a) \union {s}
        PROVE  work'[a].snap[t].base \in {NoBase, Previous(work'[a].snap, t)}
    <3>1. t \in DOMAIN work[a].snap
      BY <1>1, <1>2, <1>3, HalfWrittenIs DEF Rewritten
    <3>2. CASE t = s
      BY <1>2, <1>7, <1>9, <3>1, <3>2
    <3>3. CASE t # s
      BY <1>1, <1>3, <1>7, <1>9, <2>1, <3>1, <3>3 DEF RewrittenIsFresh, Fresh
    <3>. QED
      BY <3>2, <3>3
  <2>. QED
    BY <1>7, <2>1 DEF Fresh
<1>11. RewrittenIsFresh'
  <2>1. ASSUME NEW b \in Agents \ {a}, work'[b].pc \in {"rewrite", "reindex"}
        PROVE  \A t \in Rewritten(b)' : Fresh(work[b].snap, t)'
    BY <1>1, <1>8, <2>1, FreshStays
  <2>. QED
    BY <1>10, <2>1 DEF RewrittenIsFresh
<1>12. NewestOK'
  BY <1>8 DEF NewestOK, Refreshing
<1>13. BasesOK'
  BY <1>1, <1>3, <1>8 DEF BasesOK, Before, Refreshing
<1>14. FirstTime'
  BY <1>1, <1>3, <1>4, <1>8, FirstTimeStays DEF Early, Saving, Late
<1>15. Backed'
  BY <1>1, <1>3, <1>4, <1>8, AgentBacked DEF Saving, Early
<1>. QED
  BY <1>1, <1>3, <1>11, <1>12, <1>13, <1>14, <1>15 DEF Kept, Compared

LEMMA RefreshSavesBases ==
  ASSUME Sound, Clean', NEW a \in Agents, RefreshSaves(a)
  PROVE  Kept
<1>. USE AgentsAre
<1>1. /\ TypesInv /\ FirstTime /\ Backed /\ BasesOK /\ RewrittenIsFresh
      /\ up => indexed /\ HeldIsCurrent
      /\ DOMAIN index \subseteq Scans
  BY SoundIs, CatalogueHas DEF TypesInv, FilesOK
<1>2. /\ up /\ work[a].pc = "reindex" /\ a \notin stale /\ index' = work[a].snap /\ index' \in Catalogues
      /\ \A b \in Agents \ {a} : work'[b] = work[b]
      /\ a = Deleter => work'[a].pc = "idle"
      /\ a # Deleter => work'[a].pc = "row"
      /\ UNCHANGED <<indexed, dirs, meta, rows, victim, lister, pdf>>
  BY <1>1, RefreshSavesIs, OvertakeIs DEF Becomes, Clean, files
<1>3. PICK g \in Catalogues : g = work[a].snap
  BY <1>2
<1>4. index' = g
  BY <1>2, <1>3
<1>5. /\ DOMAIN g = DOMAIN index
      /\ \A t \in DOMAIN index : g[t].stamp = index[t].stamp
      /\ \A t \in DOMAIN index \ HalfWritten(a) : g[t] = index[t]
  BY <1>1, <1>2, <1>3 DEF HeldIsCurrent, Holding, Rewritten
<1>6. \A t \in HalfWritten(a) : Fresh(g, t)
  <2>1. work[a].todo = {}
    BY <1>1, <1>2 DEF TypesInv, WorkOK
  <2>2. Rewritten(a) = HalfWritten(a)
    BY <2>1 DEF Rewritten
  <2>. QED
    BY <1>1, <1>2, <1>3, <2>2 DEF RewrittenIsFresh
<1>7. /\ HalfWritten(a) \subseteq DOMAIN g
      /\ a = Deleter => HalfWritten(a) = DOMAIN g
      /\ a # Deleter => HalfWritten(a) = {Last(g, DOMAIN g)}
      /\ DOMAIN g # {}
  BY <1>1, <1>2, <1>3, HalfWrittenIs DEF TypesInv, WorkOK
<1>8. \A t \in HalfWritten(a) : g[t].base # NoBase => g[t].base \in Before(g, t)
  BY <1>6, <1>7, PreviousIs DEF Fresh
<1>9. Fresh(g, Last(g, DOMAIN g))
  BY <1>6, <1>7, LastIs
<1>10. BasesOK'
  <2>1. ASSUME NEW t \in DOMAIN g, g[t].base # NoBase
        PROVE  g[t].base \in Before(g, t) \/ (work'[Deleter].pc \in Refreshing /\ g[t].base = victim)
    <3>1. CASE t \in HalfWritten(a)
      BY <1>8, <2>1, <3>1
    <3>2. CASE t \notin HalfWritten(a)
      <4>1. a # Deleter /\ g[t] = index[t] /\ t \in DOMAIN index /\ Before(g, t) = Before(index, t)
        BY <1>5, <1>7, <2>1, <3>2, SamePrevious
      <4>. QED
        BY <1>1, <1>2, <2>1, <4>1 DEF BasesOK
    <3>. QED
      BY <3>1, <3>2
  <2>2. \A t : Before(index, t)' = Before(g, t)
    BY <1>4 DEF Before
  <2>. QED
    BY <1>2, <1>4, <2>1, <2>2 DEF BasesOK
<1>11. NewestOK'
  <2>1. Fresh(index, Last(index, DOMAIN index))' <=> Fresh(g, Last(g, DOMAIN g))
    BY <1>4 DEF Fresh, Previous, Before, Last
  <2>. QED
    BY <1>9, <2>1 DEF NewestOK
<1>12. RewrittenIsFresh'
  <2>1. ASSUME NEW b \in Agents, work'[b].pc \in {"rewrite", "reindex"}
        PROVE  \A t \in Rewritten(b)' : Fresh(work[b].snap, t)'
    <3>1. b # a
      BY <1>2, <2>1
    <3>. QED
      BY <1>1, <1>2, <2>1, <3>1, FreshStays
  <2>. QED
    BY <2>1 DEF RewrittenIsFresh
<1>13. FirstTime'
  BY <1>1, <1>2, <1>4, <1>5, FirstTimeStays DEF Early, Saving, Late
<1>14. Backed'
  BY <1>1, <1>2, AgentBacked DEF Saving, Early
<1>. QED
  BY <1>1, <1>2, <1>10, <1>11, <1>12, <1>13, <1>14 DEF Kept, Compared

LEMMA StartsBases ==
  ASSUME Sound, Clean', Starts
  PROVE  Kept
<1>. USE AgentsAre
<1>1. /\ TypesInv /\ FirstTime /\ Backed /\ BasesOK /\ NewestOK
      /\ ~indexed => index = <<>> /\ \A s \in DOMAIN meta : meta[s].base = NoBase
  BY SoundIs DEF Sound, BaseInv, Clean
<1>2. /\ ~up /\ indexed' /\ index' = (IF indexed THEN index ELSE meta)
      /\ DOMAIN rows' = DOMAIN rows \union DOMAIN index'
      /\ UNCHANGED <<dirs, meta, work, victim, lister, pdf>>
  BY <1>1, StartsIs DEF files
<1>3. \A a \in Agents : work[a].pc \in {"idle", "done", "dead"}
  BY <1>1, <1>2 DEF TypesInv, WorkOK
<1>4. /\ index \in Catalogues /\ meta \in Catalogues
      /\ DOMAIN index \subseteq Scans /\ DOMAIN meta \subseteq Scans
  BY <1>1, CatalogueHas DEF TypesInv, FilesOK
<1>5. RewrittenIsFresh'
  BY <1>2, <1>3 DEF RewrittenIsFresh
<1>6. CASE indexed
  <2>1. index' = index
    BY <1>2, <1>6
  <2>2. FirstTime'
    BY <1>1, <1>2, <1>4, <2>1, FirstTimeStays
  <2>3. Backed'
    BY <1>1, <1>2, <2>1, <2>2, BackedStays DEF FirstTime, Late, Early
  <2>5. BasesOK' /\ NewestOK'
    BY <1>1, <1>2, <2>1 DEF BasesOK, NewestOK, Fresh, Previous, Before, Last
  <2>. QED
    BY <1>2, <1>5, <2>2, <2>3, <2>5 DEF Kept, Compared
<1>7. CASE ~indexed
  <2>1. index' = meta
    BY <1>2, <1>7
  <2>2. FirstTime'
    BY <1>1, <1>2, <1>3, <1>4, <2>1 DEF FirstTime, Late
  <2>3. Backed'
    BY <1>1, <1>2, <2>1, <2>2, BackedStays DEF FirstTime, Late, Early
  <2>4. BasesOK'
    BY <1>1, <1>7, <2>1 DEF BasesOK
  <2>5. DOMAIN meta # {} => meta[Last(meta, DOMAIN meta)].base = NoBase
    BY <1>1, <1>4, <1>7, LastIs
  <2>6. NewestOK'
    BY <2>1, <2>5 DEF NewestOK, Fresh, Last
  <2>. QED
    BY <1>2, <1>5, <2>2, <2>3, <2>4, <2>6 DEF Kept, Compared
<1>. QED
  BY <1>6, <1>7

LEMMA StutterBases ==
  ASSUME BaseInv, UNCHANGED vars
  PROVE  BaseInv'
<1>1. BaseInv' <=> BaseInv
  BY DEF BaseInv, vars, files, copies, ghosts, counts, FirstTime, Backed, BasesOK,
     RewrittenIsFresh,
         NewestOK, Fresh, Previous, Before, Last, Rewritten, HalfWritten, Late
<1>. QED
  BY <1>1

LEMMA BaseStep ==
  TypesInv /\ IndexInv /\ BaseInv /\ [Next]_vars => BaseInv'
<1>. SUFFICES ASSUME TypesInv, IndexInv, BaseInv, [Next]_vars, Clean'
              PROVE  Kept \/ BaseInv'
  BY DEF BaseInv, Kept, Compared, Clean
<1>0. Sound
  BY CleanStays DEF Sound
<1>1. ASSUME NEW s \in Scans, BeginReport(s)
      PROVE  Kept \/ BaseInv'
  BY <1>1, <1>0, BeginReportBases
<1>2. ASSUME NEW s \in Scans, NEW v \in Over, ScanEnds(s, v)
      PROVE  Kept \/ BaseInv'
  BY <1>2, <1>0, ScanEndsBases
<1>3. ASSUME NEW s \in Scans, WriteMeta(s)
      PROVE  Kept \/ BaseInv'
  BY <1>3, <1>0, WriteMetaBases
<1>4. ASSUME NEW s \in Scans, PersistRow(s)
      PROVE  Kept \/ BaseInv'
  BY <1>4, <1>0, PersistRowBases
<1>5. ASSUME NEW s \in Scans, DeleteBegins(s)
      PROVE  Kept \/ BaseInv'
  BY <1>5, <1>0, DeleteBeginsBases
<1>6. ASSUME NEW a \in Agents, LoadIndex(a)
      PROVE  Kept \/ BaseInv'
  BY <1>6, <1>0, LoadIndexBases
<1>7. ASSUME NEW a \in Agents, SaveIndex(a)
      PROVE  Kept \/ BaseInv'
  BY <1>7, <1>0, SaveIndexBases
<1>8. ASSUME NEW a \in Agents, RefreshLoads(a)
      PROVE  Kept \/ BaseInv'
  BY <1>8, <1>0, RefreshLoadsBases
<1>9. ASSUME NEW a \in Agents, RefreshRewrites(a)
      PROVE  Kept \/ BaseInv'
  BY <1>9, <1>0, RefreshRewritesBases
<1>10. ASSUME NEW a \in Agents, RefreshSaves(a)
       PROVE  Kept \/ BaseInv'
  BY <1>10, <1>0, RefreshSavesBases
<1>11. ASSUME NEW a \in Agents, Raises(a)
       PROVE  Kept \/ BaseInv'
  BY <1>11, RaisesIs DEF Clean, OneFault
<1>12. ASSUME DeleteRow
       PROVE  Kept \/ BaseInv'
  BY <1>12, <1>0, DeleteRowBases
<1>13. ASSUME DeleteTree
       PROVE  Kept \/ BaseInv'
  BY <1>13, <1>0, DeleteTreeBases
<1>14. ASSUME ListRows
       PROVE  Kept \/ BaseInv'
  BY <1>14, <1>0, ListRowsBases
<1>15. ASSUME ListIndex
       PROVE  Kept \/ BaseInv'
  BY <1>15, <1>0, ListIndexBases
<1>16. ASSUME ListChecks
       PROVE  Kept \/ BaseInv'
  BY <1>16, <1>0, ListChecksBases
<1>17. ASSUME ListInserts
       PROVE  Kept \/ BaseInv'
  BY <1>17, <1>0, ListInsertsBases
<1>18. ASSUME PdfPicks
       PROVE  Kept \/ BaseInv'
  BY <1>18, <1>0, PdfPicksBases
<1>19. ASSUME PdfRenders
       PROVE  Kept \/ BaseInv'
  BY <1>19, <1>0, PdfRendersBases
<1>20. ASSUME PdfPersists
       PROVE  Kept \/ BaseInv'
  BY <1>20, <1>0, PdfPersistsBases
<1>21. ASSUME Dies
       PROVE  Kept \/ BaseInv'
  BY <1>21, DiesIs DEF Clean, OneFault
<1>22. ASSUME Starts
       PROVE  Kept \/ BaseInv'
  BY <1>22, <1>0, StartsBases
<1>23. ASSUME UNCHANGED vars
       PROVE  Kept \/ BaseInv'
  BY <1>23, StutterBases
<1>. QED
  BY <1>1, <1>2, <1>3, <1>4, <1>5, <1>6, <1>7, <1>8, <1>9, <1>10, <1>11, <1>12, <1>13, <1>14,
     <1>15, <1>16, <1>17, <1>18, <1>19, <1>20, <1>21, <1>22, <1>23 DEF Next

LEMMA BaseInit == Init => BaseInv
<1>. SUFFICES ASSUME Init
              PROVE  BaseInv
  OBVIOUS
<1>. USE AgentsAre
<1>1. /\ index = <<>> /\ rows = <<>> /\ ~indexed /\ DOMAIN meta = 1..Legacy
      /\ lister.todo = {} /\ pdf.scan = NoBase /\ dirs = 1..Legacy
  BY RestingIs DEF Init
<1>2. \A s \in DOMAIN meta : meta[s].base = NoBase
  BY DEF Init
<1>3. \A a \in Agents : work[a].pc = IF a \in 1..Legacy THEN "done" ELSE "idle"
  BY IdleIs DEF Init, Idle
<1>4. Deleter \notin 1..Legacy
  BY ArchiveAssumption DEF Deleter
<1>5. FirstTime
  BY <1>1, <1>3, EmptyCatalogue DEF FirstTime
<1>6. Backed
  BY <1>1, <1>3, <1>4, EmptyCatalogue DEF Backed
<1>7. BasesOK /\ NewestOK
  BY <1>1, EmptyCatalogue DEF BasesOK, NewestOK
<1>8. RewrittenIsFresh
  BY <1>3 DEF RewrittenIsFresh
<1>. QED
  BY <1>1, <1>2, <1>5, <1>6, <1>7, <1>8 DEF BaseInv

\* When nothing is lost and no write has failed, an entry at rest names an older scan that is still there, and the newest one the
\* scan right before it.
LEMMA BaseInvIsCurrent == TypesInv /\ BaseInv => BaselinesAreCurrent
<1>. SUFFICES ASSUME TypesInv, BaseInv, up, Settled, Clean,
                     NEW s \in DOMAIN index, index[s].base # NoBase
              PROVE  /\ index[s].base \in Before(index, s)
                     /\ s = Last(index, DOMAIN index) => index[s].base = Previous(index, s)
  BY DEF BaselinesAreCurrent, Clean
<1>. USE AgentsAre
<1>1. BasesOK /\ NewestOK
  BY ComparedHolds
<1>2. \A a \in Agents : work[a].pc \notin Refreshing
  BY DEF Settled, Refreshing
<1>3. index[s].base \in Before(index, s)
  BY <1>1, <1>2 DEF BasesOK
<1>4. Fresh(index, Last(index, DOMAIN index))
  BY <1>1, <1>2 DEF NewestOK
<1>. QED
  BY <1>3, <1>4 DEF Fresh

\* No summary of differences refers to a deleted scan or to a later one, and that of
\* the newest report refers to the report right before it, unless a save was lost or
\* a write failed.
THEOREM BaselinesStayCurrent == Spec => []BaselinesAreCurrent
<1>1. Init => TypesInv /\ DeletionInv /\ IndexInv /\ BaseInv
  BY TypesInit, DeletionInit, IndexInit, BaseInit
<1>2. TypesInv /\ DeletionInv /\ IndexInv /\ BaseInv /\ [Next]_vars
        => (TypesInv /\ DeletionInv /\ IndexInv /\ BaseInv)'
  BY TypesStep, DeletionStep, IndexStep, BaseStep
<1>3. TypesInv /\ BaseInv => BaselinesAreCurrent
  BY BaseInvIsCurrent
<1>. QED
  BY <1>1, <1>2, <1>3, PTL DEF Spec

==============================================================================
