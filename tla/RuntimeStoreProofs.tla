--------------------------- MODULE RuntimeStoreProofs ---------------------------
(***************************************************************************)
(* Proofs about the runtime database.                                      *)
(***************************************************************************)
EXTENDS RuntimeStore, FiniteSetTheorems, SequenceTheorems, TLAPS

-----------------------------------------------------------------------------
(* Trimming.  What a trim keeps of a job's events is the newest of them.    *)

LEMMA Smallest ==
  ASSUME NEW S \in SUBSET Nat, S # {}
  PROVE  \E x \in S : \A y \in S : x <= y
<1>1. \E x \in S : \A y \in S : ~(<<y, x>> \in OpToRel(<, Nat))
  BY NatLessThanWellFounded, WFMin
<1>2. PICK x \in S : \A y \in S : ~(<<y, x>> \in OpToRel(<, Nat))
  BY <1>1
<1>3. \A y \in S : ~(y < x)
  BY <1>2 DEF OpToRel
<1>. QED
  BY <1>3

LEMMA OctetsFinite ==
  ASSUME NEW events, IsFiniteSet(events), \A e \in events : e.size \in Nat
  PROVE  IsFiniteSet(UNION {Octets(e) : e \in events})
<1>. DEFINE all == {Octets(e) : e \in events}
            f == [e \in events |-> Octets(e)]
<1>1. f \in Surjection(events, all)
  BY DEF Surjection
<1>2. IsFiniteSet(all)
  <2>. HIDE DEF all, f
  <2>. QED
    BY <1>1, FS_Surjection
<1>3. ASSUME NEW e \in events
      PROVE  IsFiniteSet(Octets(e))
  <2>1. IsFiniteSet(1..e.size)
    <3>1. e.size \in Int /\ 1 \in Int
      BY <1>3
    <3>. QED
      BY <3>1, FS_Interval
  <2>2. IsFiniteSet({e})
    BY FS_Singleton
  <2>. QED
    BY <2>1, <2>2, FS_Product DEF Octets
<1>4. \A T \in all : IsFiniteSet(T)
  BY <1>3
<1>. HIDE DEF all
<1>5. IsFiniteSet(UNION all)
  BY <1>2, <1>4, FS_UNION
<1>. QED
  BY <1>5 DEF all

\* Fewer events have fewer bytes.
LEMMA BytesGrow ==
  ASSUME NEW S, IsFiniteSet(S), \A e \in S : e.size \in Nat, NEW T \in SUBSET S
  PROVE  Bytes(T) \in Nat /\ Bytes(S) \in Nat /\ Bytes(T) <= Bytes(S)
<1>. DEFINE s == UNION {Octets(e) : e \in S}
            t == UNION {Octets(e) : e \in T}
<1>1. IsFiniteSet(s) /\ t \subseteq s
  BY OctetsFinite
<1>2. Bytes(S) = Cardinality(s) /\ Bytes(T) = Cardinality(t)
  BY DEF Bytes
<1>. HIDE DEF s, t
<1>3. IsFiniteSet(t) /\ Cardinality(t) <= Cardinality(s)
  BY <1>1, FS_Subset
<1>. QED
  BY <1>1, <1>2, <1>3, FS_CardinalityType

NoGap(events, last) == \A e \in events : \A n \in e.n..last : \E f \in events : f.n = n

\* append_job_event keeps both limits, and of the events the newest without a gap.
LEMMA RetainedKeeps ==
  ASSUME NEW a \in Nat, NEW S \in SUBSET [n : 1..a, size : Sizes], IsFiniteSet(S), NoGap(S, a)
  PROVE  /\ Retained(S) \subseteq S /\ IsFiniteSet(Retained(S)) /\ NoGap(Retained(S), a)
         /\ Cardinality(Retained(S)) <= MaxEvents /\ Bytes(Retained(S)) <= MaxBytes
<1>. DEFINE newest == Newest(S)  kept == Retained(S)
<1>0. /\ \A e \in S : e.n \in 1..a /\ e.size \in Nat
      /\ MaxEvents \in Nat /\ MaxBytes \in Nat
  BY StoreAssumption
<1>1. newest \subseteq S /\ kept \subseteq newest
  BY DEF Newest, Retained
<1>2. IsFiniteSet(newest) /\ IsFiniteSet(kept)
  BY <1>1, FS_Subset
<1>3. ASSUME NEW e \in newest, NEW f \in S, f.n >= e.n
      PROVE  f \in newest
  <2>1. Since(S, f) \subseteq Since(S, e) /\ Since(S, e) \subseteq S
    BY <1>0, <1>1, <1>3 DEF Since
  <2>2. IsFiniteSet(Since(S, e))
    BY <2>1, FS_Subset
  <2>3. IsFiniteSet(Since(S, f)) /\ Cardinality(Since(S, f)) <= Cardinality(Since(S, e))
    BY <2>1, <2>2, FS_Subset
  <2>4. Cardinality(Since(S, e)) \in Nat /\ Cardinality(Since(S, f)) \in Nat
    BY <2>2, <2>3, FS_CardinalityType
  <2>5. Cardinality(Since(S, e)) <= MaxEvents
    BY <1>3 DEF Newest
  <2>. QED
    BY <1>0, <2>3, <2>4, <2>5 DEF Newest
<1>4. ASSUME NEW e \in kept, NEW f \in S, f.n >= e.n
      PROVE  f \in kept
  <2>1. f \in newest
    BY <1>1, <1>3, <1>4
  <2>2. Since(newest, f) \subseteq Since(newest, e) /\ Since(newest, e) \subseteq newest
    BY <1>0, <1>1, <1>4, <2>1 DEF Since
  <2>3. IsFiniteSet(Since(newest, e)) /\ \A d \in Since(newest, e) : d.size \in Nat
    BY <1>0, <1>1, <1>2, <2>2, FS_Subset
  <2>4. /\ Bytes(Since(newest, f)) <= Bytes(Since(newest, e))
        /\ Bytes(Since(newest, f)) \in Nat /\ Bytes(Since(newest, e)) \in Nat
    BY <2>2, <2>3, BytesGrow
  <2>5. Bytes(Since(newest, e)) <= MaxBytes
    BY <1>4 DEF Retained
  <2>6. Bytes(Since(newest, f)) <= MaxBytes
    BY <1>0, <2>4, <2>5
  <2>. QED
    BY <2>1, <2>6 DEF Retained
<1>5. NoGap(kept, a)
  <2>. SUFFICES ASSUME NEW e \in kept, NEW n \in e.n..a
                PROVE  \E f \in kept : f.n = n
    BY DEF NoGap
  <2>1. PICK f \in S : f.n = n
    BY <1>1 DEF NoGap
  <2>. QED
    BY <1>0, <1>1, <1>4, <2>1
<1>6. CASE kept = {}
  <2>1. UNION {Octets(e) : e \in kept} = {}
    BY <1>6
  <2>2. Bytes(kept) = 0 /\ Cardinality(kept) = 0
    BY <1>6, <2>1, FS_EmptySet DEF Bytes
  <2>. QED
    BY <1>0, <1>1, <1>2, <1>5, <2>2
<1>7. CASE kept # {}
  <2>. DEFINE numbers == {e.n : e \in kept}
  <2>1. numbers \in SUBSET Nat /\ numbers # {}
    BY <1>0, <1>1, <1>7
  <2>2. PICK m \in kept : \A e \in kept : m.n <= e.n
    <3>1. \E x \in numbers : \A y \in numbers : x <= y
      <4>. HIDE DEF numbers
      <4>. QED
        BY <2>1, Smallest
    <3>. QED
      BY <3>1
  <2>3. m \in newest /\ m \in S
    BY <1>1
  <2>4. kept = Since(newest, m)
    BY <1>0, <1>1, <1>4, <2>2, <2>3 DEF Since
  <2>5. Bytes(kept) <= MaxBytes
    <3>1. Bytes(Since(newest, m)) <= MaxBytes
      BY DEF Retained
    <3>. QED
      BY <2>4, <3>1
  <2>6. Cardinality(kept) <= MaxEvents
    <3>1. kept \subseteq Since(S, m) /\ Since(S, m) \subseteq S
      BY <1>1, <2>4 DEF Since
    <3>2. IsFiniteSet(Since(S, m))
      BY <3>1, FS_Subset
    <3>3. Cardinality(kept) <= Cardinality(Since(S, m))
      BY <3>1, <3>2, FS_Subset
    <3>4. Cardinality(Since(S, m)) \in Nat /\ Cardinality(kept) \in Nat
      BY <1>2, <3>2, FS_CardinalityType
    <3>5. Cardinality(Since(S, m)) <= MaxEvents
      BY <2>3 DEF Newest
    <3>. QED
      BY <1>0, <3>3, <3>4, <3>5
  <2>. QED
    BY <1>1, <1>2, <1>5, <2>5, <2>6
<1>. QED
  BY <1>6, <1>7

-----------------------------------------------------------------------------
(* Types.                                                                   *)

Memories == {"none", "running", "cancelling", "finished"}

RowsOK == row \in [Jobs -> [status : Status, stamp : 0..now]]

\* A thread works for a job of the registry.
JobsOK ==
  /\ memory \in [Jobs -> Memories]
  /\ thread \in [Jobs -> {"none", "announce", "work", "complete", "again", "status"}]
  /\ \A j \in Jobs : thread[j] # "none" => memory[j] # "none"
  /\ unsaved \subseteq Jobs /\ late \subseteq Jobs

CountsOK == now \in 0..MaxNow /\ faults \in 0..MaxFaults

DailyOK ==
  /\ runDate \in 0..Utc \union {Never} /\ lastDate \in 0..Local \union {Never}
  /\ maint \in [pc : {"idle", "due", "prune", "snapshot", "work"},
                local : 0..Local \union {Never}, run : 0..Utc \union {Never}]

EventsOK ==
  /\ appended \in [Jobs -> Nat] /\ DOMAIN stored = Jobs
  /\ \A j \in Jobs :
       /\ stored[j] \subseteq [n : 1..appended[j], size : Sizes]
       /\ IsFiniteSet(stored[j]) /\ NoGap(stored[j], appended[j])
       /\ Cardinality(stored[j]) <= MaxEvents /\ Bytes(stored[j]) <= MaxBytes

\* Recovery has a page while it writes rows and events, and none while it lists.
BootOK ==
  /\ boot \in [pc : {"list", "row", "event", "up"}, stamp : Nat, job : Nat, page : Seq(Jobs),
               failed : Nat, listed : BOOLEAN]
  /\ boot.pc = "list" => boot.page = << >>
  /\ boot.pc \in {"row", "event"} => boot.page # << >>

TypesInv == RowsOK /\ JobsOK /\ CountsOK /\ DailyOK /\ EventsOK /\ BootOK

LEMMA Constants ==
  /\ MaxNow \in Nat /\ MaxFaults \in Nat /\ MaxEvents \in Nat /\ MaxBytes \in Nat /\ Never \in Nat
  /\ Jobs \subseteq Nat /\ IsFiniteSet(Jobs) /\ Cardinality(Jobs) \in Nat
  /\ \A j \in Jobs : j \in Nat /\ j > 0
<1>1. Jobs \subseteq Nat /\ IsFiniteSet(Jobs) /\ \A j \in Jobs : j \in Nat /\ j > 0
  BY StoreAssumption
<1>2. Cardinality(Jobs) \in Nat
  BY <1>1, FS_CardinalityType
<1>. QED
  BY <1>1, <1>2, StoreAssumption DEF Never

LEMMA NoEvents ==
  /\ IsFiniteSet({}) /\ Cardinality({}) = 0 /\ Bytes({}) = 0
  /\ \A a : NoGap({}, a)
<1>1. UNION {Octets(e) : e \in {}} = {}
  OBVIOUS
<1>. QED
  BY <1>1, FS_EmptySet DEF Bytes, NoGap

LEMMA InitTypes == Init => TypesInv
<1>. SUFFICES ASSUME Init PROVE TypesInv
  OBVIOUS
<1>1. RowsOK
  BY Constants DEF Init, RowsOK, Absent, Status
<1>2. JobsOK /\ CountsOK
  BY Constants DEF Init, JobsOK, CountsOK, Memories
<1>3. DailyOK
  BY Constants DEF Init, DailyOK, Resting
<1>4. EventsOK
  BY NoEvents, Constants DEF Init, EventsOK
<1>5. BootOK
  BY Constants DEF Init, BootOK, Booting
<1>. QED
  BY <1>1, <1>2, <1>3, <1>4, <1>5 DEF TypesInv

\* What a step does to the row of a job, to the registry and to the events.
LEMMA PersistTypes ==
  ASSUME TypesInv, NEW j \in Jobs, NEW status \in Memories \ {"none"}, Persist(j, status)
  PROVE  /\ RowsOK' /\ CountsOK' /\ DailyOK' /\ EventsOK' /\ BootOK'
         /\ memory' = [memory EXCEPT ![j] = status] /\ unsaved' \subseteq Jobs /\ late' = late
<1>. USE DEF TypesInv, Persist
<1>1. CASE Save(j, status) /\ unsaved' = unsaved \ {j} /\ UNCHANGED faults
  <2>1. RowsOK'
    BY <1>1 DEF Save, RowsOK, CountsOK, Memories, Status, daily
  <2>2. unsaved' \subseteq Jobs /\ CountsOK'
    BY <1>1 DEF JobsOK, CountsOK
  <2>. QED
    BY <2>1, <2>2 DEF DailyOK, EventsOK, BootOK, NoGap, daily, Utc, Local
<1>2. CASE Raises /\ unsaved' = unsaved \union {j} /\ UNCHANGED row
  <2>1. RowsOK' /\ CountsOK'
    BY <1>2, Constants DEF RowsOK, CountsOK, Raises
  <2>2. unsaved' \subseteq Jobs
    BY <1>2 DEF JobsOK
  <2>. QED
    BY <2>1, <2>2 DEF DailyOK, EventsOK, BootOK, NoGap, daily, Utc, Local
<1>. QED
  BY <1>1, <1>2

LEMMA AppendTypes ==
  ASSUME EventsOK, NEW j \in Jobs, AppendEvent(j)
  PROVE  EventsOK'
<1>. USE DEF EventsOK
<1>1. PICK size \in Sizes :
        stored' = [stored EXCEPT ![j] = Retained(@ \union {[n |-> appended[j] + 1, size |-> size]})]
  BY DEF AppendEvent
<1>. DEFINE e == [n |-> appended[j] + 1, size |-> size]
            S == stored[j] \union {e}
            a == appended[j] + 1
<1>2. appended' = [appended EXCEPT ![j] = a] /\ a \in Nat /\ appended[j] \in Nat
  BY DEF AppendEvent
<1>3. S \in SUBSET [n : 1..a, size : Sizes]
  <2>1. stored[j] \subseteq [n : 1..appended[j], size : Sizes]
    OBVIOUS
  <2>2. 1..appended[j] \subseteq 1..a /\ a \in 1..a
    BY <1>2
  <2>. QED
    BY <2>1, <2>2
<1>4. IsFiniteSet(S)
  BY FS_AddElement
<1>5. NoGap(S, a)
  <2>. SUFFICES ASSUME NEW d \in S, NEW n \in d.n..a
                PROVE  \E f \in S : f.n = n
    BY DEF NoGap
  <2>0. e.n = a /\ e \in S
    OBVIOUS
  <2>1. CASE n = a
    BY <2>0, <2>1
  <2>2. CASE n # a /\ d \in stored[j]
    <3>1. d.n \in 1..appended[j]
      BY <2>2
    <3>2. n \in d.n..appended[j]
      BY <1>2, <2>2, <3>1
    <3>. QED
      BY <2>2, <3>2 DEF NoGap
  <2>3. CASE d = e
    BY <1>2, <2>0, <2>3
  <2>. QED
    BY <2>1, <2>2, <2>3
<1>. HIDE DEF S
<1>6. /\ Retained(S) \subseteq S /\ IsFiniteSet(Retained(S)) /\ NoGap(Retained(S), a)
      /\ Cardinality(Retained(S)) <= MaxEvents /\ Bytes(Retained(S)) <= MaxBytes
  BY <1>2, <1>3, <1>4, <1>5, RetainedKeeps
<1>7. stored' = [stored EXCEPT ![j] = Retained(S)]
  BY <1>1 DEF S
<1>8. ASSUME NEW i \in Jobs
      PROVE  /\ stored'[i] \subseteq [n : 1..appended'[i], size : Sizes]
             /\ IsFiniteSet(stored'[i]) /\ NoGap(stored'[i], appended'[i])
             /\ Cardinality(stored'[i]) <= MaxEvents /\ Bytes(stored'[i]) <= MaxBytes
  <2>1. CASE i = j
    BY <1>2, <1>3, <1>6, <1>7, <2>1
  <2>2. CASE i # j
    BY <1>2, <1>7, <2>2
  <2>. QED
    BY <2>1, <2>2
<1>9. appended' \in [Jobs -> Nat] /\ DOMAIN stored' = Jobs
  BY <1>2, <1>7
<1>. QED
  BY <1>8, <1>9

LEMMA JobTypes ==
  ASSUME TypesInv, NEW j \in Jobs, JobStep(j)
  PROVE  TypesInv'
<1>. USE DEF TypesInv
<1>0. /\ memory \in [Jobs -> Memories] /\ \A i \in Jobs : thread[i] # "none" => memory[i] # "none"
      /\ thread \in [Jobs -> {"none", "announce", "work", "complete", "again", "status"}]
  BY DEF JobsOK
<1>1. ASSUME NEW status \in Memories \ {"none"}, Persist(j, status),
             NEW pc \in {"none", "announce", "work", "complete", "again", "status"},
             thread' = [thread EXCEPT ![j] = pc]
      PROVE  TypesInv'
  <2>1. /\ RowsOK' /\ CountsOK' /\ DailyOK' /\ EventsOK' /\ BootOK'
        /\ memory' = [memory EXCEPT ![j] = status] /\ unsaved' \subseteq Jobs /\ late' = late
    BY <1>1, PersistTypes
  <2>2. JobsOK'
    BY <1>0, <1>1, <2>1 DEF JobsOK
  <2>. QED
    BY <2>1, <2>2
<1>2. CASE Start(j)
  BY <1>1, <1>2 DEF Start, Goto, Memories
<1>3. CASE Cancel(j)
  <2>1. thread' = [thread EXCEPT ![j] = thread[j]]
    BY <1>0, <1>3 DEF Cancel
  <2>. QED
    BY <1>0, <1>1, <1>3, <2>1 DEF Cancel, Memories
<1>4. CASE Progress(j)
  BY <1>0, <1>1, <1>4 DEF Progress, Goto
<1>5. CASE Complete(j)
  BY <1>1, <1>5 DEF Complete, Goto, Memories
<1>6. ASSUME UNCHANGED <<row, memory, boot, daily, now, unsaved>>, late' \subseteq Jobs,
             faults' \in 0..MaxFaults, EventsOK', thread[j] # "none",
             NEW pc \in {"none", "announce", "work", "complete", "again", "status"},
             thread' = [thread EXCEPT ![j] = pc]
      PROVE  TypesInv'
  <2>1. JobsOK'
    BY <1>0, <1>6 DEF JobsOK
  <2>. QED
    BY <1>6, <2>1 DEF RowsOK, CountsOK, DailyOK, BootOK, daily, Utc, Local
<1>7. CASE Finish(j)
  <2>1. EventsOK'
    BY <1>7 DEF Finish, tables, EventsOK, NoGap
  <2>. QED
    BY <1>6, <1>7, <2>1 DEF Finish, Goto, tables, ghosts, JobsOK, CountsOK
<1>8. CASE Emit(j)
  <2>1. EventsOK'
    BY <1>8, AppendTypes DEF Emit
  <2>2. late' \subseteq Jobs /\ faults' \in 0..MaxFaults
    BY <1>8 DEF Emit, JobsOK, CountsOK
  <2>3. CASE thread[j] = "work" /\ UNCHANGED thread
    <3>1. thread' = [thread EXCEPT ![j] = thread[j]]
      BY <1>0, <2>3
    <3>. QED
      BY <1>6, <1>8, <2>1, <2>2, <2>3, <3>1 DEF Emit
  <2>4. CASE thread[j] \in {"announce", "status"} /\ (Goto(j, "work") \/ Goto(j, "none"))
    BY <1>6, <1>8, <2>1, <2>2, <2>4 DEF Emit, Goto
  <2>. QED
    BY <1>8, <2>3, <2>4 DEF Emit
<1>9. CASE EmitFails(j)
  <2>1. EventsOK'
    BY <1>9 DEF EmitFails, tables, EventsOK, NoGap
  <2>2. faults' \in 0..MaxFaults
    BY <1>9, Constants DEF EmitFails, Raises, CountsOK
  <2>. QED
    BY <1>6, <1>9, <2>1, <2>2 DEF EmitFails, Goto, tables, ghosts, JobsOK
<1>. QED
  BY <1>2, <1>3, <1>4, <1>5, <1>7, <1>8, <1>9 DEF JobStep

\* Only the last row of a page leaves nothing behind it.
LEMMA TailOfPage ==
  ASSUME NEW page \in Seq(Jobs), page # << >>
  PROVE  /\ Tail(page) \in Seq(Jobs) /\ Len(Tail(page)) = Len(page) - 1
         /\ (Len(page) = 1 <=> Tail(page) = << >>)
<1>1. Len(page) \in Nat /\ Len(page) > 0
  BY EmptySeq, LenProperties
<1>2. Tail(page) \in Seq(Jobs) /\ Len(Tail(page)) = Len(page) - 1
  BY HeadTailProperties
<1>3. Tail(page) = << >> <=> Len(Tail(page)) = 0
  BY <1>2, EmptySeq
<1>. QED
  BY <1>1, <1>2, <1>3

LEMMA RecoveryTypes ==
  ASSUME TypesInv, Recovery
  PROVE  TypesInv'
<1>. USE DEF TypesInv
<1>0. /\ boot \in [pc : {"list", "row", "event", "up"}, stamp : Nat, job : Nat, page : Seq(Jobs),
               failed : Nat, listed : BOOLEAN]
      /\ row \in [Jobs -> [status : Status, stamp : 0..now]] /\ now \in Nat /\ MaxNow \in Nat
  BY Constants DEF BootOK, RowsOK, CountsOK
<1>1. ASSUME UNCHANGED <<memory, thread, daily, now, ghosts>>, faults' \in 0..MaxFaults,
             RowsOK', EventsOK', BootOK'
      PROVE  TypesInv'
  BY <1>1 DEF JobsOK, CountsOK, DailyOK, daily, ghosts, Utc, Local
<1>2. ASSUME UNCHANGED <<tables, now>>
      PROVE  RowsOK' /\ EventsOK'
  BY <1>2 DEF tables, RowsOK, EventsOK, NoGap
<1>3. CASE List
  <2>1. PICK page \in Pages({j \in Jobs : Stale(j) /\ Behind(j)}) :
          boot' = IF page = << >> THEN [boot EXCEPT !.pc = "up"]
                  ELSE [boot EXCEPT !.pc = "row", !.page = page,
                                    !.stamp = row[Last(page)].stamp, !.job = Last(page)]
    BY <1>3 DEF List
  <2>2. page \in Seq(Jobs)
    <3>1. PICK n \in 0..Page : page \in [1..n -> {j \in Jobs : Stale(j) /\ Behind(j)}]
      BY DEF Pages
    <3>. QED
      BY <3>1, StoreAssumption
  <2>3. ASSUME page = << >>
        PROVE  BootOK'
    BY <1>0, <1>3, <2>1, <2>3 DEF List, BootOK
  <2>4. ASSUME page # << >>
        PROVE  BootOK'
    <3>1. Last(page) \in Jobs
      BY <2>2, <2>4 DEF Last
    <3>2. row[Last(page)].stamp \in Nat /\ Last(page) \in Nat
      BY <1>0, <3>1, Constants
    <3>. QED
      BY <1>0, <2>1, <2>2, <2>4, <3>2 DEF BootOK
  <2>. QED
    BY <1>1, <1>2, <1>3, <2>3, <2>4 DEF List, CountsOK
<1>4. CASE ListFails
  <2>1. faults' \in 0..MaxFaults
    BY <1>4, Constants DEF ListFails, Raises, CountsOK
  <2>2. BootOK'
    <3>1. boot' = [boot EXCEPT !.pc = "up", !.listed = FALSE]
      BY <1>4 DEF ListFails
    <3>. QED
      BY <1>0, <3>1 DEF BootOK
  <2>. QED
    BY <1>1, <1>2, <1>4, <2>1, <2>2 DEF ListFails
<1>5. ASSUME boot.pc \in {"row", "event"}, NEW k \in {0, 1}, NextRow(k)
      PROVE  BootOK'
  <2>1. boot.page # << >> /\ boot.page \in Seq(Jobs)
    BY <1>0, <1>5 DEF BootOK
  <2>2. Tail(boot.page) \in Seq(Jobs) /\ (Len(boot.page) = 1 <=> Tail(boot.page) = << >>)
    BY <2>1, TailOfPage
  <2>3. boot.failed + k \in Nat
    BY <1>0
  <2>. QED
    BY <1>0, <1>5, <2>2, <2>3 DEF NextRow, BootOK
<1>6. CASE Interrupt
  <2>1. Head(boot.page) \in Jobs /\ boot.page # << >>
    BY <1>0, <1>6 DEF Interrupt, BootOK
  <2>2. RowsOK'
    BY <1>0, <1>6, <2>1 DEF Interrupt, Save, RowsOK, Status
  <2>3. BootOK'
    BY <1>0, <1>6, <2>1 DEF Interrupt, BootOK
  <2>4. EventsOK'
    BY <1>6 DEF Interrupt, EventsOK, NoGap
  <2>. QED
    BY <1>1, <1>6, <2>2, <2>3, <2>4 DEF Interrupt, CountsOK
<1>7. CASE AnnounceInterruption
  <2>1. Head(boot.page) \in Jobs
    BY <1>0, <1>7 DEF AnnounceInterruption, BootOK
  <2>2. EventsOK' /\ BootOK'
    BY <1>5, <1>7, <2>1, AppendTypes DEF AnnounceInterruption
  <2>3. RowsOK'
    BY <1>7 DEF AnnounceInterruption, RowsOK
  <2>. QED
    BY <1>1, <1>7, <2>2, <2>3 DEF AnnounceInterruption, CountsOK
<1>8. CASE RecoveryFails
  <2>1. BootOK'
    BY <1>5, <1>8 DEF RecoveryFails
  <2>. QED
    BY <1>1, <1>2, <1>8, <2>1 DEF RecoveryFails, CountsOK
<1>. QED
  BY <1>3, <1>4, <1>6, <1>7, <1>8 DEF Recovery

LEMMA MaintenanceTypes ==
  ASSUME TypesInv, Maintenance
  PROVE  TypesInv'
<1>. USE DEF TypesInv
<1>0. now \in Nat /\ Utc \in 0..Utc /\ Local \in 0..Local /\ Utc \in Nat /\ Local \in Nat
  BY StoreAssumption DEF CountsOK, Utc, Local
<1>1. ASSUME UNCHANGED <<memory, thread, boot, now, ghosts>>, faults' \in 0..MaxFaults, DailyOK',
             RowsOK', EventsOK'
      PROVE  TypesInv'
  BY <1>1 DEF JobsOK, CountsOK, BootOK, ghosts
<1>2. ASSUME UNCHANGED <<tables, now>>
      PROVE  RowsOK' /\ EventsOK'
  BY <1>2 DEF tables, RowsOK, EventsOK, NoGap
<1>3. CASE Tick
  <2>1. DailyOK'
    BY <1>0, <1>3 DEF Tick, DailyOK, Utc, Local
  <2>. QED
    BY <1>1, <1>2, <1>3, <2>1 DEF Tick, CountsOK
<1>4. CASE Begin
  <2>1. DailyOK'
    BY <1>0, <1>4 DEF Begin, DailyOK, Utc, Local
  <2>. QED
    BY <1>1, <1>2, <1>4, <2>1 DEF Begin, CountsOK
<1>5. CASE Prune
  <2>1. DailyOK'
    BY <1>0, <1>5 DEF Prune, DailyOK, Utc, Local
  <2>2. RowsOK'
    BY <1>0, <1>5 DEF Prune, RowsOK, Absent, Status
  <2>3. EventsOK'
    <3>1. /\ appended' = appended /\ DOMAIN stored' = Jobs
          /\ \A j \in Jobs : stored'[j] = {} \/ stored'[j] = stored[j]
      BY <1>5 DEF Prune
    <3>2. MaxEvents \in Nat /\ MaxBytes \in Nat
      BY Constants
    <3>3. ASSUME NEW j \in Jobs
          PROVE  /\ stored'[j] \subseteq [n : 1..appended[j], size : Sizes]
                 /\ IsFiniteSet(stored'[j]) /\ NoGap(stored'[j], appended[j])
                 /\ Cardinality(stored'[j]) <= MaxEvents /\ Bytes(stored'[j]) <= MaxBytes
      <4>1. CASE stored'[j] = {}
        BY <3>2, <4>1, NoEvents
      <4>2. CASE stored'[j] = stored[j]
        BY <4>2 DEF EventsOK
      <4>. QED
        BY <3>1, <4>1, <4>2
    <3>. QED
      BY <3>1, <3>3 DEF EventsOK
  <2>. QED
    BY <1>1, <1>5, <2>1, <2>2, <2>3 DEF Prune, CountsOK
<1>6. CASE Snapshot
  <2>1. DailyOK'
    BY <1>0, <1>6 DEF Snapshot, DailyOK, Utc, Local
  <2>. QED
    BY <1>1, <1>2, <1>6, <2>1 DEF Snapshot, CountsOK
<1>7. CASE MaintenanceFails
  <2>1. DailyOK' /\ faults' \in 0..MaxFaults
    BY <1>0, <1>7, Constants
       DEF MaintenanceFails, DateAfterFailure, DailyOK, Utc, Local, Raises, CountsOK
  <2>. QED
    BY <1>1, <1>2, <1>7, <2>1 DEF MaintenanceFails
<1>8. CASE Work
  <2>1. DailyOK'
    BY <1>0, <1>8 DEF Work, DailyOK, Resting, Utc, Local
  <2>. QED
    BY <1>1, <1>2, <1>8, <2>1 DEF Work, CountsOK
<1>. QED
  BY <1>3, <1>4, <1>5, <1>6, <1>7, <1>8 DEF Maintenance

LEMMA StepTypes == TypesInv /\ [Next]_vars => TypesInv'
<1>. SUFFICES ASSUME TypesInv, [Next]_vars PROVE TypesInv'
  OBVIOUS
<1>. USE DEF TypesInv
<1>1. CASE TimePasses
  <2>1. now' \in 0..MaxNow /\ now \in Nat /\ 0..now \subseteq 0..now' /\ now' = now + 1
    BY <1>1, Constants DEF TimePasses, CountsOK
  <2>2. RowsOK'
    BY <1>1, <2>1 DEF TimePasses, tables, RowsOK
  <2>3. 0..Utc \subseteq 0..Utc' /\ 0..Local \subseteq 0..Local'
    BY <2>1, StoreAssumption DEF Utc, Local
  <2>4. DailyOK'
    BY <1>1, <2>3 DEF TimePasses, daily, DailyOK
  <2>5. EventsOK'
    BY <1>1 DEF TimePasses, tables, EventsOK, NoGap
  <2>. QED
    BY <1>1, <2>1, <2>2, <2>4, <2>5 DEF TimePasses, JobsOK, CountsOK, BootOK, ghosts
<1>2. CASE Crash
  <2>1. RowsOK' /\ EventsOK'
    BY <1>2 DEF Crash, tables, RowsOK, EventsOK, NoGap
  <2>2. DailyOK'
    BY <1>2 DEF Crash, DailyOK, Resting, Utc, Local
  <2>3. BootOK'
    BY <1>2, Constants DEF Crash, BootOK, Booting
  <2>4. JobsOK' /\ CountsOK'
    BY <1>2, Constants DEF Crash, JobsOK, CountsOK, Memories, Raises
  <2>. QED
    BY <2>1, <2>2, <2>3, <2>4
<1>3. CASE UNCHANGED vars
  <2>1. EventsOK' /\ RowsOK'
    BY <1>3 DEF vars, tables, EventsOK, RowsOK, NoGap
  <2>. QED
    BY <1>3, <2>1 DEF vars, daily, ghosts, JobsOK, CountsOK, DailyOK, BootOK, Utc, Local
<1>. QED
  BY <1>1, <1>2, <1>3, JobTypes, RecoveryTypes, MaintenanceTypes DEF Next

THEOREM TypesInvariant == Spec => []TypesInv
BY InitTypes, StepTypes, PTL DEF Spec

-----------------------------------------------------------------------------
(* What holds between the tables, the registry and recovery.                *)

\* Rows recovery has still to list, rows it has still to treat, and rows it has
\* passed that still say their job is active.
Due == {j \in Jobs : Stale(j) /\ Behind(j)}
Pending == ToSet(boot.page) \union Due
Stuck == {j \in Jobs : Stale(j)} \ Pending

\* Rows that say a job is active which the registry does not know as active.
Unowned == {j \in Jobs \ unsaved : row[j].status \in Active /\ memory[j] \notin Active}

\* While recovery runs, nothing else does.
Quiet ==
  /\ \A j \in Jobs : memory[j] = "none" /\ thread[j] = "none"
  /\ unsaved = {} /\ maint = Resting /\ boot.listed

\* The rows of a page are different ones, and the cursor is past them.
PageOK ==
  /\ \A k, l \in DOMAIN boot.page : boot.page[k] = boot.page[l] => k = l
  /\ \A k \in DOMAIN boot.page : boot.page[k] \notin Due
  /\ boot.pc = "event" => row[Head(boot.page)].status = "interrupted"

\* A failed write accounts for each row left active, and each failed write for a row.
Counted ==
  /\ Cardinality(Stuck) <= boot.failed
  /\ boot.failed <= Cardinality(Jobs \ Pending)

StoreInv ==
  /\ TypesInv
  /\ ActiveJobsKeepTheirRow /\ EventsGoWithTheirJob
  /\ ~Up => Quiet /\ PageOK /\ Counted
  /\ boot.failed <= Cardinality(Jobs) /\ RecoveryIsComplete

\* A job step belongs to a server that is up.
LEMMA JobsNeedServer ==
  ASSUME TypesInv, ~Up => Quiet, NEW j \in Jobs, JobStep(j)
  PROVE  Up
<1>1. thread[j] # "none" \/ memory[j] = "running" \/ Start(j)
  BY DEF JobStep, Cancel, Progress, Finish, Complete, Emit, EmitFails
<1>2. CASE Start(j)
  BY <1>2 DEF Start
<1>. QED
  BY <1>1, <1>2 DEF Quiet

\* While the server is up, a step that leaves no more unowned rows keeps the count.
LEMMA ServerKeepsCount ==
  ASSUME TypesInv, RecoveryIsComplete, boot.failed <= Cardinality(Jobs),
         Up, boot' = boot, Unowned' \subseteq Unowned
  PROVE  Up' /\ boot'.failed <= Cardinality(Jobs) /\ RecoveryIsComplete'
<1>1. Up' /\ boot'.failed = boot.failed /\ boot'.listed = boot.listed /\ boot.failed \in Nat
  BY DEF Up, TypesInv, BootOK
<1>2. Unowned \subseteq Jobs /\ IsFiniteSet(Unowned)
  BY Constants, FS_Subset DEF Unowned
<1>3. IsFiniteSet(Unowned') /\ Cardinality(Unowned') <= Cardinality(Unowned)
  BY <1>2, FS_Subset
<1>4. Cardinality(Unowned) \in Nat /\ Cardinality(Unowned') \in Nat
  BY <1>2, <1>3, FS_CardinalityType
<1>5. RecoveryIsComplete <=> (Up /\ boot.listed => Cardinality(Unowned) <= boot.failed)
  BY DEF RecoveryIsComplete, Unowned
<1>6. RecoveryIsComplete' <=> (Up' /\ boot'.listed => Cardinality(Unowned') <= boot'.failed)
  BY DEF RecoveryIsComplete, Unowned
<1>. QED
  BY <1>1, <1>3, <1>4, <1>5, <1>6

\* The registry writes what it holds, or notes that it could not.
LEMMA PersistSteps ==
  ASSUME StoreInv, Up, TypesInv', NEW j \in Jobs, NEW status \in Memories \ {"none"},
         Persist(j, status)
  PROVE  StoreInv'
<1>. USE DEF StoreInv
<1>0. /\ memory \in [Jobs -> Memories] /\ memory' = [memory EXCEPT ![j] = status]
      /\ row \in [Jobs -> [status : Status, stamp : 0..now]] /\ status # "absent"
      /\ boot' = boot /\ stored' = stored /\ late' = late
  BY DEF TypesInv, JobsOK, RowsOK, Persist, Memories
<1>1. \/ /\ row' = [row EXCEPT ![j] = [status |-> status, stamp |-> now]]
         /\ unsaved' = unsaved \ {j}
      \/ unsaved' = unsaved \union {j} /\ row' = row
  BY DEF Persist, Save
<1>2. ASSUME NEW i \in Jobs \ unsaved'
      PROVE  /\ memory'[i] \in Active => row'[i].status = memory'[i]
             /\ i # j => i \notin unsaved /\ row'[i] = row[i] /\ memory'[i] = memory[i]
             /\ i = j => row'[i].status = status /\ memory'[i] = status
  <2>1. CASE i = j
    BY <1>0, <1>1, <1>2, <2>1
  <2>2. CASE i # j
    BY <1>0, <1>1, <1>2, <2>2 DEF ActiveJobsKeepTheirRow
  <2>. QED
    BY <2>1, <2>2
<1>3. ActiveJobsKeepTheirRow'
  BY <1>2 DEF ActiveJobsKeepTheirRow
<1>4. EventsGoWithTheirJob'
  <2>. SUFFICES ASSUME NEW i \in Jobs, i \notin late, row'[i] = Absent
                PROVE  stored[i] = {}
    BY <1>0 DEF EventsGoWithTheirJob
  <2>1. Absent.status = "absent"
    BY DEF Absent
  <2>2. row'[i] = row[i]
    <3>1. CASE i = j /\ row' = [row EXCEPT ![j] = [status |-> status, stamp |-> now]]
      BY <1>0, <2>1, <3>1
    <3>. QED
      BY <1>0, <1>1, <3>1
  <2>. QED
    BY <2>2 DEF EventsGoWithTheirJob
<1>5. Unowned' \subseteq Unowned
  <2>. SUFFICES ASSUME NEW i \in Jobs, i \in Unowned'
                PROVE  i \in Unowned
    BY DEF Unowned
  <2>1. i \in Jobs \ unsaved' /\ row'[i].status \in Active /\ memory'[i] \notin Active
    BY DEF Unowned
  <2>. QED
    BY <1>2, <2>1 DEF Unowned
<1>6. Up' /\ boot'.failed <= Cardinality(Jobs) /\ RecoveryIsComplete'
  BY <1>0, <1>5, ServerKeepsCount
<1>. QED
  BY <1>3, <1>4, <1>6

LEMMA JobSteps ==
  ASSUME StoreInv, TypesInv', NEW j \in Jobs, JobStep(j)
  PROVE  StoreInv'
<1>. USE DEF StoreInv
<1>0. Up
  BY JobsNeedServer
<1>1. ASSUME UNCHANGED <<row, memory, unsaved, boot>>, EventsGoWithTheirJob'
      PROVE  StoreInv'
  <2>1. Unowned' \subseteq Unowned
    BY <1>1 DEF Unowned
  <2>2. Up' /\ boot'.failed <= Cardinality(Jobs) /\ RecoveryIsComplete'
    BY <1>0, <1>1, <2>1, ServerKeepsCount
  <2>. QED
    BY <1>1, <2>2 DEF ActiveJobsKeepTheirRow
<1>2. ASSUME UNCHANGED <<row, stored, late>>
      PROVE  EventsGoWithTheirJob'
  BY <1>2 DEF EventsGoWithTheirJob
<1>3. CASE Start(j)
  BY <1>0, <1>3, PersistSteps DEF Start, Memories
<1>4. CASE Cancel(j)
  BY <1>0, <1>4, PersistSteps DEF Cancel, Memories
<1>5. CASE Progress(j)
  <2>1. memory[j] \in Memories \ {"none"}
    BY <1>5 DEF Progress, TypesInv, JobsOK
  <2>. QED
    BY <1>0, <1>5, <2>1, PersistSteps DEF Progress
<1>6. CASE Complete(j)
  BY <1>0, <1>6, PersistSteps DEF Complete, Memories
<1>7. CASE Finish(j)
  BY <1>1, <1>2, <1>7 DEF Finish, tables, ghosts
<1>8. CASE EmitFails(j)
  BY <1>1, <1>2, <1>8 DEF EmitFails, tables, ghosts
<1>9. CASE Emit(j)
  <2>1. /\ \A i \in Jobs : i # j => stored'[i] = stored[i]
        /\ late \subseteq late' /\ (row[j] = Absent => j \in late') /\ row' = row
    BY <1>9 DEF Emit, AppendEvent, TypesInv, EventsOK
  <2>2. EventsGoWithTheirJob'
    BY <2>1 DEF EventsGoWithTheirJob
  <2>. QED
    BY <1>1, <1>9, <2>2 DEF Emit
<1>. QED
  BY <1>3, <1>4, <1>5, <1>6, <1>7, <1>8, <1>9 DEF JobStep

-----------------------------------------------------------------------------
(* Recovery.  A page takes its rows from those due, and leaves the rest due; *)
(* a row that is treated leaves the pending ones, and only a failed write    *)
(* leaves it active.                                                         *)

\* The two sets Counted is about are finite.
LEMMA CountsFinite ==
  /\ Stuck \subseteq Jobs /\ IsFiniteSet(Stuck) /\ Cardinality(Stuck) \in Nat
  /\ \A S \in SUBSET Jobs : IsFiniteSet(S) /\ Cardinality(S) \in Nat /\ Cardinality(S) <= Cardinality(Jobs)
<1>1. \A S \in SUBSET Jobs : IsFiniteSet(S) /\ Cardinality(S) <= Cardinality(Jobs)
  BY Constants, FS_Subset
<1>2. \A S \in SUBSET Jobs : Cardinality(S) \in Nat
  BY <1>1, FS_CardinalityType
<1>3. Stuck \subseteq Jobs
  BY DEF Stuck
<1>. QED
  BY <1>1, <1>2, <1>3

\* A page of rows, in order, with what is due before and after it.
LEMMA PageIsTaken ==
  ASSUME TypesInv, NEW page \in Pages(Due), page # << >>, row' = row,
         boot'.stamp = row[Last(page)].stamp, boot'.job = Last(page)
  PROVE  /\ ToSet(page) \union Due' = Due
         /\ \A k, l \in DOMAIN page : page[k] = page[l] => k = l
         /\ \A k \in DOMAIN page : page[k] \notin Due'
<1>0. /\ Jobs \subseteq Nat /\ row \in [Jobs -> [status : Status, stamp : 0..now]]
      /\ now \in Nat /\ boot.stamp \in Nat /\ boot.job \in Nat /\ Due \subseteq Jobs
  BY Constants DEF TypesInv, RowsOK, CountsOK, BootOK, Due
<1>1. PICK n \in 0..Page : page \in [1..n -> Due]
  BY DEF Pages
<1>2. n \in Nat /\ n > 0 /\ page \in Seq(Due) /\ Len(page) = n /\ DOMAIN page = 1..n
  BY <1>1, StoreAssumption
<1>. DEFINE last == page[n]
<1>3. Last(page) = last /\ last \in Due /\ n \in 1..n
  BY <1>1, <1>2 DEF Last
<1>4. \A j \in Jobs : row[j].stamp \in Nat /\ j \in Nat
  BY <1>0
<1>5. \A j \in Jobs : Behind(j)' <=> Newer(row, last, j)
  <2>1. last \in Jobs
    BY <1>0, <1>3
  <2>2. boot'.stamp = row[last].stamp /\ boot'.job = last
    BY <1>3
  <2>. HIDE DEF last
  <2>. QED
    BY <1>4, <2>1, <2>2 DEF Behind, Newer
<1>6. \A j \in Jobs : Newer(row, last, j) => Behind(j)
  <2>1. Behind(last) /\ last \in Jobs
    BY <1>0, <1>3 DEF Due
  <2>. HIDE DEF last
  <2>2. ASSUME NEW j \in Jobs, Newer(row, last, j)
        PROVE  Behind(j)
    <3>1. /\ row[j].stamp \in Nat /\ row[last].stamp \in Nat /\ j \in Nat /\ last \in Nat
          /\ boot.stamp \in Nat /\ boot.job \in Nat
      BY <1>0, <1>4, <2>1
    <3>2. row[last].stamp > row[j].stamp \/ (row[last].stamp = row[j].stamp /\ last > j)
      BY <2>2 DEF Newer
    <3>3. row[last].stamp < boot.stamp \/ (row[last].stamp = boot.stamp /\ last < boot.job)
      BY <2>1 DEF Behind
    <3>4. row[j].stamp < boot.stamp \/ (row[j].stamp = boot.stamp /\ j < boot.job)
      BY <3>1, <3>2, <3>3
    <3>. QED
      BY <3>4 DEF Behind
  <2>. QED
    BY <2>2
<1>7. /\ \A k, l \in DOMAIN page : k < l => Newer(row, page[k], page[l])
      /\ \A j \in Due \ ToSet(page) : Newer(row, last, j)
  BY <1>3 DEF Pages, Listed
<1>8. \A k \in 1..n : page[k] \in Due /\ page[k] \in Jobs
  BY <1>0, <1>1
<1>9. ToSet(page) \subseteq Due
  BY <1>2, <1>8 DEF ToSet
<1>10. \A j \in Jobs : Stale(j)' <=> Stale(j)
  BY DEF Stale
<1>11. \A j \in Jobs : j \in Due' <=> (Stale(j) /\ Newer(row, last, j))
  BY <1>5, <1>10 DEF Due
<1>12. ToSet(page) \union Due' = Due
  <2>1. Due' \subseteq Jobs
    BY DEF Due
  <2>2. \A j \in Due' : j \in Due
    BY <1>6, <1>11, <2>1 DEF Due
  <2>3. \A j \in Due : j \in ToSet(page) \/ j \in Due'
    BY <1>7, <1>11 DEF Due
  <2>. QED
    BY <1>9, <2>2, <2>3
<1>13. \A i, j \in Jobs : Newer(row, i, j) => i # j /\ ~Newer(row, j, i)
  BY <1>4 DEF Newer
<1>14. ASSUME NEW k \in DOMAIN page, NEW l \in DOMAIN page, page[k] = page[l], k # l
       PROVE  FALSE
  <2>1. k < l \/ l < k
    BY <1>2, <1>14
  <2>. QED
    BY <1>2, <1>7, <1>8, <1>13, <1>14, <2>1
<1>15. ASSUME NEW k \in DOMAIN page
       PROVE  page[k] \notin Due'
  <2>1. CASE k = n
    BY <1>2, <1>8, <1>11, <1>13, <2>1
  <2>2. CASE k < n
    <3>1. Newer(row, page[k], last)
      BY <1>2, <1>3, <1>7, <1>15, <2>2
    <3>. QED
      BY <1>0, <1>2, <1>3, <1>8, <1>11, <1>13, <1>15, <3>1
  <2>. QED
    BY <1>2, <1>15, <2>1, <2>2
<1>. QED
  BY <1>12, <1>14, <1>15

\* The head of a page leaves it, and no other row does.
LEMMA HeadLeaves ==
  ASSUME NEW page \in Seq(Jobs), page # << >>,
         \A k, l \in DOMAIN page : page[k] = page[l] => k = l
  PROVE  /\ Head(page) \in Jobs /\ Head(page) \notin ToSet(Tail(page))
         /\ ToSet(page) = {Head(page)} \union ToSet(Tail(page))
         /\ \A k, l \in DOMAIN Tail(page) : Tail(page)[k] = Tail(page)[l] => k = l
         /\ \A k \in DOMAIN Tail(page) : k + 1 \in DOMAIN page /\ Tail(page)[k] = page[k + 1]
<1>. DEFINE tail == Tail(page)  n == Len(page)
<1>1. /\ n \in Nat /\ n > 0 /\ DOMAIN page = 1..n
      /\ tail \in Seq(Jobs) /\ Len(tail) = n - 1
      /\ Head(page) = page[1] /\ Head(page) \in Jobs
      /\ \A k \in 1..Len(tail) : tail[k] = page[k + 1]
  BY EmptySeq, LenProperties, HeadTailProperties
<1>2. DOMAIN tail = 1..(n - 1)
  <2>1. DOMAIN tail = 1..Len(tail)
    BY <1>1, LenProperties
  <2>. QED
    BY <1>1, <2>1
<1>. HIDE DEF tail, n
<1>3. \A k \in DOMAIN tail : k \in Nat /\ k + 1 \in DOMAIN page /\ k + 1 # 1 /\ tail[k] = page[k + 1]
  BY <1>1, <1>2
<1>4. 1 \in DOMAIN page /\ \A k \in DOMAIN page : k # 1 => k - 1 \in DOMAIN tail /\ tail[k - 1] = page[k]
  BY <1>1, <1>2
<1>5. \A k \in DOMAIN tail : tail[k] # page[1]
  BY <1>3, <1>4
<1>6. \A k, l \in DOMAIN tail : tail[k] = tail[l] => k = l
  BY <1>3
<1>7. ToSet(page) = {page[1]} \union ToSet(tail)
  <2>1. ToSet(page) \subseteq {page[1]} \union ToSet(tail)
    BY <1>4 DEF ToSet
  <2>2. {page[1]} \union ToSet(tail) \subseteq ToSet(page)
    BY <1>3, <1>4 DEF ToSet
  <2>. QED
    BY <2>1, <2>2
<1>8. page[1] \notin ToSet(tail)
  BY <1>5 DEF ToSet
<1>. QED
  BY <1>1, <1>3, <1>6, <1>7, <1>8 DEF tail

\* Treating the head of a page.
LEMMA RowSteps ==
  ASSUME StoreInv, boot.pc \in {"row", "event"}, NEW k \in {0, 1}, NextRow(k),
         UNCHANGED <<row, memory, thread, daily, ghosts>>,
         k = 1 \/ row[Head(boot.page)].status = "interrupted"
  PROVE  Quiet' /\ PageOK' /\ Counted' /\ ~Up' /\ boot'.failed <= Cardinality(Jobs)
<1>. USE DEF StoreInv
<1>. DEFINE page == boot.page
            head == Head(page)
<1>0. /\ ~Up /\ Quiet /\ PageOK /\ Counted
      /\ boot \in [pc : {"list", "row", "event", "up"}, stamp : Nat, job : Nat, page : Seq(Jobs),
                   failed : Nat, listed : BOOLEAN]
      /\ page \in Seq(Jobs) /\ page # << >>
  BY DEF Up, TypesInv, BootOK
<1>1. /\ boot'.page = Tail(page) /\ boot'.failed = boot.failed + k /\ boot'.listed = boot.listed
      /\ boot'.stamp = boot.stamp /\ boot'.job = boot.job /\ boot'.pc \in {"list", "row"}
  BY <1>0 DEF NextRow
<1>2. /\ head \in Jobs /\ head \notin ToSet(Tail(page))
      /\ ToSet(page) = {head} \union ToSet(Tail(page))
      /\ \A i, l \in DOMAIN Tail(page) : Tail(page)[i] = Tail(page)[l] => i = l
      /\ \A i \in DOMAIN Tail(page) : i + 1 \in DOMAIN page /\ Tail(page)[i] = page[i + 1]
  BY <1>0, HeadLeaves DEF PageOK
<1>3. head \notin Due
  <2>1. 1 \in DOMAIN page /\ head = page[1]
    BY <1>0, EmptySeq, LenProperties, HeadTailProperties
  <2>. QED
    BY <1>0, <2>1 DEF PageOK
<1>. HIDE DEF page, head
<1>4. Due' = Due /\ \A j \in Jobs : Stale(j)' <=> Stale(j)
  BY <1>1 DEF Due, Stale, Behind
<1>5. Quiet'
  BY <1>0, <1>1 DEF Quiet, daily, ghosts
<1>6. PageOK'
  BY <1>0, <1>1, <1>2, <1>4 DEF PageOK, page
<1>7. head \in Pending /\ Pending' = Pending \ {head}
  BY <1>1, <1>2, <1>3, <1>4 DEF Pending, page
<1>8. /\ IsFiniteSet(Stuck) /\ Cardinality(Stuck) \in Nat
      /\ IsFiniteSet(Jobs \ Pending) /\ Cardinality(Jobs \ Pending) \in Nat
      /\ Jobs \ Pending' \subseteq Jobs /\ Cardinality(Jobs \ Pending') <= Cardinality(Jobs)
      /\ Cardinality(Jobs \ Pending') \in Nat /\ Cardinality(Jobs) \in Nat /\ boot.failed \in Nat
  BY <1>0, CountsFinite, Constants
<1>9. Cardinality(Jobs \ Pending') = Cardinality(Jobs \ Pending) + 1
  <2>1. Jobs \ Pending' = (Jobs \ Pending) \union {head} /\ head \notin Jobs \ Pending
    BY <1>2, <1>7
  <2>. QED
    BY <1>8, <2>1, FS_AddElement
<1>10. IsFiniteSet(Stuck') /\ Cardinality(Stuck') <= Cardinality(Stuck) + k
  <2>1. CASE k = 1
    <3>1. Stuck' \subseteq Stuck \union {head} /\ head \notin Stuck
      BY <1>4, <1>7 DEF Stuck
    <3>2. IsFiniteSet(Stuck \union {head}) /\ Cardinality(Stuck \union {head}) = Cardinality(Stuck) + 1
      BY <1>8, <3>1, FS_AddElement
    <3>. QED
      BY <2>1, <3>1, <3>2, FS_Subset
  <2>2. CASE k = 0 /\ row[head].status = "interrupted"
    <3>1. ~Stale(head)
      BY <2>2 DEF Stale, Active
    <3>2. Stuck' \subseteq Stuck
      BY <1>4, <1>7, <3>1 DEF Stuck
    <3>3. IsFiniteSet(Stuck') /\ Cardinality(Stuck') <= Cardinality(Stuck)
      BY <1>8, <3>2, FS_Subset
    <3>. QED
      BY <1>8, <2>2, <3>3, FS_CardinalityType
  <2>. QED
    BY <2>1, <2>2 DEF head, page
<1>11. Cardinality(Stuck') \in Nat
  BY <1>10, FS_CardinalityType
<1>12. Counted' /\ boot'.failed <= Cardinality(Jobs)
  BY <1>0, <1>1, <1>8, <1>9, <1>10, <1>11 DEF Counted
<1>. QED
  BY <1>1, <1>5, <1>6, <1>12 DEF Up

LEMMA RecoverySteps ==
  ASSUME StoreInv, TypesInv', Recovery
  PROVE  StoreInv'
<1>. USE DEF StoreInv
<1>0. /\ ~Up /\ Quiet /\ PageOK /\ Counted
      /\ boot \in [pc : {"list", "row", "event", "up"}, stamp : Nat, job : Nat, page : Seq(Jobs),
                   failed : Nat, listed : BOOLEAN]
      /\ boot.failed \in Nat /\ Cardinality(Jobs) \in Nat
  BY Constants
     DEF Up, TypesInv, BootOK, Recovery, List, ListFails, Interrupt, AnnounceInterruption, RecoveryFails
<1>1. ActiveJobsKeepTheirRow'
  <2>1. memory' = memory
    BY DEF Recovery, List, ListFails, Interrupt, AnnounceInterruption, RecoveryFails
  <2>. QED
    BY <1>0, <2>1 DEF ActiveJobsKeepTheirRow, Quiet, Active
<1>2. ASSUME UNCHANGED <<tables, ghosts>>
      PROVE  EventsGoWithTheirJob'
  BY <1>2 DEF EventsGoWithTheirJob, tables, ghosts
<1>3. ASSUME ~Up' PROVE RecoveryIsComplete'
  BY <1>3 DEF RecoveryIsComplete
<1>4. CASE List
  <2>1. PICK page \in Pages({j \in Jobs : Stale(j) /\ Behind(j)}) :
          boot' = IF page = << >> THEN [boot EXCEPT !.pc = "up"]
                  ELSE [boot EXCEPT !.pc = "row", !.page = page,
                                    !.stamp = row[Last(page)].stamp, !.job = Last(page)]
    BY <1>4 DEF List
  <2>2. /\ boot.page = << >> /\ Pending = Due /\ page \in Pages(Due)
        /\ UNCHANGED <<tables, memory, thread, daily, ghosts>>
    BY <1>4 DEF List, TypesInv, BootOK, Pending, Due, ToSet
  <2>3. ASSUME page = << >>
        PROVE  StoreInv'
    <3>1. boot' = [boot EXCEPT !.pc = "up"]
      BY <2>1, <2>3
    <3>2. Up' /\ boot'.failed = boot.failed
      BY <1>0, <3>1 DEF Up
    <3>3. Due = {}
      <4>1. ToSet(page) = {} /\ Len(page) = 0 /\ Page > 0
        BY <2>3, StoreAssumption DEF ToSet
      <4>2. \A j \in Due \ ToSet(page) : Len(page) = Page
        BY <2>2 DEF Pages, Listed
      <4>. QED
        BY <4>1, <4>2
    <3>4. Unowned' \subseteq Stuck
      BY <2>2, <3>3 DEF Unowned, Stuck, Stale, tables
    <3>5. Cardinality(Unowned') <= Cardinality(Stuck) /\ IsFiniteSet(Unowned')
      BY <3>4, CountsFinite, FS_Subset
    <3>6. Cardinality(Unowned') <= boot.failed
      BY <1>0, <3>5, CountsFinite, FS_CardinalityType DEF Counted
    <3>7. RecoveryIsComplete'
      BY <3>2, <3>6 DEF RecoveryIsComplete, Unowned
    <3>. QED
      BY <1>1, <1>2, <2>2, <3>2, <3>7
  <2>4. ASSUME page # << >>
        PROVE  StoreInv'
    <3>1. /\ boot'.pc = "row" /\ boot'.page = page /\ boot'.failed = boot.failed
          /\ boot'.stamp = row[Last(page)].stamp /\ boot'.job = Last(page)
          /\ boot'.listed = boot.listed
      BY <1>0, <2>1, <2>4
    <3>2. row' = row
      BY <2>2 DEF tables
    <3>3. /\ ToSet(page) \union Due' = Due
          /\ \A k, l \in DOMAIN page : page[k] = page[l] => k = l
          /\ \A k \in DOMAIN page : page[k] \notin Due'
      BY <2>2, <2>4, <3>1, <3>2, PageIsTaken
    <3>4. ~Up' /\ Quiet'
      BY <1>0, <2>2, <3>1 DEF Up, Quiet, daily, ghosts
    <3>5. PageOK'
      BY <3>1, <3>3 DEF PageOK
    <3>6. Pending' = Pending
      BY <2>2, <3>1, <3>3 DEF Pending
    <3>7. Stuck' = Stuck
      BY <3>2, <3>6 DEF Stuck, Stale
    <3>8. Counted' /\ boot'.failed <= Cardinality(Jobs)
      BY <1>0, <3>1, <3>6, <3>7 DEF Counted
    <3>. QED
      BY <1>1, <1>2, <1>3, <2>2, <3>4, <3>5, <3>8
  <2>. QED
    BY <2>3, <2>4
<1>5. CASE ListFails
  <2>1. boot' = [boot EXCEPT !.pc = "up", !.listed = FALSE]
    BY <1>5 DEF ListFails
  <2>2. Up' /\ boot'.failed = boot.failed /\ ~boot'.listed
    BY <1>0, <2>1 DEF Up
  <2>3. RecoveryIsComplete'
    BY <2>2 DEF RecoveryIsComplete
  <2>. QED
    BY <1>1, <1>2, <1>5, <2>2, <2>3 DEF ListFails
<1>6. CASE Interrupt
  <2>0. boot.page \in Seq(Jobs) /\ boot.page # << >> /\ Head(boot.page) \in Jobs
    BY <1>0, <1>6, HeadTailProperties DEF Interrupt, TypesInv, BootOK
  <2>. PICK head \in Jobs : head = Head(boot.page)
    BY <2>0
  <2>1. /\ boot' = [boot EXCEPT !.pc = "event"] /\ boot.pc = "row"
        /\ UNCHANGED <<stored, appended, memory, thread, daily, ghosts>>
        /\ row' = [row EXCEPT ![head] = [status |-> "interrupted", stamp |-> now]]
    BY <1>6 DEF Interrupt, Save
  <2>2. /\ head \in Jobs /\ head \notin Due /\ head \in ToSet(boot.page)
    <3>1. 1 \in DOMAIN boot.page /\ head = boot.page[1]
      BY <2>0, EmptySeq, LenProperties, HeadTailProperties
    <3>. QED
      BY <1>0, <3>1 DEF PageOK, ToSet
  <2>3. /\ ~Up' /\ boot'.pc = "event" /\ boot'.page = boot.page /\ boot'.failed = boot.failed
        /\ boot'.stamp = boot.stamp /\ boot'.job = boot.job /\ boot'.listed = boot.listed
    BY <1>0, <2>1 DEF Up
  <2>4. /\ row'[head] = [status |-> "interrupted", stamp |-> now]
        /\ \A j \in Jobs : j # head => row'[j] = row[j]
    BY <2>1, <2>2 DEF TypesInv, RowsOK
  <2>5. /\ ~Stale(head)'
        /\ \A j \in Jobs : j # head => (Stale(j)' <=> Stale(j)) /\ (Behind(j)' <=> Behind(j))
    BY <2>2, <2>3, <2>4 DEF Stale, Behind, Active
  <2>6. Due' = Due
    BY <2>2, <2>5 DEF Due
  <2>7. Pending' = Pending /\ head \in Pending
    BY <2>2, <2>3, <2>6 DEF Pending
  <2>8. Stuck' = Stuck
    BY <2>5, <2>7 DEF Stuck
  <2>9. Counted' /\ boot'.failed <= Cardinality(Jobs)
    BY <1>0, <2>3, <2>7, <2>8 DEF Counted
  <2>10. Quiet'
    BY <1>0, <2>1, <2>3 DEF Quiet, daily, ghosts
  <2>11. PageOK'
    BY <1>0, <2>3, <2>4, <2>6 DEF PageOK
  <2>12. EventsGoWithTheirJob'
    BY <2>1, <2>4 DEF EventsGoWithTheirJob, Absent, ghosts
  <2>. QED
    BY <1>1, <1>3, <2>3, <2>9, <2>10, <2>11, <2>12
<1>7. CASE AnnounceInterruption
  <2>1. row[Head(boot.page)].status = "interrupted"
    BY <1>0, <1>7 DEF AnnounceInterruption, PageOK
  <2>2. Quiet' /\ PageOK' /\ Counted' /\ ~Up' /\ boot'.failed <= Cardinality(Jobs)
    BY <1>7, <2>1, RowSteps DEF AnnounceInterruption
  <2>3. EventsGoWithTheirJob'
    <3>1. /\ row' = row /\ late' = late /\ row[Head(boot.page)] # Absent
          /\ \A j \in Jobs : j # Head(boot.page) => stored'[j] = stored[j]
      BY <1>7, <2>1 DEF AnnounceInterruption, AppendEvent, ghosts, Absent, TypesInv, EventsOK
    <3>. QED
      BY <3>1 DEF EventsGoWithTheirJob
  <2>. QED
    BY <1>1, <1>3, <2>2, <2>3
<1>8. CASE RecoveryFails
  <2>1. Quiet' /\ PageOK' /\ Counted' /\ ~Up' /\ boot'.failed <= Cardinality(Jobs)
    BY <1>8, RowSteps DEF RecoveryFails, tables
  <2>. QED
    BY <1>1, <1>2, <1>3, <1>8, <2>1 DEF RecoveryFails
<1>. QED
  BY <1>4, <1>5, <1>6, <1>7, <1>8 DEF Recovery

-----------------------------------------------------------------------------
(* Maintenance, the clock and a crash.                                      *)

\* Retention leaves the rows of active jobs, and the events of the rows it leaves.
LEMMA PruneSpares ==
  ASSUME StoreInv, Prune
  PROVE  /\ \A j \in Jobs : row[j].status \in Active => row'[j] = row[j]
         /\ \A j \in Jobs : row'[j].status \in Active => row'[j] = row[j]
         /\ EventsGoWithTheirJob'
<1>1. \A j \in Surplus(row) : row[j].status \notin Active
  BY DEF Surplus, Over
<1>2. \A j \in Jobs : row'[j] = IF j \in Surplus(row) THEN Absent ELSE row[j]
  BY DEF Prune
<1>3. \A j \in Jobs : stored'[j] = IF j \in Surplus(row) THEN {} ELSE stored[j]
  BY DEF Prune, EventsFirst
<1>4. EventsGoWithTheirJob'
  BY <1>2, <1>3 DEF EventsGoWithTheirJob, StoreInv, Prune, ghosts
<1>. QED
  BY <1>1, <1>2, <1>4 DEF Absent, Active

LEMMA MaintenanceSteps ==
  ASSUME StoreInv, TypesInv', Maintenance
  PROVE  StoreInv'
<1>. USE DEF StoreInv
<1>1. Up
  BY DEF Maintenance, Tick, Begin, Prune, Snapshot, MaintenanceFails, Work, Quiet, Resting
<1>2. UNCHANGED <<memory, boot, unsaved>>
  BY DEF Maintenance, Tick, Begin, Prune, Snapshot, MaintenanceFails, Work, ghosts
<1>3. /\ \A j \in Jobs : row[j].status \in Active => row'[j] = row[j]
      /\ \A j \in Jobs : row'[j].status \in Active => row'[j] = row[j]
      /\ EventsGoWithTheirJob'
  <2>1. CASE Prune
    BY <2>1, PruneSpares
  <2>2. CASE UNCHANGED <<tables, ghosts>>
    BY <2>2 DEF EventsGoWithTheirJob, tables, ghosts
  <2>. QED
    BY <2>1, <2>2 DEF Maintenance, Tick, Begin, Snapshot, MaintenanceFails, Work
<1>4. ActiveJobsKeepTheirRow'
  BY <1>2, <1>3 DEF ActiveJobsKeepTheirRow
<1>5. Unowned' \subseteq Unowned
  BY <1>2, <1>3 DEF Unowned
<1>6. Up' /\ boot'.failed <= Cardinality(Jobs) /\ RecoveryIsComplete'
  BY <1>1, <1>2, <1>5, ServerKeepsCount
<1>. QED
  BY <1>3, <1>4, <1>6

\* After a crash every active row is due: the cursor is past the clock.
LEMMA CrashStep ==
  ASSUME StoreInv, TypesInv', Crash
  PROVE  StoreInv'
<1>. USE DEF StoreInv
<1>1. /\ boot' = Booting /\ row' = row /\ stored' = stored /\ late' = late /\ unsaved' = {}
      /\ \A j \in Jobs : memory'[j] = "none" /\ thread'[j] = "none"
      /\ maint' = Resting
  BY DEF Crash, tables
<1>2. ~Up' /\ RecoveryIsComplete'
  BY <1>1 DEF Up, Booting, RecoveryIsComplete
<1>3. ActiveJobsKeepTheirRow' /\ EventsGoWithTheirJob'
  BY <1>1 DEF ActiveJobsKeepTheirRow, EventsGoWithTheirJob, Active
<1>4. Quiet'
  BY <1>1 DEF Quiet, Booting
<1>5. PageOK'
  BY <1>1 DEF PageOK, Booting
<1>6. \A j \in Jobs : Behind(j)'
  <2>1. \A j \in Jobs : row[j].stamp \in 0..now /\ now \in 0..MaxNow /\ MaxNow \in Nat
    BY Constants DEF TypesInv, RowsOK, CountsOK
  <2>2. \A j \in Jobs : row'[j].stamp < boot'.stamp
    BY <1>1, <2>1 DEF Booting, Never
  <2>. QED
    BY <2>2 DEF Behind
<1>7. Stuck' = {}
  BY <1>6 DEF Stuck, Pending, Due
<1>8. boot'.failed = 0 /\ Cardinality(Jobs) \in Nat
  BY <1>1, Constants DEF Booting
<1>9. Counted'
  <2>1. Cardinality(Jobs \ Pending') \in Nat
    BY CountsFinite
  <2>. QED
    BY <1>7, <1>8, <2>1, FS_EmptySet DEF Counted
<1>. QED
  BY <1>2, <1>3, <1>4, <1>5, <1>8, <1>9

\* Time passing, or nothing, leaves what the invariant is about.
LEMMA IdleSteps ==
  ASSUME StoreInv, TypesInv', UNCHANGED <<tables, memory, thread, boot, daily, ghosts>>
  PROVE  StoreInv'
<1>. USE DEF StoreInv
<1>1. /\ Up' <=> Up
      /\ Due' = Due /\ Pending' = Pending /\ Stuck' = Stuck
  BY DEF Up, Due, Pending, Stuck, Stale, Behind, tables
<1>2. ActiveJobsKeepTheirRow' /\ EventsGoWithTheirJob' /\ RecoveryIsComplete'
  BY <1>1 DEF ActiveJobsKeepTheirRow, EventsGoWithTheirJob, RecoveryIsComplete, tables, ghosts
<1>3. ~Up => Quiet' /\ PageOK' /\ Counted'
  BY <1>1 DEF Quiet, PageOK, Counted, tables, daily, ghosts
<1>. QED
  BY <1>1, <1>2, <1>3

LEMMA InitStore == Init => StoreInv
<1>. SUFFICES ASSUME Init PROVE StoreInv
  OBVIOUS
<1>1. TypesInv
  BY InitTypes
<1>2. boot = Booting /\ ~Up /\ \A j \in Jobs : ~Stale(j)
  BY DEF Init, Booting, Up, Stale, Absent, Active
<1>3. ActiveJobsKeepTheirRow /\ EventsGoWithTheirJob /\ RecoveryIsComplete
  BY <1>2 DEF Init, ActiveJobsKeepTheirRow, EventsGoWithTheirJob, RecoveryIsComplete, Active
<1>4. Quiet /\ PageOK
  BY <1>2 DEF Init, Quiet, PageOK, Booting
<1>5. Counted /\ boot.failed <= Cardinality(Jobs)
  <2>1. Stuck = {} /\ boot.failed = 0
    BY <1>2 DEF Stuck, Booting
  <2>2. Cardinality(Jobs \ Pending) \in Nat /\ Cardinality(Jobs) \in Nat
    BY CountsFinite, Constants
  <2>. QED
    BY <2>1, <2>2, FS_EmptySet DEF Counted
<1>. QED
  BY <1>1, <1>3, <1>4, <1>5 DEF StoreInv

LEMMA StepStore == StoreInv /\ [Next]_vars => StoreInv'
<1>. SUFFICES ASSUME StoreInv, [Next]_vars PROVE StoreInv'
  OBVIOUS
<1>1. TypesInv'
  BY StepTypes DEF StoreInv
<1>2. CASE \E j \in Jobs : JobStep(j)
  BY <1>1, <1>2, JobSteps
<1>3. CASE Recovery
  BY <1>1, <1>3, RecoverySteps
<1>4. CASE Maintenance
  BY <1>1, <1>4, MaintenanceSteps
<1>5. CASE Crash
  BY <1>1, <1>5, CrashStep
<1>6. CASE TimePasses
  BY <1>1, <1>6, IdleSteps DEF TimePasses
<1>7. CASE UNCHANGED vars
  BY <1>1, <1>7, IdleSteps DEF vars
<1>. QED
  BY <1>2, <1>3, <1>4, <1>5, <1>6, <1>7 DEF Next

\* The tables, the registry and recovery agree, whatever raises, crashes or is pruned
\* (append_job_event, reconcile_interrupted_jobs, run_maintenance).
THEOREM StoreInvariant == Spec => []StoreInv
BY InitStore, StepStore, PTL DEF Spec

-----------------------------------------------------------------------------
(* What the run of this module checks.                                      *)

\* Every variable has its type, and a job keeps no more events or bytes than it may
\* (append_job_event).
THEOREM StoreTypeCorrect == Spec => []StoreTypeOK
<1>1. ASSUME StoreInv
      PROVE  StoreTypeOK
  <2>. USE <1>1 DEF StoreInv, TypesInv
  <2>1. boot.pc \in {"list", "row", "event", "up"} /\ boot.failed \in 0..Cardinality(Jobs)
    BY Constants DEF BootOK
  <2>2. /\ maint.pc \in {"idle", "due", "prune", "snapshot", "work"}
        /\ runDate \in 0..Utc \union {Never} /\ lastDate \in 0..Local \union {Never}
    BY DEF DailyOK
  <2>3. /\ \A j \in Jobs : Cardinality(stored[j]) <= MaxEvents /\ Bytes(stored[j]) <= MaxBytes
        /\ \A j \in Jobs : stored[j] \subseteq [n : 1..appended[j], size : Sizes]
    BY DEF EventsOK
  <2>. QED
    BY <2>1, <2>2, <2>3 DEF StoreTypeOK, RowsOK, JobsOK, CountsOK, Memories
<1>. QED
  BY <1>1, StoreInvariant, PTL

\* The registry, the jobs table and the events table stay together: an active job keeps
\* its row, a replay has no gap, and pruning takes a job's events with its row.
THEOREM HistoryStaysConsistent == Spec => []HistoryIsConsistent
<1>1. ASSUME StoreInv
      PROVE  HistoryIsConsistent
  <2>1. EventsHaveNoGap
    BY <1>1 DEF StoreInv, TypesInv, EventsOK, NoGap, EventsHaveNoGap
  <2>. QED
    BY <1>1, <2>1 DEF StoreInv, HistoryIsConsistent
<1>. QED
  BY <1>1, StoreInvariant, PTL

\* When the server comes up, recovery has treated every row that said its job was active,
\* or counted it as failed, however many pages the rows took (reconcile_interrupted_jobs).
THEOREM RecoveryCompletes == Spec => []RecoveryIsComplete
<1>1. StoreInv => RecoveryIsComplete
  BY DEF StoreInv
<1>. QED
  BY <1>1, StoreInvariant, PTL

=============================================================================
