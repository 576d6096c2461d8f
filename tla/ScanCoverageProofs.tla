------------------------- MODULE ScanCoverageProofs -------------------------
(***************************************************************************)
(* Theorems about ScanCoverage, for targets, chunks, limits, exclusions    *)
(* and gateways of every size and number.                                  *)
(*                                                                         *)
(* The inductive invariant CoverageInv has these parts besides the types   *)
(* and the properties: which steps belong to which task (Stages), that     *)
(* every address handed on is in scope (InScope), that every host found is *)
(* scanned, incomplete or still to do (Accounted), and that the parts      *)
(* collected, under way and to come make up a report's plan (Covering).    *)
(***************************************************************************)
EXTENDS ScanCoverage, SequenceTheorems, TLAPS

Early     == {"discover", "rediscover", "arp", "names", "split"}
ScanPCs   == Early \cup {"service", "done"}
Gathering == {"chunks", "retry"}
Rendering == {"web", "view", "pdf", "save", "upload"}
ReportPCs == Gathering \cup Rendering \cup {"rules", "chunk failed", "done"}

\* A task takes its own steps only, and has done nothing before its first ones.
Stages ==
  /\ kind = "scan" => pc \in ScanPCs
  /\ kind = "report" => pc \in ReportPCs
  /\ pc \in Early \cup {"rules"} => serviced = {} /\ protected = {} /\ phases = <<>>
  /\ pc \in {"discover", "rediscover", "arp"} => arpOnly = {}
  /\ pc = "rules" => /\ probed = {} /\ found = {} /\ collected = {}
                     /\ work = <<>> /\ next = 1
  /\ pc \in Gathering \cup {"rules"} => ~xml.whole
  /\ kind = "scan" /\ status = "completed" => phases = <<>>

\* What has been found or is still to be scanned is neither excluded nor protected.
InScope ==
  /\ found \cap rules.exclude = {}
  /\ \A p \in Entries(phases) : p.hosts \cap (rules.exclude \cup protected) = {}
  /\ kind = "report" => protected \subseteq rules.exclude

\* Discovery and service scan see alike: the scans still to do reach their hosts,
\* and no host that was found is forgotten.
Alike == kind = "scan" /\ world.level # "sudo"
Reachable ==
  /\ \A h \in found \ arpOnly : Reached(h, rules.noPing)
  /\ \A p \in Entries(phases) : \A h \in p.hosts : Reached(h, p.noPing)
Outstanding == UNION {p.hosts : p \in Entries(phases)}
Accounted ==
  Alike =>
    /\ Reachable
    /\ pc = "service" \/ status = "completed" =>
         found \ protected \subseteq examined \cup incomplete \cup Outstanding

\* The blocks under way and to come.
Open   == {w.block : w \in Entries(work)}
Coming == {plan[i] : i \in next .. Len(plan)}
WholePlan ==
  plan # <<>> /\ AddressesOf(Entries(plan)) = AddressesOf(collected \cup Open \cup Coming)
Covering ==
  /\ pc \in Gathering => WholePlan
  /\ (pc \in Rendering \/ (kind = "report" /\ status = "completed")) /\ xml.whole =>
       xml.hosts = AddressesOf(Entries(plan)) \ rules.exclude
  /\ pc \in {"save", "upload"} \/ (kind = "report" /\ status = "completed") =>
       files \cap {"view", "pdf"} # {}

CoverageInv ==
  /\ CoverageTypeOK /\ Stages /\ HandsOff /\ InScope /\ Accounted
  /\ Covering /\ EvidenceIsKept

-----------------------------------------------------------------------------
(* Blocks and plans                                                        *)

LEMMA RangeSplit ==
  ASSUME NEW lo \in Nat, NEW size \in Nat, NEW h \in Nat, h <= size, NEW a \in Nat
  PROVE  a \in lo .. (lo + size - 1) <=>
           \/ a \in lo .. (lo + h - 1)
           \/ a \in (lo + h) .. (lo + h + (size - h) - 1)
  OBVIOUS

\* The halves of a block are blocks and have its addresses.
LEMMA HalvesCover ==
  ASSUME NEW b \in Blocks, Halves(b) # <<>>
  PROVE  /\ Halves(b) \in Seq(Blocks) /\ Len(Halves(b)) = 2
         /\ \A a \in Nat : a \in Addresses(b) <=>
              a \in Addresses(Halves(b)[1]) \/ a \in Addresses(Halves(b)[2])
<1>1. ~ (b.size <= Smallest)
  BY DEF Halves
<1>2. PICK lo \in Nat, size \in Nat, h \in Nat :
        lo = b.lo /\ size = b.size /\ h = b.size \div 2 /\ h <= size
  BY DEF Blocks
<1>3. Halves(b) = <<Block(lo, h), Block(lo + h, size - h)>>
  BY <1>1, <1>2 DEF Halves
<1>4. Block(lo, h) \in Blocks /\ Block(lo + h, size - h) \in Blocks
  BY <1>2 DEF Block, Blocks
<1>5. /\ Addresses(b) = lo .. (lo + size - 1)
      /\ Addresses(Block(lo, h)) = lo .. (lo + h - 1)
      /\ Addresses(Block(lo + h, size - h)) = (lo + h) .. (lo + h + (size - h) - 1)
  BY <1>2 DEF Addresses, Block
<1>6. ASSUME NEW a \in Nat
      PROVE  a \in Addresses(b) <=> a \in Addresses(Block(lo, h))
                                      \/ a \in Addresses(Block(lo + h, size - h))
  <2>1. h <= size
    BY <1>2
  <2>2. a \in lo .. (lo + size - 1) <=>
           \/ a \in lo .. (lo + h - 1)
           \/ a \in (lo + h) .. (lo + h + (size - h) - 1)
    BY <2>1, RangeSplit
  <2> QED BY <1>5, <2>2, Zenon
<1>7. /\ Halves(b) \in Seq(Blocks) /\ Len(Halves(b)) = 2
      /\ Halves(b)[1] = Block(lo, h) /\ Halves(b)[2] = Block(lo + h, size - h)
  BY <1>3, <1>4
<1> QED
  BY <1>6, <1>7

LEMMA SubnetsAreBlocks ==
  ASSUME NEW b \in Blocks, NEW n \in Nat \ {0}, b.size > n
  PROVE  Subnets(b, n) \in Seq(Blocks) /\ Len(Subnets(b, n)) = b.size \div n
         /\ b.size \div n \in Nat \ {0}
<1> DEFINE k == b.size \div n
<1>1. k \in Nat \ {0}
  BY DEF Blocks
<1> HIDE DEF k
<1>2. ASSUME NEW i \in 1 .. k PROVE Block(b.lo + (i - 1) * n, n) \in Blocks
  <2>1. i - 1 \in Nat /\ (i - 1) * n \in Nat
    BY <1>1
  <2> QED BY <2>1 DEF Blocks, Block
<1>3. Subnets(b, n) = [i \in 1 .. k |-> Block(b.lo + (i - 1) * n, n)]
  BY DEF Subnets, k
<1> QED
  BY <1>1, <1>2, <1>3 DEF k

\* Every plan has a chunk.
LEMMA PlansAreBlocks ==
  ASSUME NEW size \in Nat \ {0}, NEW chunked \in BOOLEAN
  PROVE  PlanFor(Block(0, size), chunked) \in Seq(Blocks) \ {<<>>}
<1> DEFINE b == Block(0, size)
<1>1. b \in Blocks /\ b.size = size
  BY DEF Block, Blocks
<1>2. <<b>> \in Seq(Blocks) \ {<<>>}
  BY <1>1
<1>3. ASSUME size > ChunkSize PROVE Chunks(b) \in Seq(Blocks) \ {<<>>}
  <2> DEFINE s == Subnets(b, ChunkSize)
             m == IF b.size \div ChunkSize <= ChunkCap THEN b.size \div ChunkSize
                  ELSE ChunkCap
  <2>1. s \in Seq(Blocks) /\ Len(s) = b.size \div ChunkSize
        /\ b.size \div ChunkSize \in Nat \ {0}
    BY <1>1, <1>3, SubnetsAreBlocks, CoverageAssumption
  <2>2. m \in Nat \ {0} /\ m <= Len(s)
    BY <2>1, CoverageAssumption
  <2>3. Chunks(b) = SubSeq(s, 1, m)
    BY <1>1, <1>3, CoverageAssumption DEF Chunks
  <2> HIDE DEF s, m
  <2>4. SubSeq(s, 1, m) \in Seq(Blocks) /\ Len(SubSeq(s, 1, m)) = m
    BY <2>1, <2>2
  <2> QED BY <2>2, <2>3, <2>4
<1>4. ASSUME size > PassSize PROVE Subnets(b, PassSize) \in Seq(Blocks) \ {<<>>}
  BY <1>1, <1>4, SubnetsAreBlocks, CoverageAssumption
<1>5. ASSUME size <= ChunkSize PROVE Chunks(b) = <<b>>
  BY <1>1, <1>5 DEF Chunks
<1>6. size > ChunkSize \/ size <= ChunkSize
  BY CoverageAssumption
<1>7. \/ PlanFor(b, chunked) = Chunks(b)
      \/ size > PassSize /\ PlanFor(b, chunked) = Subnets(b, PassSize)
      \/ PlanFor(b, chunked) = <<b>>
  BY <1>1 DEF PlanFor
<1> QED
  BY <1>2, <1>3, <1>4, <1>5, <1>6, <1>7 DEF b

-----------------------------------------------------------------------------
(* Types                                                                   *)

LEMMA HeadAndTail ==
  ASSUME NEW S, NEW s \in Seq(S), s # <<>>
  PROVE  /\ Head(s) \in S /\ Tail(s) \in Seq(S)
         /\ Len(s) \in Nat \ {0} /\ Len(Tail(s)) = Len(s) - 1 /\ Head(s) = s[1]
         /\ \A i \in 1 .. Len(Tail(s)) : Tail(s)[i] = s[i + 1]
  OBVIOUS

LEMMA SequenceTypes ==
  ASSUME NEW S
  PROVE  /\ <<>> \in Seq(S)
         /\ \A s, t \in Seq(S) : s \o t \in Seq(S)
         /\ \A x, y \in S : <<x, y>> \in Seq(S)
  OBVIOUS

LEMMA TypesStay ==
  ASSUME CoverageTypeOK
  PROVE  /\ UNCHANGED scanVars => ScanTypes'
         /\ UNCHANGED <<plan, next, work>> => PlanTypes'
         /\ UNCHANGED <<collected, disk, xml, published>> => FileTypes'
<1>1. UNCHANGED scanVars => ScanTypes'
  BY DEF CoverageTypeOK, ScanTypes, scanVars
<1>2. UNCHANGED <<plan, next, work>> => PlanTypes'
  BY DEF CoverageTypeOK, PlanTypes
<1>3. UNCHANGED <<collected, disk, xml, published>> => FileTypes'
  BY DEF CoverageTypeOK, FileTypes, published
<1> QED BY <1>1, <1>2, <1>3

LEMMA KnownUpType ==
  ASSUME TaskTypes, NEW H \in SUBSET Nat
  PROVE  /\ KnownUp(H) \in Seq(Phases)
         /\ Len(KnownUp(H)) = 2
         /\ KnownUp(H)[1] = [hosts |-> H \ arpOnly, noPing |-> rules.noPing]
         /\ KnownUp(H)[2] = [hosts |-> H \cap arpOnly, noPing |-> TRUE]
<1> DEFINE p == [hosts |-> H \ arpOnly, noPing |-> rules.noPing]
           q == [hosts |-> H \cap arpOnly, noPing |-> TRUE]
<1>1. p \in Phases /\ q \in Phases
  BY DEF TaskTypes, Rules, Phases
<1>2. KnownUp(H) = <<p, q>>
  BY DEF KnownUp
<1> HIDE DEF p, q
<1>3. <<p, q>> \in Seq(Phases) /\ Len(<<p, q>>) = 2 /\ <<p, q>>[1] = p /\ <<p, q>>[2] = q
  BY <1>1, SequenceTypes
<1> QED BY <1>2, <1>3 DEF p, q

LEMMA ScopeType ==
  ASSUME NEW A \in SUBSET Nat
  PROVE  Scope(A) \subseteq Nat
  BY DEF Scope

LEMMA AddressesType ==
  ASSUME NEW b \in Blocks
  PROVE  Addresses(b) \subseteq Nat
  BY DEF Addresses, Blocks

LEMMA TypeInvariance ==
  ASSUME CoverageTypeOK, [CoverageNext]_vars
  PROVE  CoverageTypeOK'
<1> USE DEF fixed, scanVars, reportVars, published, At, End, CoverageTypeOK
<1>0. Target \subseteq Nat
  BY CoverageAssumption DEF Target
<1>1. CASE UNCHANGED vars
  <2>1. TaskTypes'
    BY <1>1 DEF vars, TaskTypes
  <2> QED BY <1>1, <2>1, TypesStay DEF vars
<1>2. CASE Cancel \/ LearnRoutes \/ ForgetRoutes \/ SyncRoutes
  <2>1. TaskTypes'
    BY <1>2, CoverageAssumption
       DEF Cancel, LearnRoutes, ForgetRoutes, SyncRoutes, SessionLearns, TaskTypes
  <2> QED BY <1>2, <2>1, TypesStay
          DEF Cancel, LearnRoutes, ForgetRoutes, SyncRoutes, SessionLearns
<1>3. CASE ScanStep
  <2>0. UNCHANGED reportVars
    BY <1>3 DEF ScanStep, ScanCancelled, ScanRaises, Discover, Rediscover, ArpScan,
                AskNames, SplitTargets, ServiceScan, NextPhase, ScanEnds
  <2> SUFFICES TaskTypes' /\ ScanTypes'
    BY <2>0, TypesStay
  <2>1. CASE ScanCancelled \/ ScanRaises \/ ScanEnds
    <3>1. TaskTypes'
      BY <2>1 DEF ScanCancelled, ScanRaises, ScanEnds, PCs, TaskTypes
    <3> QED BY <2>1, <3>1, TypesStay DEF ScanCancelled, ScanRaises, ScanEnds
  <2>2. CASE Discover \/ Rediscover
    <3>1. \A b \in BOOLEAN : Listed(b) \subseteq Nat
      BY <1>0 DEF Listed, TaskTypes
    <3>2. Scope(Target) \subseteq Nat
      BY <1>0, ScopeType
    <3>3. (world.level = "root" \/ (Prefixed /\ ~rules.scanOnly)) \in BOOLEAN
      OBVIOUS
    <3>4. found' \subseteq Nat /\ UNCHANGED <<arpOnly, phases, examined, incomplete>>
      BY <2>2, <3>1, <3>3 DEF Discover, Rediscover, ScanTypes
    <3>5. TaskTypes'
      BY <2>2, <3>2 DEF Discover, Rediscover, PCs, TaskTypes
    <3> QED BY <3>4, <3>5 DEF ScanTypes
  <2>3. CASE ArpScan
    <3>1. \A reply \in {world.live, {}} : ArpAdds(reply) \subseteq Nat
      BY DEF ArpAdds, TaskTypes
    <3>2. found' \subseteq Nat /\ arpOnly' \subseteq Nat
          /\ UNCHANGED <<phases, examined, incomplete>>
      BY <2>3, <3>1 DEF ArpScan, ScanTypes
    <3>3. TaskTypes'
      BY <1>0, <2>3 DEF ArpScan, PCs, TaskTypes
    <3> QED BY <3>2, <3>3 DEF ScanTypes
  <2>4. CASE AskNames
    <3>1. probed' \subseteq Nat
      <4>1. PICK unnamed \in {found, {}} :
              \/ probed' = probed \cup unnamed
              \/ probed' = probed \cup (unnamed \ (SessionGateways \cup GatewaysAmong(found)))
        BY <2>4 DEF AskNames
      <4> QED BY <4>1 DEF TaskTypes, ScanTypes
    <3>2. TaskTypes'
      BY <2>4, <3>1 DEF AskNames, PCs, TaskTypes
    <3> QED BY <2>4, <3>2, TypesStay DEF AskNames
  <2>5. CASE SplitTargets
    <3> DEFINE G == GatewaysAmong(found)
               K == SessionGateways \cup G
    <3>1. G \subseteq Nat /\ K \subseteq Nat
      BY DEF GatewaysAmong, SessionGateways, ScanTypes, TaskTypes
    <3>2. \A H \in SUBSET Nat : KnownUp(H) \in Seq(Phases)
      BY KnownUpType
    <3>3. RegularHosts(found, K) \subseteq Nat /\ RegularHosts(found, G) \subseteq Nat
      BY DEF RegularHosts, ScanTypes
    <3>4. \/ /\ phases' = KnownUp(RegularHosts(found, K))
             /\ protected' = K
          \/ /\ phases' = KnownUp(RegularHosts(found, G)) \o KnownUp(G)
             /\ protected' = protected
      BY <2>5 DEF SplitTargets
    <3> HIDE DEF G, K
    <3>5. phases' \in Seq(Phases)
      <4>1. /\ KnownUp(RegularHosts(found, K)) \in Seq(Phases)
            /\ KnownUp(RegularHosts(found, G)) \in Seq(Phases)
            /\ KnownUp(G) \in Seq(Phases)
        BY <3>1, <3>2, <3>3
      <4> QED BY <3>4, <4>1, SequenceTypes
    <3>6. TaskTypes'
      BY <2>5, <3>1, <3>4 DEF SplitTargets, PCs, TaskTypes
    <3> QED BY <2>5, <3>5, <3>6 DEF SplitTargets, ScanTypes
  <2>6. CASE ServiceScan
    <3>1. PICK h \in Head(phases).hosts :
            /\ phases' = [phases EXCEPT ![1].hosts = @ \ {h}]
            /\ serviced' = serviced \cup {h}
            /\ examined' \subseteq examined \cup {h}
            /\ incomplete' \subseteq incomplete \cup {h}
      BY <2>6 DEF ServiceScan
    <3>2. Head(phases) \in Phases /\ Head(phases) = phases[1]
          /\ Len(phases) \in Nat \ {0}
      BY <2>6, HeadAndTail DEF ServiceScan, ScanTypes
    <3>3. h \in Nat
      BY <3>2 DEF Phases
    <3>4. phases' \in Seq(Phases)
      <4>1. [phases[1] EXCEPT !.hosts = @ \ {h}] \in Phases
        BY <3>2 DEF Phases
      <4>2. phases' = [phases EXCEPT ![1] = [phases[1] EXCEPT !.hosts = @ \ {h}]]
        BY <3>1
      <4> QED BY <3>2, <4>1, <4>2 DEF ScanTypes
    <3>5. TaskTypes'
      BY <2>6, <3>1, <3>3 DEF ServiceScan, TaskTypes
    <3> QED BY <2>6, <3>1, <3>3, <3>4, <3>5 DEF ServiceScan, ScanTypes
  <2>7. CASE NextPhase
    <3>1. phases' \in Seq(Phases)
      BY <2>7, HeadAndTail DEF NextPhase, ScanTypes
    <3>2. TaskTypes'
      BY <2>7 DEF NextPhase, TaskTypes
    <3> QED BY <2>7, <3>1, <3>2 DEF NextPhase, ScanTypes
  <2> QED BY <1>3, <2>1, <2>2, <2>3, <2>4, <2>5, <2>6, <2>7 DEF ScanStep
<1>4. CASE ReportStep
  <2>0. UNCHANGED scanVars
    BY <1>4 DEF ReportStep, ReadRules, NextChunk, ChunkScanned, ChunkTimesOut,
         ChunkDenied, ChunkFails, ReportFails, MergeChunks, MergeFails,
         RenderWeb, RenderView, RenderPage, RenderPdf, SaveReport, UploadReport
  <2> SUFFICES TaskTypes' /\ PlanTypes' /\ FileTypes'
    BY <2>0, TypesStay
  <2>a. ASSUME work # <<>>
        PROVE  /\ Head(work) \in Parts /\ Tail(work) \in Seq(Parts)
               /\ Head(work).block \in Blocks
               /\ Scope(Addresses(Head(work).block)) \subseteq Nat
    <3>1. Head(work) \in Parts /\ Tail(work) \in Seq(Parts)
      BY <2>a, HeadAndTail DEF PlanTypes
    <3> QED BY <3>1, AddressesType, ScopeType DEF Parts
  <2>1. CASE ReadRules
    <3>1. ASSUME NEW size \in TargetSizes, NEW chunked \in BOOLEAN
          PROVE  PlanFor(Block(0, size), chunked) \in Seq(Blocks)
      BY PlansAreBlocks, CoverageAssumption
    <3>2. rules' \in Rules /\ protected' \subseteq Nat
      BY <2>1 DEF ReadRules, Rules, SessionGateways, TaskTypes
    <3>3. plan' \in Seq(Blocks)
      BY <2>1, <3>1 DEF ReadRules, PlanTypes
    <3>4. TaskTypes'
      BY <2>1, <3>2 DEF ReadRules, PCs, TaskTypes
    <3> QED BY <2>1, <3>3, <3>4, TypesStay DEF ReadRules, PlanTypes
  <2>2. CASE NextChunk
    <3>1. plan[next] \in Blocks
      BY <2>2 DEF NextChunk, PlanTypes
    <3>2. [block |-> plan[next], depth |-> 0] \in Parts
      BY <3>1 DEF Parts
    <3>3. PlanTypes'
      BY <2>2, <3>2 DEF NextChunk, PlanTypes
    <3>4. TaskTypes'
      BY <2>2 DEF NextChunk, TaskTypes
    <3> QED BY <2>2, <3>3, <3>4, TypesStay DEF NextChunk
  <2>3. CASE ChunkScanned
    <3>1. TaskTypes'
      BY <2>3, <2>a DEF ChunkScanned, PCs, TaskTypes
    <3>2. PlanTypes'
      BY <2>3, <2>a DEF ChunkScanned, PlanTypes
    <3>3. FileTypes'
      BY <2>3, <2>a DEF ChunkScanned, FileTypes
    <3> QED BY <3>1, <3>2, <3>3
  <2>4. CASE ChunkTimesOut
    <3>1. ASSUME MayHalve(Head(work))
          PROVE  AfterTimeout(Head(work)) \in Seq(Parts)
      <4> DEFINE w == Head(work)
      <4>0. w \in Parts /\ Tail(work) \in Seq(Parts)
        BY <2>4, <2>a DEF ChunkTimesOut
      <4> HIDE DEF w
      <4>1. Halves(w.block) \in Seq(Blocks) /\ Len(Halves(w.block)) = 2
        BY <3>1, <4>0, HalvesCover DEF MayHalve, Parts, w
      <4>2. \A i \in 1 .. 2 : [block |-> Halves(w.block)[i], depth |-> w.depth + 1] \in Parts
        BY <4>0, <4>1 DEF Parts
      <4>3. HalvesOf(w) \in Seq(Parts)
        BY <4>1, <4>2 DEF HalvesOf
      <4> QED BY <4>0, <4>3 DEF AfterTimeout, w
    <3>2. work' \in Seq(Parts)
      BY <2>4, <3>1, SequenceTypes DEF ChunkTimesOut
    <3>3. TaskTypes'
      BY <2>4, <2>a DEF ChunkTimesOut, PCs, TaskTypes
    <3> QED BY <2>4, <3>2, <3>3, TypesStay DEF ChunkTimesOut, PlanTypes
  <2>5. CASE ChunkDenied \/ ReportFails
    <3>1. TaskTypes'
      BY <2>5 DEF ChunkDenied, ReportFails, PCs, TaskTypes
    <3>2. PlanTypes'
      BY <2>5, SequenceTypes DEF ChunkDenied, ReportFails, PlanTypes
    <3> QED BY <2>5, <3>1, <3>2, TypesStay DEF ChunkDenied, ReportFails
  <2>6. CASE ChunkFails
    <3>1. TaskTypes'
      BY <2>6, <2>a DEF ChunkFails, PCs, TaskTypes
    <3>2. PlanTypes'
      BY <2>6, SequenceTypes DEF ChunkFails, PlanTypes
    <3> QED BY <2>6, <3>1, <3>2, TypesStay DEF ChunkFails
  <2>7. CASE MergeChunks
    <3>1. AddressesOf(collected) \subseteq Nat
      BY AddressesType DEF AddressesOf, FileTypes
    <3>2. plan[1] \in disk => Scope(Addresses(plan[1])) \subseteq Nat
      BY AddressesType, ScopeType DEF FileTypes
    <3>3. xml' \in [whole : BOOLEAN, hosts : SUBSET Nat]
      <4>1. Scope(AddressesOf(collected)) \subseteq Nat
        BY <3>1, ScopeType
      <4>2. Merged \in [whole : BOOLEAN, hosts : SUBSET Nat]
        BY <4>1 DEF Merged
      <4>3. OnlyChunk \in [whole : BOOLEAN, hosts : SUBSET Nat]
        BY <3>2 DEF OnlyChunk
      <4> QED BY <2>7, <4>2, <4>3 DEF MergeChunks
    <3>4. FileTypes'
      BY <2>7, <3>3 DEF MergeChunks, FileTypes
    <3>5. TaskTypes'
      BY <2>7 DEF MergeChunks, PCs, TaskTypes
    <3> QED BY <2>7, <3>4, <3>5, TypesStay DEF MergeChunks
  <2>8. CASE MergeFails
    <3>1. TaskTypes'
      BY <2>8 DEF MergeFails, PCs, TaskTypes
    <3>2. FileTypes'
      BY <2>8 DEF MergeFails, KeptOnFailure, FileTypes
    <3> QED BY <2>8, <3>1, <3>2, TypesStay DEF MergeFails
  <2>9. CASE RenderWeb \/ RenderView \/ RenderPdf
    <3>1. TaskTypes'
      BY <2>9 DEF RenderWeb, RenderView, RenderPage, RenderPdf, PCs, TaskTypes
    <3>2. FileTypes'
      BY <2>9 DEF RenderWeb, RenderView, RenderPage, RenderPdf, FileTypes
    <3> QED BY <2>9, <3>1, <3>2, TypesStay DEF RenderWeb, RenderView, RenderPage, RenderPdf
  <2>10. CASE SaveReport \/ UploadReport
    <3>1. TaskTypes'
      BY <2>10 DEF SaveReport, UploadReport, PCs, TaskTypes
    <3>2. FileTypes'
      BY <2>10 DEF SaveReport, UploadReport, Exported, FileTypes
    <3> QED BY <2>10, <3>1, <3>2, TypesStay DEF SaveReport, UploadReport
  <2> QED BY <1>4, <2>1, <2>2, <2>3, <2>4, <2>5, <2>6, <2>7, <2>8, <2>9, <2>10 DEF ReportStep
<1> QED BY <1>1, <1>2, <1>3, <1>4 DEF CoverageNext

-----------------------------------------------------------------------------
(* Sequences as sets of entries                                            *)

LEMMA EntriesSplit ==
  ASSUME NEW S, NEW s \in Seq(S), s # <<>>
  PROVE  /\ Entries(s) = {Head(s)} \cup Entries(Tail(s))
         /\ Head(s) \in Entries(s)
         /\ \A x \in S : Entries([s EXCEPT ![1] = x]) = {x} \cup Entries(Tail(s))
<1>1. /\ Len(s) \in Nat \ {0} /\ Len(Tail(s)) = Len(s) - 1 /\ Head(s) = s[1]
      /\ \A i \in 1 .. Len(Tail(s)) : Tail(s)[i] = s[i + 1]
  BY HeadAndTail
<1>2. ASSUME NEW i \in 1 .. Len(s), i # 1
      PROVE  i - 1 \in 1 .. Len(Tail(s)) /\ Tail(s)[i - 1] = s[i]
  BY <1>1, <1>2
<1>3. ASSUME NEW i \in 1 .. Len(Tail(s))
      PROVE  i + 1 \in 1 .. Len(s) /\ i + 1 # 1 /\ Tail(s)[i] = s[i + 1]
  BY <1>1, <1>3
<1>4. 1 \in 1 .. Len(s)
  BY <1>1
<1>5. Entries(s) = {Head(s)} \cup Entries(Tail(s))
  <2>1. ASSUME NEW i \in 1 .. Len(s) PROVE s[i] \in {Head(s)} \cup Entries(Tail(s))
    BY <1>1, <1>2, <2>1 DEF Entries
  <2>2. ASSUME NEW i \in 1 .. Len(Tail(s)) PROVE Tail(s)[i] \in Entries(s)
    BY <1>3, <2>2 DEF Entries
  <2>3. Head(s) \in Entries(s)
    BY <1>1, <1>4 DEF Entries
  <2> QED BY <2>1, <2>2, <2>3 DEF Entries
<1>6. ASSUME NEW x \in S
      PROVE  Entries([s EXCEPT ![1] = x]) = {x} \cup Entries(Tail(s))
  <2> DEFINE t == [s EXCEPT ![1] = x]
  <2>1. /\ t[1] = x /\ Len(t) = Len(s)
        /\ \A i \in 1 .. Len(s) : i # 1 => t[i] = s[i]
    <3>1. x \in S /\ 1 \in 1 .. Len(s)
      BY <1>4
    <3>2. \A i \in 1 .. Len(s), e \in S :
            /\ Len([s EXCEPT ![i] = e]) = Len(s)
            /\ \A j \in 1 .. Len(s) : [s EXCEPT ![i] = e][j] = IF j = i THEN e ELSE s[j]
      BY ExceptSeq
    <3>3. /\ Len(t) = Len(s)
          /\ \A j \in 1 .. Len(s) : t[j] = IF j = 1 THEN x ELSE s[j]
      BY <3>1, <3>2
    <3> QED BY <3>1, <3>3
  <2> HIDE DEF t
  <2>2. Entries(t) = {x} \cup Entries(Tail(s))
    <3>1. ASSUME NEW i \in 1 .. Len(t) PROVE t[i] \in {x} \cup Entries(Tail(s))
      BY <1>2, <2>1, <3>1 DEF Entries
    <3>2. ASSUME NEW i \in 1 .. Len(Tail(s)) PROVE Tail(s)[i] \in Entries(t)
      <4>1. i + 1 \in 1 .. Len(t) /\ t[i + 1] = Tail(s)[i]
        BY <1>3, <2>1, <3>2
      <4> QED BY <4>1 DEF Entries
    <3>3. x \in Entries(t)
      BY <1>4, <2>1 DEF Entries
    <3> QED BY <3>1, <3>2, <3>3 DEF Entries
  <2> QED BY <2>2 DEF t
<1> QED
  BY <1>5, <1>6

LEMMA EntriesJoin ==
  ASSUME NEW S, NEW s \in Seq(S), NEW t \in Seq(S)
  PROVE  /\ Entries(s \o t) = Entries(s) \cup Entries(t)
         /\ Len(s) = 2 => Entries(s) = {s[1], s[2]}
         /\ Entries(<<>>) = {}
<1>1. /\ Len(s) \in Nat /\ Len(t) \in Nat /\ Len(s \o t) = Len(s) + Len(t)
      /\ \A i \in 1 .. Len(s) + Len(t) :
           (s \o t)[i] = IF i <= Len(s) THEN s[i] ELSE t[i - Len(s)]
  OBVIOUS
<1>2. ASSUME NEW x \in Entries(s) PROVE x \in Entries(s \o t)
  BY <1>1, <1>2 DEF Entries
<1>3. ASSUME NEW x \in Entries(t) PROVE x \in Entries(s \o t)
  <2>1. PICK i \in 1 .. Len(t) : x = t[i]
    BY <1>3 DEF Entries
  <2>2. i + Len(s) \in 1 .. Len(s) + Len(t) /\ ~(i + Len(s) <= Len(s))
        /\ (i + Len(s)) - Len(s) = i
    BY <1>1
  <2>3. (s \o t)[i + Len(s)] = x
    BY <1>1, <2>1, <2>2
  <2> QED BY <1>1, <2>2, <2>3 DEF Entries
<1>4. ASSUME NEW x \in Entries(s \o t) PROVE x \in Entries(s) \cup Entries(t)
  <2>1. PICK i \in 1 .. Len(s) + Len(t) : x = (s \o t)[i]
    BY <1>1, <1>4 DEF Entries
  <2>2. CASE i <= Len(s)
    BY <1>1, <2>1, <2>2 DEF Entries
  <2>3. CASE ~(i <= Len(s))
    <3>1. i - Len(s) \in 1 .. Len(t) /\ x = t[i - Len(s)]
      BY <1>1, <2>1, <2>3
    <3> QED BY <3>1 DEF Entries
  <2> QED BY <2>2, <2>3
<1>5. Len(s) = 2 => Entries(s) = {s[1], s[2]}
  BY DEF Entries
<1>6. Entries(<<>>) = {}
  BY DEF Entries
<1> QED
  BY <1>2, <1>3, <1>4, <1>5, <1>6

-----------------------------------------------------------------------------
(* The parts of the invariant                                              *)

LEMMA StagesInvariance ==
  ASSUME CoverageTypeOK, Stages, [CoverageNext]_vars
  PROVE  Stages'
<1> USE DEF Stages, fixed, scanVars, reportVars, published, At, End,
            Early, ScanPCs, Gathering, Rendering, ReportPCs
<1>0. kind \in {"scan", "report"} /\ (status = "running" <=> pc # "done")
  BY DEF CoverageTypeOK, TaskTypes
<1>1. CASE UNCHANGED vars
  BY <1>1 DEF vars
<1>2. CASE Cancel \/ LearnRoutes \/ ForgetRoutes \/ SyncRoutes
  BY <1>2 DEF Cancel, LearnRoutes, ForgetRoutes, SyncRoutes, SessionLearns
<1>3. CASE ScanStep
  <2>1. CASE ScanCancelled \/ ScanRaises \/ ScanEnds
    BY <1>0, <2>1 DEF ScanCancelled, ScanRaises, ScanEnds
  <2>2. CASE Discover \/ Rediscover \/ ArpScan \/ AskNames \/ SplitTargets
    BY <1>0, <2>2 DEF Discover, Rediscover, ArpScan, AskNames, SplitTargets
  <2>3. CASE ServiceScan \/ NextPhase
    BY <1>0, <2>3 DEF ServiceScan, NextPhase
  <2> QED BY <1>3, <2>1, <2>2, <2>3 DEF ScanStep
<1>4. CASE ReportStep
  <2>1. CASE ReadRules \/ NextChunk \/ ChunkScanned \/ ChunkTimesOut \/ ChunkDenied
    BY <1>0, <2>1 DEF ReadRules, NextChunk, ChunkScanned, ChunkTimesOut, ChunkDenied
  <2>2. CASE ChunkFails \/ ReportFails \/ MergeChunks \/ MergeFails
    BY <1>0, <2>2 DEF ChunkFails, ReportFails, MergeChunks, MergeFails
  <2>3. CASE RenderWeb \/ RenderView \/ RenderPdf \/ SaveReport \/ UploadReport
    BY <1>0, <2>3 DEF RenderWeb, RenderView, RenderPage, RenderPdf, SaveReport, UploadReport
  <2> QED BY <1>4, <2>1, <2>2, <2>3 DEF ReportStep
<1> QED BY <1>1, <1>2, <1>3, <1>4 DEF CoverageNext

\* The steps that send nothing and hand no address on.
Silent ==
  \/ UNCHANGED vars
  \/ Cancel \/ LearnRoutes \/ ForgetRoutes \/ SyncRoutes
  \/ ScanCancelled \/ ScanRaises \/ ScanEnds
  \/ NextChunk \/ ChunkDenied \/ ReportFails \/ MergeChunks \/ MergeFails
  \/ RenderWeb \/ RenderView \/ RenderPdf \/ SaveReport \/ UploadReport

LEMMA SilentSteps ==
  ASSUME Silent
  PROVE  UNCHANGED <<kind, rules, world, protected, probed, serviced, scanVars>>
  BY DEF Silent, vars, fixed, scanVars, reportVars, published,
         Cancel, LearnRoutes, ForgetRoutes, SyncRoutes, SessionLearns,
         ScanCancelled, ScanRaises, ScanEnds, NextChunk, ChunkDenied,
         ReportFails, MergeChunks, MergeFails, RenderWeb, RenderView, RenderPage,
         RenderPdf, SaveReport, UploadReport

\* The hosts of a phase are hosts of the phases.
LEMMA FirstPhase ==
  ASSUME CoverageTypeOK, phases # <<>>
  PROVE  /\ Head(phases) \in Entries(phases) /\ Head(phases) \in Phases
         /\ Entries(phases) = {Head(phases)} \cup Entries(Tail(phases))
  BY EntriesSplit, HeadTailProperties DEF CoverageTypeOK, ScanTypes

\* A service scan takes one host out of the first phase.
LEMMA AfterServiceScan ==
  ASSUME CoverageTypeOK, ServiceScan
  PROVE  \E h \in Head(phases).hosts :
           /\ serviced' = serviced \cup {h}
           /\ \/ /\ examined' = IF Reached(h, Head(phases).noPing)
                               THEN examined \cup {h} ELSE examined
                 /\ incomplete' = incomplete
              \/ incomplete' = incomplete \cup {h} /\ examined' = examined
           /\ Entries(phases') =
                {[hosts |-> Head(phases).hosts \ {h}, noPing |-> Head(phases).noPing]}
                  \cup Entries(Tail(phases))
<1>1. PICK h \in Head(phases).hosts :
        /\ phases' = [phases EXCEPT ![1].hosts = @ \ {h}]
        /\ serviced' = serviced \cup {h}
        /\ \/ /\ examined' = IF Reached(h, Head(phases).noPing)
                            THEN examined \cup {h} ELSE examined
              /\ incomplete' = incomplete
           \/ incomplete' = incomplete \cup {h} /\ examined' = examined
  BY DEF ServiceScan
<1> DEFINE x == [hosts |-> Head(phases).hosts \ {h}, noPing |-> Head(phases).noPing]
<1>2. phases # <<>> /\ phases \in Seq(Phases)
  BY DEF ServiceScan, CoverageTypeOK, ScanTypes
<1>3. Head(phases) \in Phases /\ Head(phases) = phases[1]
  BY <1>2, HeadAndTail
<1>4. x \in Phases
  BY <1>3 DEF Phases
<1>5. [phases[1] EXCEPT !.hosts = @ \ {h}] = x
  BY <1>3 DEF Phases
<1> HIDE DEF x
<1>6. phases' = [phases EXCEPT ![1] = x]
  BY <1>1, <1>5
<1>7. Entries(phases') = {x} \cup Entries(Tail(phases))
  <2>1. \A y \in Phases : Entries([phases EXCEPT ![1] = y]) = {y} \cup Entries(Tail(phases))
    BY <1>2, EntriesSplit
  <2> QED BY <1>4, <1>6, <2>1
<1> QED BY <1>1, <1>7 DEF x

\* The phases of KnownUp have the hosts given, and reach those found.
LEMMA KnownUpEntries ==
  ASSUME CoverageTypeOK, NEW H \in SUBSET Nat, NEW I \in SUBSET Nat
  PROVE  /\ Entries(KnownUp(H)) =
              {[hosts |-> H \ arpOnly, noPing |-> rules.noPing],
               [hosts |-> H \cap arpOnly, noPing |-> TRUE]}
         /\ Entries(KnownUp(H) \o KnownUp(I)) =
              Entries(KnownUp(H)) \cup Entries(KnownUp(I))
<1>1. TaskTypes
  BY DEF CoverageTypeOK
<1>2. KnownUp(H) \in Seq(Phases) /\ KnownUp(I) \in Seq(Phases) /\ Len(KnownUp(H)) = 2
  BY <1>1, KnownUpType
<1>3. Entries(KnownUp(H)) = {KnownUp(H)[1], KnownUp(H)[2]}
  BY <1>2, EntriesJoin
<1>4. Entries(KnownUp(H) \o KnownUp(I)) = Entries(KnownUp(H)) \cup Entries(KnownUp(I))
  BY <1>2, EntriesJoin
<1> QED BY <1>1, <1>3, <1>4, KnownUpType

\* What the split leaves to scan: the hosts found, the protected ones apart.
LEMMA AfterSplit ==
  ASSUME CoverageTypeOK, Stages, SplitTargets
  PROVE  \E H, I \in SUBSET found :
           /\ Entries(phases') \subseteq Entries(KnownUp(H)) \cup Entries(KnownUp(I))
           /\ Entries(KnownUp(H)) \subseteq Entries(phases')
           /\ Entries(KnownUp(I)) \subseteq Entries(phases') \/ I = {}
           /\ H \cup I = found \ protected' /\ protected' \cap (H \cup I) = {}
<1> DEFINE G == GatewaysAmong(found)
           K == SessionGateways \cup G
<1>1. G \subseteq found /\ found \subseteq Nat
  BY DEF GatewaysAmong, CoverageTypeOK, ScanTypes
<1>2. protected = {}
  BY DEF Stages, Early, SplitTargets, At
<1>3. \/ phases' = KnownUp(found \ K) /\ protected' = K
      \/ phases' = KnownUp(found \ G) \o KnownUp(G) /\ protected' = {}
  BY <1>2 DEF SplitTargets, RegularHosts
<1> HIDE DEF G, K
<1>4. CASE phases' = KnownUp(found \ K) /\ protected' = K
  <2>1. found \ K \in SUBSET found /\ {} \in SUBSET found
    OBVIOUS
  <2> QED BY <1>4, <2>1
<1>5. CASE phases' = KnownUp(found \ G) \o KnownUp(G) /\ protected' = {}
  <2>1. Entries(phases') = Entries(KnownUp(found \ G)) \cup Entries(KnownUp(G))
    BY <1>1, <1>5, KnownUpEntries
  <2>2. found \ G \in SUBSET found /\ G \in SUBSET found
    BY <1>1
  <2>3. (found \ G) \cup G = found \ protected' /\ protected' \cap ((found \ G) \cup G) = {}
    BY <1>1, <1>5
  <2> QED BY <2>1, <2>2, <2>3
<1> QED BY <1>3, <1>4, <1>5

\* The parts of a report that send packets send them to blocks in scope.
LEMMA ReportScans ==
  ASSUME ChunkScanned \/ ChunkTimesOut \/ ChunkFails
  PROVE  /\ \E A : serviced' = serviced \cup Scope(A) \/ serviced' = serviced
         /\ UNCHANGED <<kind, rules, world, protected, probed, scanVars>>
         /\ pc \in Gathering
  BY DEF ChunkScanned, ChunkTimesOut, ChunkFails, At, Gathering, fixed

LEMMA HandsOffInvariance ==
  ASSUME CoverageTypeOK, Stages, HandsOff, InScope, [CoverageNext]_vars
  PROVE  HandsOff'
<1> USE DEF HandsOff
<1>1. CASE Silent
  BY <1>1, SilentSteps
<1>2. CASE Discover \/ Rediscover
  BY <1>2 DEF Discover, Rediscover, Scope, fixed
<1>3. CASE ArpScan
  BY <1>3 DEF ArpScan, ArpSkipped, fixed
<1>4. CASE AskNames
  <2>1. PICK U \in SUBSET found : probed' = probed \cup U
    <3>1. PICK unnamed \in {found, {}} :
            \/ probed' = probed \cup unnamed
            \/ probed' = probed \cup (unnamed \ (SessionGateways \cup GatewaysAmong(found)))
      BY <1>4 DEF AskNames
    <3>2. unnamed \in SUBSET found
          /\ unnamed \ (SessionGateways \cup GatewaysAmong(found)) \in SUBSET found
      OBVIOUS
    <3> QED BY <3>1, <3>2
  <2> QED BY <1>4, <2>1 DEF AskNames, InScope, fixed
<1>5. CASE SplitTargets
  <2>1. serviced = {}
    BY <1>5 DEF SplitTargets, At, Stages, Early
  <2> QED BY <1>5, <2>1 DEF SplitTargets, fixed
<1>6. CASE ServiceScan
  <2>1. Head(phases) \in Entries(phases)
    BY <1>6, FirstPhase DEF ServiceScan
  <2>2. PICK h \in Head(phases).hosts : serviced' = serviced \cup {h}
    BY <1>6 DEF ServiceScan
  <2>3. h \notin rules.exclude /\ h \notin protected
    BY <2>1, <2>2 DEF InScope
  <2> QED BY <1>6, <2>2, <2>3 DEF ServiceScan, fixed
<1>7. CASE NextPhase
  BY <1>7 DEF NextPhase, fixed
<1>8. CASE ReadRules
  <2>1. serviced = {} /\ probed = {}
    BY <1>8 DEF ReadRules, At, Stages
  <2> QED BY <1>8, <2>1 DEF ReadRules
<1>9. CASE ChunkScanned \/ ChunkTimesOut \/ ChunkFails
  <2>1. PICK A : serviced' = serviced \cup Scope(A) \/ serviced' = serviced
    BY <1>9, ReportScans
  <2>2. UNCHANGED <<rules, protected, probed>> /\ pc \in Gathering
    BY <1>9, ReportScans
  <2>3. protected \subseteq rules.exclude
    BY <2>2 DEF InScope, Stages, Gathering, ScanPCs, Early, CoverageTypeOK, TaskTypes
  <2> QED BY <2>1, <2>2, <2>3 DEF Scope
<1> QED
  BY <1>1, <1>2, <1>3, <1>4, <1>5, <1>6, <1>7, <1>8, <1>9
     DEF CoverageNext, ScanStep, ReportStep, Silent

LEMMA InScopeInvariance ==
  ASSUME CoverageTypeOK, Stages, InScope, [CoverageNext]_vars
  PROVE  InScope'
<1> USE DEF InScope
<1>0. kind' = kind
  BY DEF CoverageNext, ScanStep, ReportStep, vars, fixed, Cancel, LearnRoutes,
         ForgetRoutes, SyncRoutes, SessionLearns, ScanCancelled, ScanRaises, Discover,
         Rediscover, ArpScan, AskNames, SplitTargets, ServiceScan, NextPhase, ScanEnds,
         ReadRules, NextChunk, ChunkScanned, ChunkTimesOut, ChunkDenied, ChunkFails,
         ReportFails, MergeChunks, MergeFails, RenderWeb, RenderView, RenderPage,
         RenderPdf, SaveReport, UploadReport
<1>1. CASE Silent \/ AskNames
  <2>1. UNCHANGED <<kind, rules, protected, found, phases>>
    BY <1>1, SilentSteps DEF AskNames, scanVars, fixed
  <2> QED BY <2>1 DEF Entries
<1>2. CASE Discover \/ Rediscover
  <2>1. found' \cap rules.exclude = {}
    BY <1>2 DEF Discover, Rediscover, Listed
  <2> QED BY <1>2, <2>1 DEF Discover, Rediscover, fixed, Entries
<1>3. CASE ArpScan
  <2>1. found' = found \/ rules.exclude = {}
    BY <1>3 DEF ArpScan, ArpSkipped
  <2> QED BY <1>3, <2>1 DEF ArpScan, fixed, Entries
<1>4. CASE SplitTargets
  <2>1. PICK H, I \in SUBSET found :
           /\ Entries(phases') \subseteq Entries(KnownUp(H)) \cup Entries(KnownUp(I))
           /\ protected' \cap (H \cup I) = {}
    BY <1>4, AfterSplit
  <2>2. H \in SUBSET Nat /\ I \in SUBSET Nat
    BY DEF CoverageTypeOK, ScanTypes
  <2>3. \A p \in Entries(phases') : p.hosts \subseteq H \cup I
    BY <2>1, <2>2, KnownUpEntries
  <2>4. UNCHANGED <<rules, found>> /\ kind # "report"
    BY <1>4 DEF SplitTargets, fixed, At, Stages, ReportPCs, Gathering, Rendering
  <2>5. \A p \in Entries(phases)' : p.hosts \cap (rules.exclude \cup protected)' = {}
    BY <2>1, <2>3, <2>4 DEF Entries
  <2> QED BY <1>0, <2>4, <2>5
<1>5. CASE ServiceScan
  <2>1. Head(phases) \in Entries(phases) /\ Entries(phases) = {Head(phases)} \cup Entries(Tail(phases))
    BY <1>5, FirstPhase DEF ServiceScan
  <2>2. PICK h \in Head(phases).hosts :
          Entries(phases') =
            {[hosts |-> Head(phases).hosts \ {h}, noPing |-> Head(phases).noPing]}
              \cup Entries(Tail(phases))
    BY <1>5, AfterServiceScan
  <2>3. \A p \in Entries(phases') : p.hosts \cap (rules.exclude \cup protected) = {}
    BY <2>1, <2>2
  <2>4. UNCHANGED <<rules, found, protected>>
    BY <1>5 DEF ServiceScan, fixed
  <2> QED BY <1>0, <2>3, <2>4 DEF Entries
<1>6. CASE NextPhase
  <2>1. Entries(phases') \subseteq Entries(phases)
    BY <1>6, FirstPhase DEF NextPhase
  <2>2. UNCHANGED <<rules, found, protected>>
    BY <1>6 DEF NextPhase, fixed
  <2> QED BY <1>0, <2>1, <2>2 DEF Entries
<1>7. CASE ReadRules
  <2>1. found = {} /\ phases = <<>> /\ UNCHANGED <<found, phases>>
    BY <1>7 DEF ReadRules, At, Stages, scanVars
  <2>2. protected' \subseteq rules'.exclude
    BY <1>7 DEF ReadRules, CoverageTypeOK, TaskTypes, Rules
  <2>3. Entries(phases)' = {}
    BY <2>1 DEF Entries
  <2> QED BY <2>1, <2>2, <2>3
<1>8. CASE ChunkScanned \/ ChunkTimesOut \/ ChunkFails
  BY <1>8, ReportScans DEF scanVars, Entries
<1> QED
  BY <1>1, <1>2, <1>3, <1>4, <1>5, <1>6, <1>7, <1>8
     DEF CoverageNext, ScanStep, ReportStep, Silent

\* A merge keeps the XML of all parts or has them all in scan.xml.
LEMMA EvidenceInvariance ==
  ASSUME CoverageTypeOK, Stages, EvidenceIsKept, [CoverageNext]_vars
  PROVE  EvidenceIsKept'
<1> USE DEF EvidenceIsKept
<1>1. CASE UNCHANGED <<rules, collected, disk, xml>>
  BY <1>1 DEF Scope, Addresses
<1>2. CASE ReadRules
  <2>1. collected' = {}
    BY <1>2 DEF ReadRules, At, Stages
  <2> QED BY <2>1
<1>3. CASE ChunkScanned
  BY <1>3 DEF ChunkScanned, fixed, Scope, Addresses
<1>4. CASE MergeChunks
  <2>1. UNCHANGED <<rules, collected>> /\ ~xml.whole
    BY <1>4 DEF MergeChunks, fixed, At, Stages, Gathering
  <2>2. CASE xml' = Merged
    <3>1. \A b \in collected : Scope(Addresses(b)) \subseteq Scope(AddressesOf(collected))
      BY DEF Scope, AddressesOf
    <3> QED BY <2>1, <2>2, <3>1 DEF Merged, Scope, Addresses
  <2>3. CASE UNCHANGED disk
    BY <2>1, <2>3
  <2> QED BY <1>4, <2>2, <2>3 DEF MergeChunks
<1> QED
  BY <1>1, <1>2, <1>3, <1>4
     DEF CoverageNext, ScanStep, ReportStep, vars, fixed, reportVars, published, Cancel,
         LearnRoutes, ForgetRoutes, SyncRoutes, SessionLearns, ScanCancelled, ScanRaises,
         Discover, Rediscover, ArpScan, AskNames, SplitTargets, ServiceScan, NextPhase,
         ScanEnds, NextChunk, ChunkTimesOut, ChunkDenied, ChunkFails, ReportFails,
         MergeFails, KeptOnFailure, RenderWeb, RenderView, RenderPage, RenderPdf,
         SaveReport, UploadReport

LEMMA ReachedStays ==
  ASSUME UNCHANGED world
  PROVE  \A h, n : Reached(h, n)' <=> Reached(h, n)
  BY DEF Reached

\* Steps of other tasks, and those that find, scan and drop nothing.
LEMMA AccountedStays ==
  ASSUME Accounted, UNCHANGED <<kind, rules, world, protected, scanVars>>,
         pc' = "service" \/ status' = "completed" => pc = "service" \/ status = "completed"
  PROVE  Accounted'
  BY DEF Accounted, Alike, Reachable, Outstanding, Reached, scanVars, Entries

LEMMA AccountedInvariance ==
  ASSUME CoverageTypeOK, Stages, Accounted, [CoverageNext]_vars
  PROVE  Accounted'
<1>1. CASE ReportStep
  <2>1. kind' = kind /\ kind # "scan"
    BY <1>1 DEF ReportStep, fixed, At, Stages, ScanPCs, Early, ReadRules, NextChunk,
         ChunkScanned, ChunkTimesOut, ChunkDenied, ChunkFails, ReportFails, MergeChunks,
         MergeFails, RenderWeb, RenderView, RenderPage, RenderPdf, SaveReport, UploadReport
  <2> QED BY <2>1 DEF Accounted, Alike
<1>2. CASE \/ UNCHANGED vars \/ Cancel \/ LearnRoutes \/ ForgetRoutes \/ SyncRoutes
           \/ ScanCancelled \/ ScanRaises \/ ScanEnds
  <2>1. UNCHANGED <<kind, rules, world, protected, scanVars>>
    BY <1>2, SilentSteps DEF Silent
  <2>2. pc' = "service" \/ status' = "completed" => pc = "service" \/ status = "completed"
    BY <1>2 DEF vars, Cancel, LearnRoutes, ForgetRoutes, SyncRoutes, SessionLearns,
         ScanCancelled, ScanRaises, ScanEnds, End, At
  <2> QED BY <2>1, <2>2, AccountedStays
<1> SUFFICES ASSUME Alike, ScanStep, ~(ScanCancelled \/ ScanRaises \/ ScanEnds)
             PROVE  Accounted'
  <2>1. ScanStep => kind' = kind /\ world' = world
    BY DEF ScanStep, fixed, ScanCancelled, ScanRaises, Discover, Rediscover, ArpScan,
           AskNames, SplitTargets, ServiceScan, NextPhase, ScanEnds
  <2> QED BY <1>1, <1>2, <2>1 DEF CoverageNext, Accounted, Alike
<1>0. Reachable
  BY DEF Accounted
<1>3. CASE Discover \/ Rediscover
  <2>1. phases = <<>> /\ arpOnly = {}
    BY <1>3 DEF Discover, Rediscover, At, Stages, Early
  <2>2. \A h \in found' : Reached(h, rules.noPing)
    <3>1. \/ found' \subseteq found
          \/ found' \subseteq Listed(FALSE)
          \/ world.level = "root"
      BY <1>3 DEF Discover, Rediscover, Alike, Prefixed
    <3>2. \A h \in Listed(FALSE) : Reached(h, rules.noPing)
      BY DEF Listed, Reached
    <3>3. \A h \in found : Reached(h, rules.noPing)
      BY <1>0, <2>1 DEF Reachable
    <3> QED BY <3>1, <3>2, <3>3 DEF Reached
  <2>3. UNCHANGED <<rules, world, phases, arpOnly>>
    BY <1>3 DEF Discover, Rediscover, fixed
  <2>4. pc' # "service" /\ status' # "completed"
    BY <1>3 DEF Discover, Rediscover, At
  <2>5. Entries(phases)' = {}
    BY <2>1, <2>3 DEF Entries
  <2> QED BY <2>2, <2>3, <2>4, <2>5 DEF Accounted, Reachable, Reached
<1>4. CASE ArpScan
  <2>1. phases = <<>> /\ arpOnly = {}
    BY <1>4 DEF ArpScan, At, Stages, Early
  <2>2. found' \ arpOnly' \subseteq found
    BY <1>4, <2>1 DEF ArpScan
  <2>3. UNCHANGED <<rules, world, phases>> /\ pc' # "service" /\ status' # "completed"
    BY <1>4 DEF ArpScan, fixed, At
  <2>4. Entries(phases)' = {}
    BY <2>1, <2>3 DEF Entries
  <2>5. \A h \in found : Reached(h, rules.noPing)
    BY <1>0, <2>1 DEF Reachable
  <2> QED BY <2>2, <2>3, <2>4, <2>5 DEF Accounted, Reachable, Reached
<1>5. CASE AskNames
  <2>1. UNCHANGED <<kind, rules, world, protected, scanVars>>
        /\ pc' # "service" /\ status' # "completed"
    BY <1>5 DEF AskNames, fixed, At
  <2> QED BY <2>1, AccountedStays
<1>6. CASE SplitTargets
  <2>1. PICK H, I \in SUBSET found :
           /\ Entries(phases') \subseteq Entries(KnownUp(H)) \cup Entries(KnownUp(I))
           /\ Entries(KnownUp(H)) \subseteq Entries(phases')
           /\ Entries(KnownUp(I)) \subseteq Entries(phases') \/ I = {}
           /\ H \cup I = found \ protected'
    BY <1>6, AfterSplit
  <2>2. H \in SUBSET Nat /\ I \in SUBSET Nat
    BY DEF CoverageTypeOK, ScanTypes
  <2>3. UNCHANGED <<rules, world, found, arpOnly, examined, incomplete>>
    BY <1>6 DEF SplitTargets, fixed
  <2>4. \A J \in SUBSET found : J \in SUBSET Nat =>
          /\ \A p \in Entries(KnownUp(J)) : \A h \in p.hosts : Reached(h, p.noPing)
          /\ \A h \in J : \E p \in Entries(KnownUp(J)) : h \in p.hosts
    <3>1. ASSUME NEW J \in SUBSET found, J \in SUBSET Nat
          PROVE  /\ \A p \in Entries(KnownUp(J)) : \A h \in p.hosts : Reached(h, p.noPing)
                 /\ \A h \in J : \E p \in Entries(KnownUp(J)) : h \in p.hosts
      <4>1. Entries(KnownUp(J)) =
              {[hosts |-> J \ arpOnly, noPing |-> rules.noPing],
               [hosts |-> J \cap arpOnly, noPing |-> TRUE]}
        BY <3>1, KnownUpEntries
      <4>2. \A h \in J \ arpOnly : Reached(h, rules.noPing)
        BY <1>0 DEF Reachable
      <4>3. \A h : Reached(h, TRUE)
        BY DEF Reached
      <4> DEFINE p == [hosts |-> J \ arpOnly, noPing |-> rules.noPing]
                 q == [hosts |-> J \cap arpOnly, noPing |-> TRUE]
      <4>4. /\ p.hosts = J \ arpOnly /\ p.noPing = rules.noPing
            /\ q.hosts = J \cap arpOnly /\ q.noPing = TRUE
        OBVIOUS
      <4> HIDE DEF p, q
      <4>5. Entries(KnownUp(J)) = {p, q}
        BY <4>1 DEF p, q
      <4>6. \A r \in {p, q} : \A h \in r.hosts : Reached(h, r.noPing)
        BY <4>2, <4>3, <4>4
      <4>7. \A h \in J : h \in p.hosts \/ h \in q.hosts
        BY <4>4
      <4> QED BY <4>5, <4>6, <4>7
    <3> QED BY <3>1
  <2>5. \A p \in Entries(phases') : \A h \in p.hosts : Reached(h, p.noPing)
    BY <2>1, <2>2, <2>4
  <2>6. \A h \in found \ protected' : \E p \in Entries(phases') : h \in p.hosts
    BY <2>1, <2>2, <2>4
  <2>7. Reachable'
    BY <1>0, <2>3, <2>5 DEF Reachable, Reached, Entries
  <2>8. (found \ protected)' \subseteq Outstanding'
    BY <2>3, <2>6 DEF Outstanding, Entries
  <2> QED BY <2>7, <2>8 DEF Accounted
<1>7. CASE ServiceScan
  <2>1. /\ pc = "service" /\ Head(phases) \in Entries(phases)
        /\ Entries(phases) = {Head(phases)} \cup Entries(Tail(phases))
    BY <1>7, FirstPhase DEF ServiceScan, At
  <2>2. PICK h \in Head(phases).hosts :
           /\ \/ /\ examined' = IF Reached(h, Head(phases).noPing)
                               THEN examined \cup {h} ELSE examined
                 /\ incomplete' = incomplete
              \/ incomplete' = incomplete \cup {h} /\ examined' = examined
           /\ Entries(phases') =
                {[hosts |-> Head(phases).hosts \ {h}, noPing |-> Head(phases).noPing]}
                  \cup Entries(Tail(phases))
    BY <1>7, AfterServiceScan
  <2> DEFINE x == [hosts |-> Head(phases).hosts \ {h}, noPing |-> Head(phases).noPing]
  <2>3. UNCHANGED <<rules, world, found, arpOnly, protected>>
    BY <1>7 DEF ServiceScan, fixed
  <2>4. Reached(h, Head(phases).noPing)
    BY <1>0, <2>1 DEF Reachable
  <2>5. \A p \in Entries(phases') : \A g \in p.hosts : Reached(g, p.noPing)
    BY <1>0, <2>1, <2>2 DEF Reachable
  <2>6. Reachable'
    BY <1>0, <2>3, <2>5 DEF Reachable, Reached, Entries
  <2>7. found \ protected \subseteq examined \cup incomplete \cup Outstanding
    BY <2>1 DEF Accounted
  <2>8. \A g \in Outstanding : g = h \/ \E p \in Entries(phases') : g \in p.hosts
    <3>1. ASSUME NEW g \in Outstanding, g # h
          PROVE  \E p \in Entries(phases') : g \in p.hosts
      <4>1. PICK p \in Entries(phases) : g \in p.hosts
        BY DEF Outstanding
      <4>2. CASE p = Head(phases)
        BY <2>2, <3>1, <4>1, <4>2
      <4>3. CASE p \in Entries(Tail(phases))
        BY <2>2, <4>1, <4>3
      <4> QED BY <2>1, <4>1, <4>2, <4>3
    <3> QED BY <3>1
  <2>9. (found \ protected)' \subseteq examined' \cup incomplete' \cup Outstanding'
    BY <2>2, <2>3, <2>4, <2>7, <2>8 DEF Outstanding, Entries
  <2> QED BY <2>6, <2>9 DEF Accounted
<1>8. CASE NextPhase
  <2>1. /\ pc = "service" /\ phases' = Tail(phases) /\ Head(phases).hosts = {}
        /\ Entries(phases) = {Head(phases)} \cup Entries(Tail(phases))
    BY <1>8, FirstPhase DEF NextPhase, At
  <2>2. UNCHANGED <<rules, world, found, arpOnly, protected, examined, incomplete>>
    BY <1>8 DEF NextPhase, fixed
  <2>3. Reachable'
    BY <1>0, <2>1, <2>2 DEF Reachable, Reached, Entries
  <2>4. Outstanding' = Outstanding
    <3>1. Outstanding' = UNION {p.hosts : p \in Entries(Tail(phases))}
      BY <2>1 DEF Outstanding, Entries
    <3>2. Outstanding = Head(phases).hosts \cup UNION {p.hosts : p \in Entries(Tail(phases))}
      BY <2>1 DEF Outstanding
    <3> QED BY <2>1, <3>1, <3>2
  <2> QED BY <2>1, <2>2, <2>3, <2>4 DEF Accounted
<1> QED
  BY <1>3, <1>4, <1>5, <1>6, <1>7, <1>8 DEF ScanStep

-----------------------------------------------------------------------------
(* Reports                                                                 *)

\* Halving a block that timed out leaves the addresses as they were.
LEMMA AfterHalving ==
  ASSUME CoverageTypeOK, work # <<>>, MayHalve(Head(work)), work' = AfterTimeout(Head(work))
  PROVE  AddressesOf(Open') = AddressesOf(Open)
<1> DEFINE w == Head(work)
           h == Halves(w.block)
<1>1. w \in Parts /\ Tail(work) \in Seq(Parts) /\ Entries(work) = {w} \cup Entries(Tail(work))
  BY EntriesSplit, HeadTailProperties DEF CoverageTypeOK, PlanTypes
<1>2. w.block \in Blocks /\ w.depth \in Nat
  BY <1>1 DEF Parts
<1>3. /\ h \in Seq(Blocks) /\ Len(h) = 2
      /\ \A a \in Nat : a \in Addresses(w.block) <=>
           a \in Addresses(h[1]) \/ a \in Addresses(h[2])
  BY <1>2, HalvesCover DEF MayHalve
<1> DEFINE k == HalvesOf(w)
<1> HIDE DEF w, h
<1>4. h[1] \in Blocks /\ h[2] \in Blocks
  BY <1>3
<1>5. /\ k = [i \in 1 .. 2 |-> [block |-> h[i], depth |-> w.depth + 1]]
      /\ \A i \in 1 .. 2 : [block |-> h[i], depth |-> w.depth + 1] \in Parts
  BY <1>2, <1>3, <1>4 DEF HalvesOf, Parts, h
<1>6. k \in Seq(Parts) /\ Len(k) = 2 /\ k[1].block = h[1] /\ k[2].block = h[2]
  BY <1>5
<1> HIDE DEF k
<1>7. Entries(work') = {k[1], k[2]} \cup Entries(Tail(work))
  <2>1. work' = k \o Tail(work)
    BY DEF AfterTimeout, k, w
  <2>2. \A s, t \in Seq(Parts) : Entries(s \o t) = Entries(s) \cup Entries(t)
    BY EntriesJoin
  <2>4. Entries(k \o Tail(work)) = Entries(k) \cup Entries(Tail(work))
    BY <1>1, <1>6, <2>2
  <2>3. Entries(k) = {k[1], k[2]}
    BY <1>1, <1>6, EntriesJoin
  <2> QED BY <2>1, <2>3, <2>4
<1>8. Addresses(w.block) = Addresses(h[1]) \cup Addresses(h[2])
  BY <1>2, <1>3, <1>4, AddressesType
<1>9. /\ Open = {w.block} \cup {v.block : v \in Entries(Tail(work))}
      /\ Open' = {h[1], h[2]} \cup {v.block : v \in Entries(Tail(work))}
  BY <1>1, <1>6, <1>7 DEF Open, Entries
<1> QED
  BY <1>8, <1>9 DEF AddressesOf

LEMMA UnionOfAddresses ==
  \A A, B, C : AddressesOf(A \cup B \cup C) =
                AddressesOf(A) \cup AddressesOf(B) \cup AddressesOf(C)
  BY DEF AddressesOf

\* What is collected, under way and to come stays the whole plan.
LEMMA WholePlanKept ==
  ASSUME CoverageTypeOK, Stages, pc \in Gathering => WholePlan,
         [CoverageNext]_vars, pc' \in Gathering
  PROVE  WholePlan'
<1>1. CASE UNCHANGED <<plan, next, work, collected>> /\ pc \in Gathering
  BY <1>1 DEF WholePlan, AddressesOf, Entries, Addresses, Open, Coming
<1>2. CASE ReadRules
  <2>1. next' = 1 /\ work' = <<>>
    BY <1>2 DEF ReadRules, At, Stages
  <2>2. Open' = {}
    BY <2>1 DEF Open, Entries
  <2>3. Coming' = Entries(plan)'
    BY <2>1 DEF Coming, Entries
  <2>4. collected' = {}
    BY <1>2 DEF ReadRules, At, Stages
  <2>5. plan' # <<>>
    <3>1. \E size \in TargetSizes, chunked \in BOOLEAN :
            plan' = PlanFor(Block(0, size), chunked)
      BY <1>2 DEF ReadRules, End, Gathering
    <3>2. PICK size \in Nat \ {0}, chunked \in BOOLEAN :
            plan' = PlanFor(Block(0, size), chunked)
      BY <3>1, CoverageAssumption
    <3>3. PlanFor(Block(0, size), chunked) \in Seq(Blocks) \ {<<>>}
      BY PlansAreBlocks
    <3> QED BY <3>2, <3>3
  <2>6. collected' \cup Open' \cup Coming' = Entries(plan)'
    BY <2>2, <2>3, <2>4
  <2> QED BY <2>5, <2>6 DEF WholePlan, AddressesOf, Addresses
<1>3. CASE NextChunk
  <2>1. /\ work = <<>> /\ next <= Len(plan) /\ next \in Nat \ {0} /\ plan \in Seq(Blocks)
        /\ work' = <<[block |-> plan[next], depth |-> 0]>> /\ next' = next + 1
        /\ UNCHANGED <<plan, collected>> /\ pc \in Gathering
    BY <1>3 DEF NextChunk, CoverageTypeOK, PlanTypes, At, Gathering
  <2>2. Open = {} /\ Open' = {plan[next]}
    BY <2>1 DEF Open, Entries
  <2>3. Coming = {plan[next]} \cup Coming'
    <3>1. next .. Len(plan) = {next} \cup ((next + 1) .. Len(plan))
      BY <2>1
    <3> QED BY <2>1, <3>1 DEF Coming
  <2> QED BY <2>1, <2>2, <2>3 DEF WholePlan, AddressesOf, Entries, Addresses
<1>4. CASE ChunkScanned
  <2>1. Entries(work) = {Head(work)} \cup Entries(Tail(work))
    BY <1>4, EntriesSplit DEF ChunkScanned, CoverageTypeOK, PlanTypes
  <2>2. /\ UNCHANGED <<plan, next>> /\ work' = Tail(work) /\ pc \in Gathering
        /\ collected' = collected \cup {Head(work).block}
    BY <1>4 DEF ChunkScanned, At, Gathering
  <2>3. collected' \cup Open' = collected \cup Open
    BY <2>1, <2>2 DEF Open, Entries
  <2>4. Coming' = Coming /\ Entries(plan)' = Entries(plan)
    BY <2>2 DEF Coming, Entries
  <2>5. collected' \cup Open' \cup Coming' = collected \cup Open \cup Coming
    BY <2>3, <2>4
  <2>6. WholePlan /\ plan' = plan
    BY <2>2
  <2> QED BY <2>4, <2>5, <2>6 DEF WholePlan, AddressesOf, Addresses
<1>5. CASE ChunkTimesOut
  <2>1. /\ UNCHANGED <<plan, next, collected>> /\ pc \in Gathering
        /\ work # <<>> /\ MayHalve(Head(work)) /\ work' = AfterTimeout(Head(work))
    BY <1>5 DEF ChunkTimesOut, At, Gathering
  <2>2. AddressesOf(Open') = AddressesOf(Open)
    BY <2>1, AfterHalving
  <2>3. Coming' = Coming /\ Entries(plan)' = Entries(plan)
    BY <2>1 DEF Coming, Entries
  <2>4. AddressesOf(collected \cup Open' \cup Coming) = AddressesOf(collected \cup Open \cup Coming)
    <3>1. \A A : AddressesOf(collected \cup A \cup Coming) =
                   AddressesOf(collected) \cup AddressesOf(A) \cup AddressesOf(Coming)
      BY UnionOfAddresses
    <3> QED BY <2>2, <3>1
  <2> QED BY <2>1, <2>3, <2>4 DEF WholePlan, AddressesOf, Addresses
<1>6. CASE ChunkDenied \/ ChunkFails
  <2>1. pc' # "chunk failed"
    BY DEF Gathering
  <2>2. UNCHANGED <<plan, next, work, collected>> /\ pc \in Gathering
    BY <1>6, <2>1 DEF ChunkDenied, ChunkFails, At, Gathering
  <2> QED BY <1>1, <2>2
<1>7. CASE \/ UNCHANGED vars
           \/ Cancel \/ LearnRoutes \/ ForgetRoutes \/ SyncRoutes
  <2>1. UNCHANGED <<plan, next, work, collected, pc>>
    BY <1>7 DEF vars, reportVars, Cancel, LearnRoutes, ForgetRoutes, SyncRoutes, SessionLearns
  <2> QED BY <1>1, <2>1
<1>8. ~(ServiceScan \/ NextPhase)
  BY DEF ServiceScan, NextPhase, At, Gathering
<1> QED
  BY <1>2, <1>3, <1>4, <1>5, <1>6, <1>7, <1>8
     DEF CoverageNext, ScanStep, ReportStep, Gathering, End, ScanCancelled, ScanRaises,
         Discover, Rediscover, ArpScan, AskNames, SplitTargets, ScanEnds, ReportFails,
         MergeChunks, MergeFails, RenderWeb, RenderView, RenderPage, RenderPdf, SaveReport,
         UploadReport

\* A merged scan.xml has the addresses of the plan in scope.
LEMMA MergeIsWhole ==
  ASSUME CoverageTypeOK, Covering, MergeChunks, xml'.whole
  PROVE  xml'.hosts = AddressesOf(Entries(plan)) \ rules.exclude
<1>1. work = <<>> /\ next > Len(plan) /\ pc \in Gathering /\ plan \in Seq(Blocks)
  BY DEF MergeChunks, At, Gathering, CoverageTypeOK, PlanTypes
<1>2. Open = {}
  BY <1>1 DEF Open, Entries
<1>3. Coming = {}
  <2>1. next .. Len(plan) = {}
    BY <1>1 DEF CoverageTypeOK, PlanTypes
  <2> QED BY <2>1 DEF Coming
<1>4. AddressesOf(Entries(plan)) = AddressesOf(collected)
  <2>1. collected \cup Open \cup Coming = collected
    BY <1>2, <1>3
  <2> QED BY <1>1, <2>1 DEF Covering, WholePlan
<1>5. CASE xml' = Merged
  BY <1>4, <1>5 DEF Merged, Scope
<1>6. CASE Len(plan) = 1 /\ xml' = OnlyChunk
  <2>1. Entries(plan) = {plan[1]}
    BY <1>6 DEF Entries
  <2>2. AddressesOf(Entries(plan)) = Addresses(plan[1])
    BY <2>1 DEF AddressesOf
  <2>3. plan[1] \in disk
    BY <1>6 DEF OnlyChunk
  <2> QED BY <1>6, <2>2, <2>3 DEF OnlyChunk, Scope
<1>7. Len(plan) \in Nat \ {0}
  BY <1>1, EmptySeq DEF Covering, WholePlan
<1> QED
  BY <1>5, <1>6, <1>7 DEF MergeChunks

LEMMA CoveringInvariance ==
  ASSUME CoverageTypeOK, Stages, Covering, [CoverageNext]_vars
  PROVE  Covering'
<1>1. pc' \in Gathering => WholePlan'
  BY WholePlanKept DEF Covering
<1>2. ASSUME pc' \in Rendering \/ (kind' = "report" /\ status' = "completed"), xml'.whole
      PROVE  xml'.hosts = AddressesOf(Entries(plan))' \ rules'.exclude
  <2>1. CASE MergeChunks
    <3>1. UNCHANGED <<plan, rules>>
      BY <2>1 DEF MergeChunks, fixed
    <3>2. AddressesOf(Entries(plan))' = AddressesOf(Entries(plan))
      BY <3>1 DEF AddressesOf, Entries, Addresses
    <3> QED BY <1>2, <2>1, <3>1, <3>2, MergeIsWhole
  <2>2. CASE ~MergeChunks
    <3>1. /\ UNCHANGED <<plan, rules, xml>>
          /\ pc \in Rendering \/ (kind = "report" /\ status = "completed")
      BY <1>2, <2>2
         DEF CoverageNext, ScanStep, ReportStep, Rendering, At, End, vars, fixed, reportVars,
             published, Stages, ReportPCs, Gathering, Cancel, LearnRoutes, ForgetRoutes,
             SyncRoutes, SessionLearns, ScanCancelled, ScanRaises, Discover, Rediscover,
             ArpScan, AskNames, SplitTargets, ServiceScan, NextPhase, ScanEnds, ReadRules,
             NextChunk, ChunkScanned, ChunkTimesOut, ChunkDenied, ChunkFails, ReportFails,
             MergeFails, RenderWeb, RenderView, RenderPage, RenderPdf, SaveReport,
             UploadReport
    <3> QED BY <1>2, <3>1 DEF Covering, AddressesOf, Entries, Addresses
  <2> QED BY <2>1, <2>2
<1>3. ASSUME pc' \in {"save", "upload"} \/ (kind' = "report" /\ status' = "completed")
      PROVE  files' \cap {"view", "pdf"} # {}
  <2>1. CASE RenderPdf
    BY <1>3, <2>1 DEF RenderPdf, PageInPlace, At, End
  <2>2. CASE ~RenderPdf
    <3>1. /\ UNCHANGED files
          /\ pc \in {"save", "upload"} \/ (kind = "report" /\ status = "completed")
      BY <1>3, <2>2
         DEF CoverageNext, ScanStep, ReportStep, Rendering, At, End, vars, fixed, reportVars,
             published, Stages, ReportPCs, Gathering, Cancel, LearnRoutes, ForgetRoutes,
             SyncRoutes, SessionLearns, ScanCancelled, ScanRaises, Discover, Rediscover,
             ArpScan, AskNames, SplitTargets, ServiceScan, NextPhase, ScanEnds, ReadRules,
             NextChunk, ChunkScanned, ChunkTimesOut, ChunkDenied, ChunkFails, ReportFails,
             MergeChunks, MergeFails, RenderWeb, RenderView, RenderPage, SaveReport,
             UploadReport
    <3> QED BY <3>1 DEF Covering
  <2> QED BY <2>1, <2>2
<1> QED
  BY <1>1, <1>2, <1>3 DEF Covering

-----------------------------------------------------------------------------
(* Theorems                                                                *)

LEMMA CoverageInvInit ==
  ASSUME CoverageInit
  PROVE  CoverageInv
<1> USE DEF CoverageInit, NoReport
<1>1. TaskTypes
  <2>1. Target \subseteq Nat
    BY CoverageAssumption DEF Target
  <2> QED BY <2>1, CoverageAssumption DEF TaskTypes, Rules, Levels, PCs
<1>2. ScanTypes /\ PlanTypes /\ FileTypes
  BY SequenceTypes DEF ScanTypes, PlanTypes, FileTypes, Unread
<1>3. Stages
  BY DEF Stages, Early, ScanPCs, Gathering, Rendering, ReportPCs, Unread
<1>4. HandsOff /\ EvidenceIsKept
  BY DEF HandsOff, EvidenceIsKept
<1>5. Entries(phases) = {}
  BY DEF Entries
<1>6. InScope /\ Accounted /\ Covering
  BY <1>5 DEF InScope, Accounted, Reachable, Covering, Gathering, Rendering
<1> QED BY <1>1, <1>2, <1>3, <1>4, <1>6 DEF CoverageInv, CoverageTypeOK

\* The parts of the invariant support each other.
THEOREM CoverageInvariance == CoverageSpec => []CoverageInv
<1>1. CoverageInit => CoverageInv
  BY CoverageInvInit
<1>2. CoverageInv /\ [CoverageNext]_vars => CoverageInv'
  BY TypeInvariance, StagesInvariance, HandsOffInvariance, InScopeInvariance,
     AccountedInvariance, CoveringInvariance, EvidenceInvariance DEF CoverageInv
<1> QED
  BY <1>1, <1>2, PTL DEF CoverageSpec

\* Types of the task, of what it found and planned, and of its files.
THEOREM CoverageTypeCorrect == CoverageSpec => []CoverageTypeOK
<1>1. CoverageInv => CoverageTypeOK
  BY DEF CoverageInv
<1> QED
  BY <1>1, CoverageInvariance, PTL

\* No discovery, ARP sweep, service scan or chunk, retried or halved, sends
\* anything to an excluded address, and no service scan goes to an address the
\* job reports as discovery-only (workflows.py, scanning.py).
THEOREM ExcludedHostsAreLeftAlone == CoverageSpec => []HandsOff
<1>1. CoverageInv => HandsOff
  BY DEF CoverageInv
<1> QED
  BY <1>1, CoverageInvariance, PTL

\* However chunks are planned, time out and are halved, the scan.xml of a
\* completed report describes the addresses of its plan that are in scope and
\* no other, and the report has its page or a PDF (generate_report_task).
THEOREM ReportsAreWhole == CoverageSpec => []CompletedReportIsWhole
<1>1. CoverageInv => CompletedReportIsWhole
  BY DEF CoverageInv, Covering, CompletedReportIsWhole
<1> QED
  BY <1>1, CoverageInvariance, PTL

\* The XML of a scanned part is on disk until a scan.xml that covers it is
\* (merge_nmap_xml_files, cleanup_chunk_artifacts).
THEOREM NoScanIsLost == CoverageSpec => []EvidenceIsKept
<1>1. CoverageInv => EvidenceIsKept
  BY DEF CoverageInv
<1> QED
  BY <1>1, CoverageInvariance, PTL

\* Where discovery and service scan have the same privileges, every host a
\* completed scan lists was examined, reported as incomplete, or is protected
\* (start_scan_task, _deep_scan_known_up).
THEOREM ListedHostsAreExamined == CoverageSpec => []HostsSeenAlikeAreExamined
<1>1. CoverageInv => HostsSeenAlikeAreExamined
  <2>1. ASSUME CoverageInv, kind = "scan", status = "completed", world.level # "sudo"
        PROVE  found \ protected \subseteq examined \cup incomplete
    <3>1. found \ protected \subseteq examined \cup incomplete \cup Outstanding
      BY <2>1 DEF CoverageInv, Accounted, Alike
    <3>2. Outstanding = {}
      BY <2>1 DEF CoverageInv, Stages, Outstanding, Entries
    <3> QED BY <3>1, <3>2
  <2> QED BY <2>1 DEF HostsSeenAlikeAreExamined, Looked
<1> QED
  BY <1>1, CoverageInvariance, PTL
=============================================================================
