---------------------------- MODULE ScanCoverage ----------------------------
(***************************************************************************)
(* What a scan and a report really reach.                                  *)
(*                                                                         *)
(* The two network tasks of nmapui/workflows.py, each from the reading of  *)
(* its rules to its final status, with the runners of nmapui/scanning.py.  *)
(*                                                                         *)
(*   start_scan_task       discovery (retried without privileges when they *)
(*                         are denied), ARP, mDNS names, the split into    *)
(*                         regular hosts and gateways, one service scan    *)
(*                         for each host that is left                      *)
(*   generate_report_task  the plan of chunks, one comprehensive scan for  *)
(*                         each chunk, the halving of a chunk that timed   *)
(*                         out, the merge of the XML files, the pages and  *)
(*                         the PDF, the metadata, the upload               *)
(*                                                                         *)
(* One task is followed, of either kind: ScanTasks has their threads, jobs *)
(* and processes, this module the addresses they send packets to and the   *)
(* addresses their result describes.  A target is a block of consecutive   *)
(* addresses numbered from 0; a command is one step that ends in one of    *)
(* the outcomes its caller tells apart.                                    *)
(***************************************************************************)
EXTENDS Naturals, Sequences

CONSTANTS
  TargetSizes,  \* numbers of addresses of the targets tried
  HostsInScan,  \* number of addresses of the target of a scan task
  ChunkSize,    \* addresses of a chunk of a chunked report (a /29: 8)
  PassSize,     \* addresses of a chunk of an unchunked one (a /24: 256)
  Smallest,     \* a block of at most this size is not halved (a /30: 4)
  MaxDepth,     \* halvings of one chunk (4)
  ChunkCap,     \* chunks of a chunked report, at most (2048)
  Exclusions,   \* the excluded_targets tried: sets of addresses
  Routes        \* the gateways the evidence can name: sets of addresses

ASSUME CoverageAssumption ==
  /\ TargetSizes \subseteq Nat \ {0} /\ HostsInScan \in Nat \ {0}
  /\ ChunkSize \in Nat \ {0} /\ PassSize \in Nat \ {0}
  /\ Smallest \in Nat \ {0} /\ MaxDepth \in Nat \ {0} /\ ChunkCap \in Nat \ {0}
  /\ Exclusions \subseteq SUBSET Nat /\ Routes \subseteq SUBSET Nat

VARIABLES
  kind,       \* the task followed: "scan" or "report"
  rules,      \* its effective scan rules, read when it starts
  world,      \* the scanner's privileges and the hosts of the network
  routes,     \* gateway evidence: of the session, and of the default state
  pc,         \* the next step of the task
  status,     \* of its job
  cancelled,  \* cancel_requested of the job
  protected,  \* discovery_only_addresses in the details of the job
  probed,     \* addresses some discovery probe was sent to
  serviced,   \* addresses some port or service scan was sent to
  found,      \* scan: the hosts discovery listed
  arpOnly,    \* scan: those only ARP listed
  phases,     \* scan: service scans to do, as [hosts, noPing]
  examined,   \* scan: hosts whose service scan reached them
  incomplete, \* scan: incomplete_hosts in the details of the job
  plan,       \* report: the chunks, in order
  next,       \* report: the chunk after the one at work
  work,       \* report: blocks still to scan for this chunk, with their depth
  collected,  \* report: the blocks of xml_files
  disk,       \* report: the blocks whose complete XML file exists
  xml,        \* report: scan.xml, whether it is readable and what it covers
  files,      \* report: the pages and the PDF in the scan's directory
  sent        \* report: the files given to the Google Drive handler

scanVars   == <<found, arpOnly, phases, examined, incomplete>>
published  == <<files, sent>>
reportVars == <<plan, next, work, collected, disk, xml, published>>
fixed      == <<kind, rules, world, routes>>
vars == <<fixed, pc, status, cancelled, protected, probed, serviced,
          scanVars, reportVars>>

----------------------------------------------------------------------------
(* Blocks and plans                                                        *)

Block(lo, size) == [lo |-> lo, size |-> size]
Blocks          == [lo : Nat, size : Nat]
Addresses(b)    == b.lo .. (b.lo + b.size - 1)
AddressesOf(B)  == UNION {Addresses(b) : b \in B}
Entries(s)      == {s[i] : i \in 1 .. Len(s)}

\* network.subnets(new_prefix=...): the blocks of n addresses of b, in order.
Subnets(b, n) ==
  [i \in 1 .. (b.size \div n) |-> Block(b.lo + (i - 1) * n, n)]

\* split_subnet_into_chunks
Chunks(b) ==
  IF b.size <= ChunkSize THEN <<b>>
  ELSE SubSeq(Subnets(b, ChunkSize), 1,
              IF b.size \div ChunkSize <= ChunkCap
              THEN b.size \div ChunkSize ELSE ChunkCap)

\* _plan_report_scan_targets
PlanFor(b, chunked) ==
  IF b.size > 1 /\ chunked THEN Chunks(b)
  ELSE IF b.size > 1 /\ b.size > PassSize THEN Subnets(b, PassSize)
  ELSE <<b>>

\* _split_cidr_once: the two halves of a block, none for a small one.
Halves(b) ==
  IF b.size <= Smallest THEN <<>>
  ELSE <<Block(b.lo, b.size \div 2),
         Block(b.lo + b.size \div 2, b.size - (b.size \div 2))>>

Target == 0 .. (HostsInScan - 1)

----------------------------------------------------------------------------
(* Rules and privileges                                                    *)

Levels == {"root", "sudo", "none"}
Rules  == [exclude : SUBSET Nat, scanOnly : BOOLEAN, noPing : BOOLEAN,
           protect : BOOLEAN]

\* privileged_prefix: sudo and the helper, unless the process is root.
Prefixed == world.level = "sudo"

\* The hosts `nmap -sn` lists.  Without host discovery every address is up;
\* with privileges ARP is used on the local network, without them only hosts
\* with TCP 80 or 443 answer.
Listed(privileged) ==
  (IF rules.noPing THEN Target
   ELSE IF privileged THEN world.live ELSE world.answering) \ rules.exclude

\* The addresses a command with the rules' options is sent to: --exclude is
\* part of the option list both attempts share.
Scope(A) == A \ rules.exclude

\* discovery_only_gateway_addresses for the session's state, and
\* identify_gateway_firewall_targets, which reads the default state.
SessionGateways == routes.session
GatewaysAmong(H) == H \cap routes.default

\* What keeps a service scan without -Pn from seeing a host.
Reached(h, noPing) ==
  noPing \/ world.level = "root" \/ h \in world.answering

At(p) == status = "running" /\ pc = p

\* The last step of a task closes its job.
EndQuietly(s) == status' = status /\ pc' = "done"
End(s) == status' = s /\ pc' = "done"

----------------------------------------------------------------------------
(* Where a task starts                                                     *)

Unread   == [whole |-> FALSE, hosts |-> {}]
NoReport == plan = <<>> /\ next = 1 /\ work = <<>>

CoverageInit ==
  /\ kind \in {"scan", "report"}
  /\ rules \in [exclude : Exclusions, scanOnly : BOOLEAN, noPing : BOOLEAN,
                protect : BOOLEAN]
  /\ world \in [level : Levels, live : SUBSET Target, answering : SUBSET Target]
  /\ world.answering \subseteq world.live
  /\ routes \in [session : Routes, default : Routes]
  /\ kind = "report" => /\ world.live = {} /\ ~rules.noPing
                        /\ routes.default = {}
  /\ pc = (IF kind = "scan" THEN "discover" ELSE "rules")
  /\ status = "running" /\ cancelled = FALSE
  /\ protected = {} /\ probed = {} /\ serviced = {}
  /\ found = {} /\ arpOnly = {} /\ phases = <<>>
  /\ examined = {} /\ incomplete = {}
  /\ NoReport /\ collected = {} /\ disk = {} /\ xml = Unread
  /\ files = {} /\ sent = {}

----------------------------------------------------------------------------
(* The client and the rest of the appliance                                *)

\* The job is cancelled: the task sees it at its next check.
Cancel ==
  /\ status = "running" /\ ~cancelled
  /\ cancelled' = TRUE
  /\ UNCHANGED <<fixed, pc, status, protected, probed, serviced,
                 scanVars, reportVars>>

\* A traceroute of the session ends and its hops replace the network key.  It
\* began with a copy of the key of that time, a minute ago or more: one that
\* fails puts the copy back, and only an empty key is traced again.
SessionLearns(r) ==
  /\ status = "running"
  /\ routes' = [routes EXCEPT !.session = r]
  /\ UNCHANGED <<kind, rules, world, pc, status, cancelled, protected, probed,
                 serviced, scanVars, reportVars>>
LearnRoutes  == \E r \in Routes : SessionLearns(r)
ForgetRoutes == routes.session # {} /\ SessionLearns({})

\* The key of a session, this one or another, becomes the default state's.
\* Only a scan reads it.
SyncRoutes ==
  /\ status = "running" /\ kind = "scan"
  /\ \E r \in Routes : r # routes.default /\ routes' = [routes EXCEPT !.default = r]
  /\ UNCHANGED <<kind, rules, world, pc, status, cancelled, protected, probed,
                 serviced, scanVars, reportVars>>

----------------------------------------------------------------------------
(* start_scan_task                                                         *)

\* ensure_job_not_cancelled, and the check when a command ends: the task's
\* handler closes the job.
ScanCancelled ==
  /\ cancelled
  /\ \/ At("discover") \/ At("rediscover")
     \/ At("names") /\ found # {}
     \/ At("service") /\ phases # <<>> /\ Head(phases).hosts # {}
  /\ End("cancelled")
  /\ UNCHANGED <<fixed, cancelled, protected, probed, serviced, scanVars,
                 reportVars>>

\* A command that cannot be started: `except Exception`.
ScanRaises ==
  /\ \/ At("discover") \/ At("rediscover")
     \/ At("service") /\ phases # <<>>
  /\ End("failed")
  /\ UNCHANGED <<fixed, cancelled, protected, probed, serviced, scanVars,
                 reportVars>>

\* nmap -sn, with privileges unless the rules forbid them.  A failure that is
\* no denial is not looked at: its output lists no host.
Discover ==
  /\ At("discover") /\ ~cancelled
  /\ LET privileged == world.level = "root" \/ (Prefixed /\ ~rules.scanOnly)
     IN \/ /\ pc' = "arp"
           /\ found' \in {Listed(privileged), {}}
           /\ probed' = probed \cup Scope(Target)
        \/ /\ Prefixed /\ ~rules.scanOnly
           /\ pc' = "rediscover"
           /\ UNCHANGED <<found, probed>>
  /\ UNCHANGED <<fixed, status, cancelled, protected, serviced, arpOnly,
                 phases, examined, incomplete, reportVars>>

\* The denied discovery again, without the prefix.
Rediscover ==
  /\ At("rediscover") /\ ~cancelled
  /\ pc' = "arp"
  /\ found' \in {Listed(FALSE), {}}
  /\ probed' = probed \cup Scope(Target)
  /\ UNCHANGED <<fixed, status, cancelled, protected, serviced, arpOnly,
                 phases, examined, incomplete, reportVars>>

\* merge_arp_only_hosts: not the network and broadcast addresses.
ArpAdds(reply) ==
  {h \in reply \ found :
     HostsInScan > 2 => h \notin {0, HostsInScan - 1}}

\* arp-scan of the whole target, skipped in scan-only mode and whenever a
\* target is excluded.  run_arp_scan answers nothing when the program is
\* missing, denied, timed out or cancelled.
NeverSkipped == FALSE
ArpSkipped   == rules.scanOnly \/ rules.exclude # {}
ArpScan ==
  /\ At("arp")
  /\ pc' = "names"
  /\ IF ArpSkipped
     THEN UNCHANGED <<probed, found, arpOnly>>
     ELSE /\ probed' = probed \cup Target
          /\ \E reply \in (IF cancelled THEN {{}} ELSE {world.live, {}}) :
                LET added == IF rules.noPing THEN {} ELSE ArpAdds(reply)
                IN found' = found \cup added /\ arpOnly' = added
  /\ UNCHANGED <<fixed, status, cancelled, protected, serviced, phases,
                 examined, incomplete, reportVars>>

\* query_mdns_hostname of the hosts without a name, gateways left out.
AskNames ==
  /\ At("names")
  /\ pc' = "split"
  /\ \E unnamed \in (IF cancelled THEN {{}} ELSE {found, {}}) :
       probed' = probed \cup
         (IF rules.protect
          THEN unnamed \ (SessionGateways \cup GatewaysAmong(found))
          ELSE unnamed)
  /\ UNCHANGED <<fixed, status, cancelled, protected, serviced, scanVars,
                 reportVars>>

\* _deep_scan_known_up: hosts only ARP saw are scanned with -Pn.
PingedAlike(H) == <<[hosts |-> H, noPing |-> rules.noPing]>>
KnownUp(H) ==
  <<[hosts |-> H \ arpOnly, noPing |-> rules.noPing],
    [hosts |-> H \cap arpOnly, noPing |-> TRUE]>>

\* Regular hosts, then gateways; with firewall_discovery_only the gateways are
\* recorded in the job and left out.
RegularHosts(H, G) == H \ G
SplitTargets ==
  /\ At("split")
  /\ pc' = "service"
  /\ LET gateways == GatewaysAmong(found)
         known    == SessionGateways \cup gateways
     IN IF rules.protect
        THEN /\ protected' = known
             /\ phases' = KnownUp(RegularHosts(found, known))
        ELSE /\ protected' = protected
             /\ phases' = KnownUp(RegularHosts(found, gateways)) \o KnownUp(gateways)
  /\ UNCHANGED <<fixed, status, cancelled, probed, serviced, found, arpOnly,
                 examined, incomplete, reportVars>>

\* start_deep_scan of the next host: a service scan that reaches it, one that
\* takes it for down and still counts as complete, or an incomplete one.
ServiceScan ==
  /\ At("service") /\ phases # <<>>
  /\ \E h \in Head(phases).hosts :
       /\ phases' = [phases EXCEPT ![1].hosts = @ \ {h}]
       /\ serviced' = serviced \cup {h}
       /\ \/ /\ ~cancelled
             /\ examined' = IF Reached(h, Head(phases).noPing)
                            THEN examined \cup {h} ELSE examined
             /\ UNCHANGED incomplete
          \/ /\ incomplete' = incomplete \cup {h}
             /\ UNCHANGED examined
  /\ UNCHANGED <<fixed, pc, status, cancelled, protected, probed, found,
                 arpOnly, reportVars>>

NextPhase ==
  /\ At("service") /\ phases # <<>> /\ Head(phases).hosts = {}
  /\ phases' = Tail(phases)
  /\ UNCHANGED <<fixed, pc, status, cancelled, protected, probed, serviced,
                 found, arpOnly, examined, incomplete, reportVars>>

\* _finalize_scan_job_if_active
ScanEnds ==
  /\ At("service") /\ phases = <<>>
  /\ End(IF cancelled THEN "cancelled" ELSE "completed")
  /\ UNCHANGED <<fixed, cancelled, protected, probed, serviced, scanVars,
                 reportVars>>

----------------------------------------------------------------------------
(* generate_report_task                                                    *)

\* The rules, with the protected gateways among the exclusions; the target
\* checked and planned.
ReadRules ==
  /\ At("rules")
  /\ LET gateways == IF rules.protect THEN SessionGateways ELSE {}
     IN /\ protected' = gateways
        /\ rules' = [rules EXCEPT !.exclude = @ \cup gateways]
  /\ \/ /\ \E size \in TargetSizes, chunked \in BOOLEAN :
             plan' = PlanFor(Block(0, size), chunked)
        /\ pc' = "chunks"
        /\ UNCHANGED status
     \/ End("failed") /\ UNCHANGED plan
  /\ UNCHANGED <<kind, world, routes, cancelled, probed, serviced, scanVars,
                 next, work, collected, disk, xml,
                 published>>

NextChunk ==
  /\ At("chunks") /\ work = <<>> /\ next <= Len(plan)
  /\ work' = <<[block |-> plan[next], depth |-> 0]>>
  /\ next' = next + 1
  /\ UNCHANGED <<fixed, pc, status, cancelled, protected, probed, serviced,
                 scanVars, plan, collected, disk, xml,
                 published>>

\* A part of a chunk is not started once the job is cancelled.
Started(w) == w.depth = 0 \/ pc = "retry" \/ ~cancelled

\* run_nmap_with_xml_output returned success.
ChunkScanned ==
  /\ At("chunks") \/ At("retry")
  /\ work # <<>> /\ ~cancelled /\ Started(Head(work))
  /\ world.level = "none" => rules.scanOnly
  /\ LET b == Head(work).block
     IN /\ serviced' = serviced \cup Scope(Addresses(b))
        /\ collected' = collected \cup {b}
        /\ disk' = disk \cup {b}
  /\ work' = Tail(work)
  /\ pc' = "chunks"
  /\ UNCHANGED <<fixed, status, cancelled, protected, probed, scanVars, plan,
                 next, xml, published>>

\* The limit was reached: _scan_subnets_with_fallback puts the halves of the
\* block in its place, and gives up where no block may be halved any more.
MayHalve(w)    == (w.depth = 0 \/ w.depth < MaxDepth) /\ Halves(w.block) # <<>>
HalvesOf(w)    ==
  [i \in 1 .. Len(Halves(w.block)) |->
     [block |-> Halves(w.block)[i], depth |-> w.depth + 1]]
GiveUpOnPart(w) == Tail(work)
AfterTimeout(w) == HalvesOf(w) \o Tail(work)
ChunkTimesOut ==
  /\ At("chunks") \/ At("retry")
  /\ work # <<>> /\ Started(Head(work))
  /\ world.level = "none" => rules.scanOnly
  /\ serviced' = serviced \cup Scope(Addresses(Head(work).block))
  /\ IF MayHalve(Head(work))
     THEN work' = AfterTimeout(Head(work)) /\ pc' = "chunks"
     ELSE work' = <<>> /\ pc' = "chunk failed"
  /\ UNCHANGED <<fixed, status, cancelled, protected, probed, scanVars, plan,
                 next, collected, disk, xml,
                 published>>

\* The privileged command was denied: retried without the prefix in scan-only
\* mode, and not replaced otherwise.
ChunkDenied ==
  /\ At("chunks") /\ work # <<>> /\ ~cancelled
  /\ Prefixed \/ (world.level = "none" /\ ~rules.scanOnly)
  /\ IF rules.scanOnly THEN pc' = "retry" /\ UNCHANGED work
     ELSE pc' = "chunk failed" /\ work' = <<>>
  /\ UNCHANGED <<fixed, status, cancelled, protected, probed, serviced,
                 scanVars, plan, next, collected, disk, xml,
                 published>>

\* A non-zero exit, a command that was cancelled, or a part not started.
ChunkFails ==
  /\ At("chunks") \/ At("retry")
  /\ work # <<>>
  /\ serviced' = IF Started(Head(work))
                 THEN serviced \cup Scope(Addresses(Head(work).block))
                 ELSE serviced
  /\ work' = <<>> /\ pc' = "chunk failed"
  /\ UNCHANGED <<fixed, status, cancelled, protected, probed, scanVars, plan,
                 next, collected, disk, xml,
                 published>>

\* mark_scan_failure and the job's status.
ReportFails ==
  /\ At("chunk failed")
  /\ End(IF cancelled THEN "cancelled" ELSE "failed")
  /\ UNCHANGED <<fixed, cancelled, protected, probed, serviced, scanVars,
                 reportVars>>

\* merge_nmap_xml_files and cleanup_chunk_artifacts, or the one scan.xml.
Merged     == [whole |-> TRUE, hosts |-> Scope(AddressesOf(collected))]
OnlyChunk  == [whole |-> plan[1] \in disk,
               hosts |-> IF plan[1] \in disk THEN Scope(Addresses(plan[1])) ELSE {}]
MergeChunks ==
  /\ At("chunks") /\ work = <<>> /\ next > Len(plan)
  /\ pc' = "web"
  /\ IF Len(plan) > 1
     THEN xml' = Merged /\ disk' = disk \ collected
     ELSE xml' = OnlyChunk /\ UNCHANGED disk
  /\ UNCHANGED <<fixed, status, cancelled, protected, probed, serviced,
                 scanVars, plan, next, work, collected,
                 published>>

\* An XML file that cannot be parsed, or a merge that cannot be written.
LostOnFailure(D) == D \ collected
KeptOnFailure(D) == D
MergeFails ==
  /\ At("chunks") /\ work = <<>> /\ next > Len(plan) /\ Len(plan) > 1
  /\ End("failed")
  /\ disk' = KeptOnFailure(disk)
  /\ UNCHANGED <<fixed, cancelled, protected, probed, serviced, scanVars,
                 plan, next, work, collected, xml, published>>

\* Once merged, nothing looks at the cancellation any more.

\* convert_xml_to_html and the comparison put into the page.  Without a
\* readable scan.xml there is no page, with one a conversion that fails may
\* leave one; both are only logged.  An exception on writing is not caught.
RenderPage(step, page, then) ==
  /\ At(step)
  /\ \/ /\ pc' = then
        /\ UNCHANGED status
        /\ files' \in {files, IF xml.whole THEN files \cup {page} ELSE files}
     \/ /\ xml.whole
        /\ End("failed")
        /\ files' = files \cup {page}
  /\ UNCHANGED <<fixed, cancelled, protected, probed, serviced, scanVars,
                 plan, next, work, collected, disk, xml, sent>>
RenderWeb  == RenderPage("web", "web", "view")
RenderView == RenderPage("view", "view", "pdf")

\* convert_html_to_pdf: Playwright, wkhtmltopdf, WeasyPrint.  wkhtmltopdf
\* makes an empty PDF of a page that is missing.  Where all fail, the size of
\* the page is shown in its place: a missing page ends the report.
PageInPlace == "view" \in files
RenderPdf ==
  /\ At("pdf")
  /\ \/ pc' = "save" /\ files' = files \cup {"pdf"} /\ UNCHANGED status
     \/ PageInPlace /\ pc' = "save" /\ UNCHANGED <<files, status>>
     \/ ~PageInPlace /\ End("failed") /\ UNCHANGED files
  /\ UNCHANGED <<fixed, cancelled, protected, probed, serviced, scanVars,
                 plan, next, work, collected, disk, xml, sent>>

\* The copy on the desktop, save_scan_metadata, the statistics: the first and
\* the last keep their exceptions to themselves.
SaveReport ==
  /\ At("save")
  /\ \/ pc' = "upload" /\ UNCHANGED status
     \/ End("failed")
  /\ UNCHANGED <<fixed, cancelled, protected, probed, serviced, scanVars,
                 reportVars>>

\* The Drive handler gets the files that exist, if sync is on; the report is
\* completed whatever it answers or raises.
Exported == (files \cap {"web", "pdf"}) \cup {"xml"}
UploadReport ==
  /\ At("upload")
  /\ sent' \in {{}, Exported}
  /\ End("completed")
  /\ UNCHANGED <<fixed, cancelled, protected, probed, serviced, scanVars,
                 plan, next, work, collected, disk, xml, files>>

----------------------------------------------------------------------------
ScanStep ==
  \/ ScanCancelled \/ ScanRaises \/ Discover \/ Rediscover \/ ArpScan
  \/ AskNames \/ SplitTargets \/ ServiceScan \/ NextPhase \/ ScanEnds
ReportStep ==
  \/ ReadRules \/ NextChunk \/ ChunkScanned \/ ChunkTimesOut \/ ChunkDenied
  \/ ChunkFails \/ ReportFails \/ MergeChunks \/ MergeFails
  \/ RenderWeb \/ RenderView \/ RenderPdf \/ SaveReport \/ UploadReport
CoverageNext ==
  \/ Cancel \/ LearnRoutes \/ ForgetRoutes \/ SyncRoutes
  \/ ScanStep \/ ReportStep

CoverageSpec == CoverageInit /\ [][CoverageNext]_vars

----------------------------------------------------------------------------
(* Properties                                                              *)

PCs == {"discover", "rediscover", "arp", "names", "split", "service", "rules",
        "chunks", "retry", "chunk failed", "web", "view", "pdf", "save", "upload",
        "done"}

TaskTypes ==
  /\ kind \in {"scan", "report"} /\ rules \in Rules
  /\ world \in [level : Levels, live : SUBSET Nat, answering : SUBSET Nat]
  /\ routes \in [session : SUBSET Nat, default : SUBSET Nat]
  /\ pc \in PCs /\ status \in {"running", "completed", "failed", "cancelled"}
  /\ status = "running" <=> pc # "done"
  /\ cancelled \in BOOLEAN
  /\ protected \subseteq Nat /\ probed \subseteq Nat /\ serviced \subseteq Nat
Phases    == [hosts : SUBSET Nat, noPing : BOOLEAN]
ScanTypes ==
  /\ found \subseteq Nat /\ arpOnly \subseteq Nat
  /\ examined \subseteq Nat /\ incomplete \subseteq Nat
  /\ phases \in Seq(Phases)
Parts     == [block : Blocks, depth : Nat]
PlanTypes == plan \in Seq(Blocks) /\ next \in Nat \ {0} /\ work \in Seq(Parts)
FileTypes ==
  /\ collected \subseteq Blocks /\ disk \subseteq Blocks
  /\ xml \in [whole : BOOLEAN, hosts : SUBSET Nat]
  /\ files \subseteq {"web", "view", "pdf"} /\ sent \subseteq {"web", "pdf", "xml"}
CoverageTypeOK == TaskTypes /\ ScanTypes /\ PlanTypes /\ FileTypes

\* No packet goes to an excluded address, whichever command, retry, ARP sweep
\* or part of a chunk the task came to; and no service scan goes to an address
\* its job reports as discovery-only.
HandsOff ==
  /\ (probed \cup serviced) \cap rules.exclude = {}
  /\ serviced \cap protected = {}

\* A completed report with a readable scan.xml describes every address of its
\* plan that is not excluded, and no other, however often chunks timed out and
\* were halved.  No report completes without its page or a PDF, whichever of
\* the conversions failed.
CompletedReportIsWhole ==
  kind = "report" /\ status = "completed" =>
    /\ xml.whole => xml.hosts = AddressesOf(Entries(plan)) \ rules.exclude
    /\ files \cap {"view", "pdf"} # {}

\* The XML of every part that was scanned stays on disk until a scan.xml that
\* covers it has been written: a failed or cancelled report loses nothing.
EvidenceIsKept ==
  \A b \in collected :
     b \in disk \/ (xml.whole /\ Scope(Addresses(b)) \subseteq xml.hosts)

\* Each host a completed scan lists, the protected ones apart, was reached by
\* its service scan or is in incomplete_hosts.
Looked == found \ protected \subseteq examined \cup incomplete
DiscoveredHostsAreExamined ==
  kind = "scan" /\ status = "completed" => Looked

\* The same where discovery and service scan have the same privileges: the
\* hosts that only ARP saw are not taken for down.
HostsSeenAlikeAreExamined ==
  kind = "scan" /\ status = "completed" /\ world.level # "sudo" => Looked
=============================================================================
