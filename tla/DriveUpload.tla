------------------------------ MODULE DriveUpload ------------------------------
(***************************************************************************)
(* One call of upload_file (nmapui/google_drive_upload.py): a resumable    *)
(* upload in chunks, with Google Drive and the network as its environment. *)
(*                                                                         *)
(* The open file may be edited in place at any time; its version is what   *)
(* fstat tells of it.  A request whose answer is lost may still be served  *)
(* later; Drive keeps a prefix of the bytes that follow what it has, and   *)
(* completes the file with the last of them.  An unused operator right     *)
(* before one of the same parameters is a plausible slip in it.            *)
(***************************************************************************)
EXTENDS Naturals

CONSTANTS
  Size,          \* bytes of the file, in units of transfer
  Chunk,         \* CHUNK_BYTES, in the same units
  MaxFailures,   \* MAX_FAILURES
  MaxEdits       \* bound: edits of the file during the call

ASSUME UploadAssumption ==
  /\ Size \in Nat /\ Chunk \in Nat \ {0} /\ MaxFailures \in Nat \ {0} /\ MaxEdits \in Nat

VARIABLES
  source,        \* version of the open file; the first fstat saw 0
  pc,            \* progress of the call
  offset,        \* bytes Drive has confirmed
  failures,      \* failed attempts since the last progress
  probing,       \* the next request asks for the confirmed range
  sentThrough,   \* end of the furthest chunk sent
  request,       \* the request under way
  resent,        \* with a refreshed token, after a 401
  reply,         \* what the call hears of it
  answer,        \* what the caller was told
  wire,          \* requests that may still reach Drive
  session,       \* Drive's upload session
  stored,        \* bytes it has
  versions,      \* versions of the file these came from
  made           \* files it has created

call   == <<pc, offset, failures, probing, sentThrough, request, resent, reply, answer>>
remote == <<session, stored, versions, made>>
uploadVars == <<source, call, wire, remote>>

-----------------------------------------------------------------------------
\* A request carries the bytes [from, upto); a probe carries none.
Requests == [from : 0..Size, upto : 0..Size, version : 0..MaxEdits]
NothingSent == [from |-> 0, upto |-> 0, version |-> 0]

\* Exceptions and retryable statuses are faults; statuses that are not, malformed
\* ranges and payloads without the file's id or size are refusals.
Codes == {"none", "range", "complete", "unauthorized", "fault", "refused"}
Replies == [code : Codes, at : 0..Size]
Silence == [code |-> "none", at |-> 0]
Short(code) == [code |-> code, at |-> 0]

\* A version of the file is what size and mtime tell of it.
Verified == source = 0

Ends(result) == pc' = "over" /\ answer' = result

\* The failure handling shared by every retry.
Retries(after) ==
  /\ failures' = failures + 1
  /\ IF failures + 1 >= MaxFailures THEN Ends("error") ELSE pc' = after /\ UNCHANGED answer

-----------------------------------------------------------------------------
(***************************************************************************)
(* Opening a session.  A session whose address was lost is never used.     *)
(***************************************************************************)
Open ==
  /\ pc = "open"
  /\ pc' = "verify" /\ failures' = 0
  /\ session' = "open" /\ stored' = 0 /\ versions' = {}
  /\ UNCHANGED <<source, offset, probing, sentThrough, request, resent, reply, answer, wire, made>>

OpenFails ==
  /\ pc = "open"
  /\ Retries("open")
  /\ UNCHANGED <<source, offset, probing, sentThrough, request, resent, reply, wire, remote>>

OpenRefused ==
  /\ pc = "open"
  /\ Ends("error")
  /\ UNCHANGED <<source, offset, failures, probing, sentThrough, request, resent, reply, wire, remote>>

-----------------------------------------------------------------------------
(***************************************************************************)
(* One turn of the transfer: verify the file, read and send, hear.         *)
(***************************************************************************)
Verify ==
  /\ pc = "verify"
  /\ IF Verified THEN pc' = "send" /\ UNCHANGED answer ELSE Ends("error")
  /\ UNCHANGED <<source, offset, failures, probing, sentThrough, request, resent, reply, wire, remote>>

Left == IF Size - offset < Chunk THEN Size - offset ELSE Chunk
Readable == IF source = 0 THEN {Left} ELSE 0..Left

Sends(r) ==
  /\ request' = r
  /\ wire' = wire \union {r}
  /\ resent' = FALSE /\ reply' = Silence
  /\ pc' = "hear"

SendProbe ==
  /\ pc = "send" /\ probing
  /\ Sends([from |-> offset, upto |-> offset, version |-> source])
  /\ UNCHANGED <<source, offset, failures, probing, sentThrough, answer, remote>>

SendChunk ==
  /\ pc = "send" /\ ~probing
  /\ \E n \in Readable :
       IF n = 0 /\ offset < Size
       THEN Ends("error") /\ UNCHANGED <<sentThrough, request, resent, reply, wire>>
       ELSE /\ Sends([from |-> offset, upto |-> offset + n, version |-> source])
            /\ sentThrough' = IF offset + n > sentThrough THEN offset + n ELSE sentThrough
            /\ UNCHANGED answer
  /\ UNCHANGED <<source, offset, failures, probing, remote>>

Hears(code) == pc = "hear" /\ reply.code = code

\* After a failed request the call asks what arrived before it sends more.
HearFault ==
  /\ Hears("fault")
  /\ Retries("verify")
  /\ probing' = TRUE
  /\ UNCHANGED <<source, offset, sentThrough, request, resent, reply, wire, remote>>

\* A rejected token is refreshed once per request.
RefreshToken ==
  /\ Hears("unauthorized") /\ ~resent
  /\ resent' = TRUE /\ reply' = Silence
  /\ wire' = wire \union {request}
  /\ UNCHANGED <<source, pc, offset, failures, probing, sentThrough, request, answer, remote>>

NoFreshToken ==
  /\ Hears("unauthorized") /\ ~resent
  /\ reply' = Short("fault")
  /\ UNCHANGED <<source, pc, offset, failures, probing, sentThrough, request, resent, answer, wire,
                 remote>>

Refused == Ends("error") /\ UNCHANGED offset

HearRefusal ==
  /\ Hears("refused") \/ (Hears("unauthorized") /\ resent)
  /\ Refused
  /\ UNCHANGED <<source, failures, probing, sentThrough, request, resent, reply, wire, remote>>

SentAtEnd == sentThrough >= Size

VerifiedAtEnd == Verified /\ sentThrough >= Size

HearCompletion ==
  /\ Hears("complete")
  /\ Ends(IF VerifiedAtEnd THEN "ok" ELSE "error")
  /\ UNCHANGED <<source, offset, failures, probing, sentThrough, request, resent, reply, wire, remote>>

Furthest == IF probing THEN Size ELSE request.upto
Consistent == offset <= reply.at /\ reply.at <= Furthest /\ reply.at < Size

AsSent == request.upto

Confirmed == reply.at

ProgressAssumed == TRUE

Progress == Confirmed # offset

HearRange ==
  /\ Hears("range")
  /\ IF ~Consistent
     THEN Ends("error") /\ UNCHANGED <<offset, failures, probing>>
     ELSE /\ IF Progress THEN failures' = 0 /\ pc' = "verify" /\ UNCHANGED answer
             ELSE Retries("verify")
          /\ offset' = Confirmed /\ probing' = FALSE
  /\ UNCHANGED <<source, sentThrough, request, resent, reply, wire, remote>>

-----------------------------------------------------------------------------
(***************************************************************************)
(* Drive and the network.                                                  *)
(***************************************************************************)
Awaited(r) == pc = "hear" /\ reply = Silence /\ r = request

Extends(r) == session = "open" /\ r.from = stored
Kept(r) == IF Extends(r) THEN r.from..r.upto ELSE {stored}

\* Drive keeps some of the bytes; the answer, or its payload, may be lost.
Serve(r, n) ==
  /\ session \in {"open", "complete"}
  /\ wire' = wire \ {r}
  /\ stored' = n
  /\ versions' = IF n > stored THEN versions \union {r.version} ELSE versions
  /\ session' = IF n = Size THEN "complete" ELSE session
  /\ made' = IF session = "open" /\ n = Size THEN made + 1 ELSE made
  /\ reply' \in IF ~Awaited(r) THEN {reply}
               ELSE {Short("fault"), Short("refused"),
                     IF n = Size THEN Short("complete") ELSE [code |-> "range", at |-> n]}
  /\ UNCHANGED <<source, pc, offset, failures, probing, sentThrough, request, resent, answer>>

\* A status without effect: any error, and always one when the session is gone.
TurnAway(r, code) ==
  /\ session = "gone" => code \in {"fault", "refused"}
  /\ wire' = wire \ {r}
  /\ reply' = IF Awaited(r) THEN Short(code) ELSE reply
  /\ UNCHANGED <<source, pc, offset, failures, probing, sentThrough, request, resent, answer, remote>>

Timeout ==
  /\ pc = "hear" /\ reply = Silence
  /\ reply' = Short("fault")
  /\ UNCHANGED <<source, pc, offset, failures, probing, sentThrough, request, resent, answer, wire,
                 remote>>

SessionExpires ==
  /\ session \in {"open", "complete"}
  /\ session' = "gone"
  /\ UNCHANGED <<source, call, wire, stored, versions, made>>

Edit ==
  /\ source < MaxEdits
  /\ source' = source + 1
  /\ UNCHANGED <<call, wire, remote>>

-----------------------------------------------------------------------------
UploadInit ==
  /\ source = 0
  /\ pc = "open" /\ offset = 0 /\ failures = 0 /\ probing = FALSE /\ sentThrough = 0
  /\ request = NothingSent /\ resent = FALSE /\ reply = Silence /\ answer = "pending"
  /\ wire = {}
  /\ session = "none" /\ stored = 0 /\ versions = {} /\ made = 0

CallStep ==
  \/ Open \/ OpenFails \/ OpenRefused
  \/ Verify \/ SendProbe \/ SendChunk
  \/ HearFault \/ RefreshToken \/ NoFreshToken \/ HearRefusal \/ HearCompletion \/ HearRange

DriveStep ==
  \/ \E r \in wire :
       \/ \E n \in Kept(r) : Serve(r, n)
       \/ \E code \in {"fault", "unauthorized", "refused"} : TurnAway(r, code)
  \/ Timeout \/ SessionExpires

UploadNext == CallStep \/ DriveStep \/ Edit

UploadSpec == UploadInit /\ [][UploadNext]_uploadVars

\* The call runs on, and the timeout of its requests expires.
FairUploadSpec == UploadSpec /\ WF_uploadVars(CallStep) /\ WF_uploadVars(Timeout)

-----------------------------------------------------------------------------
\* Every variable has its type.
UploadTypeOK ==
  /\ source \in 0..MaxEdits
  /\ pc \in {"open", "verify", "send", "hear", "over"}
  /\ offset \in 0..Size /\ sentThrough \in 0..Size
  /\ failures \in 0..MaxFailures
  /\ probing \in BOOLEAN /\ resent \in BOOLEAN
  /\ request \in Requests /\ wire \subseteq Requests
  /\ reply \in Replies
  /\ answer \in {"pending", "ok", "error"}
  /\ answer = "pending" <=> pc # "over"
  /\ session \in {"none", "open", "complete", "gone"}
  /\ stored \in 0..Size /\ versions \subseteq 0..MaxEdits /\ made \in Nat

\* Success is reported only of a file Drive has created from every byte of the
\* file as it was at the start, whatever was edited, lost, delayed or resent.
SuccessIsWholeFile == answer = "ok" => made = 1 /\ stored = Size /\ versions \subseteq {0}

\* The transfer resumes at or before the first byte Drive lacks, and Drive has
\* nothing the call has not sent.
ResumesWithoutGap == offset <= stored /\ stored <= sentThrough

\* A call creates at most one file, sessions that expire after completion included.
AtMostOneFile == made <= 1

\* Whatever fails, the caller gets an answer.
UploadEnds == <>(answer # "pending")

\* The upload implements what DriveDelivery promises, answer included.
Holds == IF made = 0 THEN "nothing" ELSE IF versions \subseteq {0} THEN "whole" ELSE "mixed"
Delivery == INSTANCE DriveDelivery WITH drive <- Holds
DeliveryPromise == Delivery!FairSpec
=============================================================================
