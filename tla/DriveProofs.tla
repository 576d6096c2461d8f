------------------------------ MODULE DriveProofs ------------------------------
(***************************************************************************)
(* Proofs about Google Drive: one call of upload_file, for every size of   *)
(* file and chunk and every number of tolerated failures and edits, and    *)
(* the connection it uploads through, for every set of request threads and *)
(* uploaders and every number of consents and events.                      *)
(*                                                                         *)
(* The upload: no request that exists, served or not, carries a version    *)
(* newer than the open file's or bytes beyond sentThrough; Drive's content *)
(* is made of requests, and no longer changes once the file is made.  A    *)
(* completion heard while the file is still at version 0 is therefore that *)
(* of the whole file.                                                      *)
(*                                                                         *)
(* The connection: drive_lifecycle_lock is held from a callback's first    *)
(* read to its last save, so the consent a callback carries stays newer    *)
(* than the last disconnection; _TOKEN_LOCK is held across a refresh, so   *)
(* what the refresh writes is what it read, changed.                       *)
(***************************************************************************)
EXTENDS DriveUpload, DriveLink, TLAPS

-----------------------------------------------------------------------------
(* The upload.                                                              *)

\* What every request that was sent satisfies.
RequestOK(r) == r.from <= r.upto /\ r.upto <= sentThrough /\ r.version <= source

RequestsOK == \A r \in wire \union {request} : RequestOK(r)

\* The transfer runs in a session, and still has an attempt left.
ProgressOK ==
  /\ pc = "open" => session = "none"
  /\ pc \in {"verify", "send", "hear"} => session # "none"
  /\ pc # "over" => failures < MaxFailures

\* Drive makes the file with its last byte, and keeps it.
SessionOK ==
  /\ session = "none" => stored = 0 /\ versions = {} /\ offset = 0 /\ wire = {}
  /\ session \in {"none", "open"} => made = 0
  /\ session = "complete" => made = 1
  /\ made = 1 => stored = Size
  /\ made \in {0, 1}

VersionsOK == \A v \in versions : v <= source

\* What the call has heard is still true.
ReplyOK ==
  /\ reply.code = "range" => reply.at <= stored
  /\ reply.code = "complete" => made = 1

AnswerOK == answer = "ok" => made = 1 /\ versions \subseteq {0}

UploadInv ==
  /\ UploadTypeOK /\ RequestsOK /\ ProgressOK /\ SessionOK /\ VersionsOK /\ ReplyOK /\ AnswerOK
  /\ ResumesWithoutGap

-----------------------------------------------------------------------------
\* Nothing heard is a reply, and nothing sent a request.
LEMMA Nothings == Silence \in Replies /\ NothingSent \in Requests
BY UploadAssumption DEF Silence, Replies, Codes, NothingSent, Requests

LEMMA InitInv == UploadInit => UploadInv
<1>. SUFFICES ASSUME UploadInit PROVE UploadInv
  OBVIOUS
<1>1. UploadTypeOK
  <2>1. source \in 0..MaxEdits /\ offset \in 0..Size /\ sentThrough \in 0..Size /\ stored \in 0..Size
        /\ failures \in 0..MaxFailures /\ made \in Nat
    BY UploadAssumption DEF UploadInit
  <2>2. request \in Requests /\ reply \in Replies /\ wire \subseteq Requests
        /\ versions \subseteq 0..MaxEdits /\ probing \in BOOLEAN /\ resent \in BOOLEAN
    BY Nothings DEF UploadInit
  <2>. QED
    BY <2>1, <2>2 DEF UploadInit, UploadTypeOK
<1>2. RequestsOK
  BY DEF UploadInit, RequestsOK, RequestOK, NothingSent
<1>3. ProgressOK /\ SessionOK /\ VersionsOK /\ ReplyOK /\ AnswerOK /\ ResumesWithoutGap
  BY UploadAssumption DEF UploadInit, ProgressOK, SessionOK, VersionsOK, ReplyOK, AnswerOK,
     ResumesWithoutGap, Silence
<1>. QED
  BY <1>1, <1>2, <1>3 DEF UploadInv

\* The chunk read lies within the file.
LEMMA ChunkFits ==
  ASSUME offset \in 0..Size, NEW n \in Readable
  PROVE  n \in Nat /\ offset + n \in 0..Size
BY UploadAssumption DEF Readable, Left

\* Sending a request of the open file's version keeps the requests in order.
LEMMA SendKeepsRequests ==
  ASSUME UploadInv, NEW n \in Nat, offset + n \in 0..Size, UNCHANGED source,
         Sends([from |-> offset, upto |-> offset + n, version |-> source]),
         sentThrough' = IF offset + n > sentThrough THEN offset + n ELSE sentThrough
  PROVE  /\ request' \in Requests /\ wire' \subseteq Requests
         /\ RequestsOK' /\ sentThrough' \in 0..Size /\ sentThrough <= sentThrough'
         /\ reply' = Silence /\ pc' = "hear" /\ resent' = FALSE
<1>. DEFINE r == [from |-> offset, upto |-> offset + n, version |-> source]
<1>1. /\ request' = r /\ wire' = wire \union {r}
      /\ reply' = Silence /\ pc' = "hear" /\ resent' = FALSE
  BY DEF Sends
<1>2. /\ offset \in 0..Size /\ sentThrough \in 0..Size /\ source \in 0..MaxEdits
      /\ wire \subseteq Requests
  BY DEF UploadInv, UploadTypeOK
<1>3. r \in Requests
  BY <1>2 DEF Requests
<1>4. sentThrough' \in 0..Size /\ sentThrough <= sentThrough' /\ offset + n <= sentThrough'
  BY <1>2, UploadAssumption
<1>5. ASSUME NEW q \in wire
      PROVE  q.from <= q.upto /\ q.upto <= sentThrough' /\ q.version <= source'
  <2>1. q \in Requests /\ RequestOK(q)
    BY <1>2 DEF UploadInv, RequestsOK
  <2>. QED
    BY <2>1, <1>2, <1>4, UploadAssumption DEF Requests, RequestOK
<1>6. r.from <= r.upto /\ r.upto <= sentThrough' /\ r.version <= source'
  BY <1>2, <1>4, UploadAssumption
<1>7. RequestsOK'
  BY <1>1, <1>5, <1>6 DEF RequestsOK, RequestOK
<1>. QED
  BY <1>1, <1>2, <1>3, <1>4, <1>7

-----------------------------------------------------------------------------
\* The steps that open the session, or fail to.
LEMMA OpeningKeepsInv ==
  ASSUME UploadInv, Open \/ OpenFails \/ OpenRefused
  PROVE  UploadInv'
<1>. USE UploadAssumption
<1>1. CASE Open
  BY <1>1 DEF Open, UploadInv, UploadTypeOK, RequestsOK, RequestOK, ProgressOK, SessionOK,
     VersionsOK, ReplyOK, AnswerOK, ResumesWithoutGap
<1>2. CASE OpenFails
  BY <1>2 DEF OpenFails, Retries, Ends, remote, UploadInv, UploadTypeOK, RequestsOK, RequestOK,
     ProgressOK, SessionOK, VersionsOK, ReplyOK, AnswerOK, ResumesWithoutGap
<1>3. CASE OpenRefused
  BY <1>3 DEF OpenRefused, Ends, remote, UploadInv, UploadTypeOK, RequestsOK, RequestOK,
     ProgressOK, SessionOK, VersionsOK, ReplyOK, AnswerOK, ResumesWithoutGap
<1>. QED
  BY <1>1, <1>2, <1>3

\* The steps that verify the file and send a request.
LEMMA SendingKeepsInv ==
  ASSUME UploadInv, Verify \/ SendProbe \/ SendChunk
  PROVE  UploadInv'
<1>. USE UploadAssumption
<1>1. CASE Verify
  BY <1>1 DEF Verify, Ends, remote, UploadInv, UploadTypeOK, RequestsOK, RequestOK,
     ProgressOK, SessionOK, VersionsOK, ReplyOK, AnswerOK, ResumesWithoutGap
<1>2. CASE SendProbe \/ SendChunk
  <2>1. CASE pc' = "over"
    BY <1>2, <2>1 DEF SendProbe, SendChunk, Sends, Ends, remote, UploadInv, UploadTypeOK, RequestsOK,
       RequestOK, ProgressOK, SessionOK, VersionsOK, ReplyOK, AnswerOK, ResumesWithoutGap
  <2>2. CASE pc' # "over"
    <3>1. pc = "send" /\ offset \in 0..Size /\ sentThrough \in 0..Size /\ offset <= sentThrough
          /\ stored \in 0..Size
      BY <1>2 DEF SendProbe, SendChunk, UploadInv, UploadTypeOK, ResumesWithoutGap
    <3>2. PICK n \in Nat :
            /\ offset + n \in 0..Size
            /\ Sends([from |-> offset, upto |-> offset + n, version |-> source])
            /\ sentThrough' = IF offset + n > sentThrough THEN offset + n ELSE sentThrough
      <4>1. CASE SendProbe
        <5>1. offset + 0 = offset /\ ~(offset + 0 > sentThrough)
          BY <3>1
        <5>. QED
          BY <4>1, <5>1, <3>1 DEF SendProbe
      <4>2. CASE SendChunk
        BY <4>2, <2>2, <3>1, ChunkFits DEF SendChunk, Ends
      <4>. QED
        BY <1>2, <4>1, <4>2
    <3>3. UNCHANGED <<source, offset, failures, probing, answer, remote>>
      BY <1>2, <2>2 DEF SendProbe, SendChunk, Ends
    <3>4. /\ request' \in Requests /\ wire' \subseteq Requests
          /\ RequestsOK' /\ sentThrough' \in 0..Size /\ sentThrough <= sentThrough'
          /\ reply' = Silence /\ pc' = "hear" /\ resent' = FALSE
      BY <3>2, <3>3, SendKeepsRequests
    <3>5. UploadTypeOK'
      BY <3>1, <3>3, <3>4, Nothings DEF UploadInv, UploadTypeOK, remote
    <3>6. ProgressOK' /\ SessionOK' /\ VersionsOK' /\ ReplyOK' /\ AnswerOK'
      BY <3>1, <3>3, <3>4 DEF UploadInv, ProgressOK, SessionOK, VersionsOK, ReplyOK, AnswerOK,
         remote, Silence
    <3>7. ResumesWithoutGap'
      BY <3>1, <3>3, <3>4 DEF UploadInv, ResumesWithoutGap, remote
    <3>. QED
      BY <3>4, <3>5, <3>6, <3>7 DEF UploadInv
  <2>. QED
    BY <2>1, <2>2
<1>. QED
  BY <1>1, <1>2

\* The steps that hear of a request.
LEMMA HearingKeepsInv ==
  ASSUME UploadInv,
         HearFault \/ RefreshToken \/ NoFreshToken \/ HearRefusal \/ HearCompletion \/ HearRange
  PROVE  UploadInv'
<1>. USE UploadAssumption
<1>1. CASE HearFault
  BY <1>1 DEF HearFault, Hears, Retries, Ends, remote, UploadInv, UploadTypeOK, RequestsOK,
     RequestOK, ProgressOK, SessionOK, VersionsOK, ReplyOK, AnswerOK, ResumesWithoutGap
<1>2. CASE RefreshToken
  BY <1>2 DEF RefreshToken, Hears, Silence, remote, Replies, Codes, UploadInv, UploadTypeOK, RequestsOK,
     RequestOK, ProgressOK, SessionOK, VersionsOK, ReplyOK, AnswerOK, ResumesWithoutGap
<1>3. CASE NoFreshToken
  BY <1>3 DEF NoFreshToken, Hears, Short, remote, Replies, Codes, UploadInv, UploadTypeOK, RequestsOK,
     RequestOK, ProgressOK, SessionOK, VersionsOK, ReplyOK, AnswerOK, ResumesWithoutGap
<1>4. CASE HearRefusal
  BY <1>4 DEF HearRefusal, Hears, Refused, Ends, remote, UploadInv, UploadTypeOK, RequestsOK,
     RequestOK, ProgressOK, SessionOK, VersionsOK, ReplyOK, AnswerOK, ResumesWithoutGap
<1>5. CASE HearCompletion
  <2>1. VerifiedAtEnd => versions \subseteq {0}
    BY DEF VerifiedAtEnd, Verified, UploadInv, VersionsOK, UploadTypeOK
  <2>. QED
    BY <1>5, <2>1 DEF HearCompletion, Hears, Ends, remote, UploadInv, UploadTypeOK, RequestsOK,
       RequestOK, ProgressOK, SessionOK, VersionsOK, ReplyOK, AnswerOK, ResumesWithoutGap
<1>6. CASE HearRange
  <2>1. CASE ~Consistent
    BY <1>6, <2>1 DEF HearRange, Hears, Ends, remote, UploadInv, UploadTypeOK, RequestsOK,
       RequestOK, ProgressOK, SessionOK, VersionsOK, ReplyOK, AnswerOK, ResumesWithoutGap
  <2>2. CASE Consistent
    <3>1. /\ offset' = reply.at /\ probing' = FALSE
          /\ failures' \in {0, failures + 1}
          /\ \/ pc' = "verify" /\ failures' < MaxFailures /\ UNCHANGED answer
             \/ pc' = "over" /\ answer' = "error"
          /\ pc = "hear" /\ reply.code = "range"
          /\ UNCHANGED <<source, sentThrough, request, resent, reply, wire, remote>>
      BY <1>6, <2>2 DEF HearRange, Hears, Retries, Ends, Confirmed, UploadInv, UploadTypeOK
    <3>2. reply.at \in 0..Size /\ reply.at <= stored /\ failures' \in 0..MaxFailures
      BY <3>1 DEF UploadInv, UploadTypeOK, ReplyOK, Replies, ProgressOK
    <3>3. UploadTypeOK'
      BY <3>1, <3>2 DEF UploadInv, UploadTypeOK, remote
    <3>4. RequestsOK' /\ ProgressOK' /\ SessionOK' /\ VersionsOK' /\ ReplyOK' /\ AnswerOK'
      BY <3>1, <3>2 DEF UploadInv, RequestsOK, RequestOK, ProgressOK, SessionOK, VersionsOK, ReplyOK,
         AnswerOK, remote
    <3>5. ResumesWithoutGap'
      BY <3>1, <3>2 DEF UploadInv, ResumesWithoutGap, remote
    <3>. QED
      BY <3>3, <3>4, <3>5 DEF UploadInv
  <2>. QED
    BY <2>1, <2>2
<1>. QED
  BY <1>1, <1>2, <1>3, <1>4, <1>5, <1>6

\* Drive serves a request: only then does its content change.
LEMMA ServingKeepsInv ==
  ASSUME UploadInv, NEW r \in wire, NEW n \in Kept(r), Serve(r, n)
  PROVE  UploadInv'
<1>. USE UploadAssumption
<1>1. /\ r \in Requests /\ RequestOK(r) /\ wire \subseteq Requests /\ request \in Requests
      /\ stored \in 0..Size /\ sentThrough \in 0..Size /\ source \in 0..MaxEdits
      /\ session \in {"open", "complete"} /\ wire' = wire \ {r} /\ stored' = n
      /\ UNCHANGED <<source, pc, offset, failures, probing, sentThrough, request, resent, answer>>
  BY DEF UploadInv, UploadTypeOK, RequestsOK, Serve
<1>2. n \in 0..Size /\ stored <= n /\ n <= sentThrough
  BY <1>1 DEF Kept, Extends, Requests, RequestOK, UploadInv, ResumesWithoutGap
<1>3. session # "open" => n = stored /\ stored = Size
  BY <1>1 DEF Kept, Extends, UploadInv, SessionOK
<1>4. /\ versions' = IF n > stored THEN versions \union {r.version} ELSE versions
      /\ session' = IF n = Size THEN "complete" ELSE session
      /\ made' = IF session = "open" /\ n = Size THEN made + 1 ELSE made
  BY DEF Serve
<1>5. reply' \in Replies /\ (reply'.code = "range" => reply'.at <= n)
      /\ (reply'.code = "complete" => made' = 1)
  <2>1. CASE reply' = reply
    BY <2>1, <1>1, <1>2, <1>4 DEF UploadInv, UploadTypeOK, ReplyOK, SessionOK, Replies
  <2>2. CASE reply' \in {Short("fault"), Short("refused")}
    BY <2>2 DEF Short, Replies, Codes
  <2>3. CASE n = Size /\ reply' = Short("complete")
    BY <2>3, <1>1, <1>3, <1>4 DEF Short, Replies, Codes, UploadInv, SessionOK
  <2>4. CASE reply' = [code |-> "range", at |-> n]
    BY <2>4, <1>2 DEF Replies, Codes
  <2>. QED
    BY <2>1, <2>2, <2>3, <2>4 DEF Serve
<1>6. made' \in {0, 1} /\ (made' = 1 => n = Size) /\ (session' = "open" => made' = 0)
      /\ (session' = "complete" => made' = 1) /\ session' \in {"open", "complete"}
  BY <1>1, <1>3, <1>4 DEF UploadInv, SessionOK
<1>7. versions' \subseteq 0..MaxEdits /\ VersionsOK'
  BY <1>1, <1>4 DEF UploadInv, UploadTypeOK, VersionsOK, Requests, RequestOK
<1>8. UploadTypeOK'
  BY <1>1, <1>2, <1>5, <1>6, <1>7 DEF UploadInv, UploadTypeOK
<1>9. RequestsOK'
  BY <1>1 DEF UploadInv, RequestsOK, RequestOK
<1>10. ProgressOK' /\ SessionOK' /\ ReplyOK' /\ ResumesWithoutGap'
  BY <1>1, <1>2, <1>5, <1>6 DEF UploadInv, UploadTypeOK, ProgressOK, SessionOK, ReplyOK,
     ResumesWithoutGap
<1>11. AnswerOK'
  <2>1. made = 1 => versions' = versions /\ made' = 1
    BY <1>1, <1>3, <1>4 DEF UploadInv, SessionOK
  <2>. QED
    BY <2>1, <1>1 DEF UploadInv, AnswerOK
<1>. QED
  BY <1>7, <1>8, <1>9, <1>10, <1>11 DEF UploadInv

\* The other steps of Drive and the network, and edits.
LEMMA NetworkKeepsInv ==
  ASSUME UploadInv,
         \/ \E r \in wire, code \in {"fault", "unauthorized", "refused"} : TurnAway(r, code)
         \/ Timeout \/ SessionExpires \/ Edit
  PROVE  UploadInv'
<1>. USE UploadAssumption
<1>1. ASSUME NEW r \in wire, NEW code \in {"fault", "unauthorized", "refused"}, TurnAway(r, code)
      PROVE  UploadInv'
  BY <1>1 DEF TurnAway, Short, remote, Replies, Codes, UploadInv, UploadTypeOK, RequestsOK,
     RequestOK, ProgressOK, SessionOK, VersionsOK, ReplyOK, AnswerOK, ResumesWithoutGap
<1>2. CASE Timeout
  BY <1>2 DEF Timeout, Short, remote, Replies, Codes, UploadInv, UploadTypeOK, RequestsOK,
     RequestOK, ProgressOK, SessionOK, VersionsOK, ReplyOK, AnswerOK, ResumesWithoutGap
<1>3. CASE SessionExpires
  BY <1>3 DEF SessionExpires, call, UploadInv, UploadTypeOK, RequestsOK,
     RequestOK, ProgressOK, SessionOK, VersionsOK, ReplyOK, AnswerOK, ResumesWithoutGap
<1>4. CASE Edit
  <2>1. UNCHANGED <<call, wire, remote>> /\ source' = source + 1 /\ source' \in 0..MaxEdits
    BY <1>4 DEF Edit, UploadInv, UploadTypeOK
  <2>2. UploadTypeOK' /\ ProgressOK' /\ SessionOK' /\ ReplyOK' /\ AnswerOK' /\ ResumesWithoutGap'
    BY <2>1 DEF call, remote, UploadInv, UploadTypeOK, ProgressOK, SessionOK, ReplyOK, AnswerOK,
       ResumesWithoutGap
  <2>3. \A v \in 0..MaxEdits : v <= source => v <= source'
    BY <2>1 DEF UploadInv, UploadTypeOK
  <2>4. RequestsOK' /\ VersionsOK'
    BY <2>1, <2>3 DEF call, remote, UploadInv, UploadTypeOK, RequestsOK, RequestOK, VersionsOK,
       Requests
  <2>. QED
    BY <2>2, <2>4 DEF UploadInv
<1>. QED
  BY <1>1, <1>2, <1>3, <1>4

LEMMA NextKeepsInv == UploadInv /\ [UploadNext]_uploadVars => UploadInv'
<1>1. UploadInv /\ UNCHANGED uploadVars => UploadInv'
  BY DEF uploadVars, call, remote, UploadInv, UploadTypeOK, RequestsOK, RequestOK, ProgressOK, SessionOK,
     VersionsOK, ReplyOK, AnswerOK, ResumesWithoutGap
<1>2. UploadInv /\ UploadNext => UploadInv'
  BY OpeningKeepsInv, SendingKeepsInv, HearingKeepsInv, ServingKeepsInv, NetworkKeepsInv
     DEF UploadNext, CallStep, DriveStep
<1>. QED
  BY <1>1, <1>2

LEMMA UploadInvariant == UploadSpec => []UploadInv
BY InitInv, NextKeepsInv, PTL DEF UploadSpec

-----------------------------------------------------------------------------
\* Every variable of the upload keeps its type, for files and chunks of any size.
THEOREM UploadTypeCorrect == UploadSpec => []UploadTypeOK
<1>1. UploadInv => UploadTypeOK
  BY DEF UploadInv
<1>. QED
  BY <1>1, UploadInvariant, PTL

\* upload_file returns normally only when Drive has created the file from all
\* bytes of the version that was opened.
THEOREM SuccessMeansDelivered == UploadSpec => []SuccessIsWholeFile
<1>1. UploadInv => SuccessIsWholeFile
  BY DEF UploadInv, SuccessIsWholeFile, AnswerOK, SessionOK
<1>. QED
  BY <1>1, UploadInvariant, PTL

\* Neither a late request nor a partial acknowledgement makes the upload skip a byte.
THEOREM NoByteIsSkipped == UploadSpec => []ResumesWithoutGap
<1>1. UploadInv => ResumesWithoutGap
  BY DEF UploadInv
<1>. QED
  BY <1>1, UploadInvariant, PTL

\* One call of upload_file creates at most one file.
THEOREM NoDuplicateFile == UploadSpec => []AtMostOneFile
<1>1. UploadInv => AtMostOneFile
  BY DEF UploadInv, SessionOK, AtMostOneFile
<1>. QED
  BY <1>1, UploadInvariant, PTL

-----------------------------------------------------------------------------
\* Once the file is made its content stays, and it is made in one step.
LEMMA HoldsChangesOnce ==
  ASSUME UploadInv, UploadNext
  PROVE  Holds' = Holds \/ (Holds = "nothing" /\ Holds' \in {"whole", "mixed"} /\ answer' = answer)
<1>1. ASSUME NEW r \in wire, NEW n \in Kept(r), Serve(r, n)
      PROVE  Holds' = Holds \/ (Holds = "nothing" /\ Holds' \in {"whole", "mixed"} /\ answer' = answer)
  <2>1. made = 0 => Holds = "nothing"
    BY DEF Holds
  <2>2. made = 1 => session = "complete" \/ session = "gone"
    BY DEF UploadInv, UploadTypeOK, SessionOK
  <2>3. made = 1 => UNCHANGED <<made, versions>>
    BY <1>1, <2>2, UploadAssumption DEF Serve, Kept, Extends, UploadInv, UploadTypeOK
  <2>4. made \in {0, 1}
    BY DEF UploadInv, SessionOK
  <2>5. answer' = answer
    BY <1>1 DEF Serve
  <2>. QED
    BY <2>1, <2>3, <2>4, <2>5 DEF Holds
<1>2. CASE Open
  <2>1. made = 0 /\ made' = 0
    BY <1>2 DEF Open, UploadInv, ProgressOK, SessionOK
  <2>. QED
    BY <2>1 DEF Holds
<1>3. CASE UNCHANGED <<made, versions>>
  BY <1>3 DEF Holds
<1>4. \/ \E r \in wire : \E n \in Kept(r) : Serve(r, n)
      \/ Open
      \/ UNCHANGED <<made, versions>>
  BY DEF UploadNext, CallStep, DriveStep, OpenFails, OpenRefused, Verify, SendProbe, SendChunk, HearFault,
     RefreshToken, NoFreshToken, HearRefusal, HearCompletion, HearRange, TurnAway, Timeout, SessionExpires, Edit,
     remote
<1>. QED
  BY <1>1, <1>2, <1>3, <1>4

\* Answers are final; success is confirmed of a whole file, in a step of its own.
LEMMA AnswersOnce ==
  ASSUME UploadInv, UploadInv', UploadNext, answer' # answer
  PROVE  /\ answer = "pending" /\ Holds' = Holds
         /\ answer' = "error" \/ (answer' = "ok" /\ Holds = "whole")
<1>1. pc # "over" => answer = "pending"
  BY DEF UploadInv, UploadTypeOK
<1>2. pc # "over" /\ UNCHANGED <<made, versions>> /\ answer' \in {"ok", "error"}
  BY DEF UploadNext, CallStep, DriveStep, Open, OpenFails, OpenRefused, Retries, Ends, Verify, SendProbe,
     SendChunk, Sends, Hears, HearFault, RefreshToken, NoFreshToken, HearRefusal, Refused, HearCompletion,
     HearRange, Serve, TurnAway, Timeout, SessionExpires, Edit, remote, call
<1>3. Holds' = Holds
  BY <1>2 DEF Holds
<1>4. answer' = "ok" => Holds' = "whole"
  BY DEF UploadInv, AnswerOK, Holds
<1>. QED
  BY <1>1, <1>2, <1>3, <1>4

\* The upload implements the abstract promise of DriveDelivery.
THEOREM UploadImplementsDelivery == UploadSpec => Delivery!Spec
<1>1. UploadInit => Delivery!Init
  BY DEF UploadInit, Delivery!Init, Holds
<1>2. UploadInv /\ UploadInv' /\ [UploadNext]_uploadVars => [Delivery!Next]_<<Holds, answer>>
  <2>1. UNCHANGED uploadVars => UNCHANGED <<Holds, answer>>
    BY DEF uploadVars, call, remote, Holds
  <2>2. ASSUME UploadInv, UploadInv', UploadNext, answer' # answer
        PROVE  Delivery!Next
    BY <2>2, AnswersOnce DEF Delivery!Next, Delivery!Answer, Delivery!Confirm, Delivery!GiveUp
  <2>3. ASSUME UploadInv, UploadNext, answer' = answer
        PROVE  Delivery!Next \/ UNCHANGED <<Holds, answer>>
    BY <2>3, HoldsChangesOnce DEF Delivery!Next, Delivery!Appear, Delivery!Contents
  <2>. QED
    BY <2>1, <2>2, <2>3
<1>. QED
  BY <1>1, <1>2, UploadInvariant, PTL DEF UploadSpec, Delivery!Spec

-----------------------------------------------------------------------------
(* The connection.                                                          *)

\* A refresh works on the tokens as they are; an access token is of the account
\* of the refresh token, if there is one.
TokensOK ==
  /\ tokens.refresh \in {None, tokens.access}
  /\ \A u \in Uploaders :
       uploader[u].pc = "refresh" =>
         /\ uploader[u].read.pending = tokens.pending
         /\ uploader[u].read.refresh = tokens.refresh /\ tokens.refresh # None
         /\ uploader[u].read.access = tokens.access

\* A code is unused while its consent is pending, or consumed and on its way.
ConsentsOK ==
  /\ tokens.pending <= asked
  /\ \A k \in Consents :
       /\ exchanged[k] \in {0, 1}
       /\ k > asked \/ k = tokens.pending => exchanged[k] = 0
  /\ \A h \in Handlers :
       /\ handler[h].consent <= asked
       /\ handler[h].pc \in {"state", "contact", "folder", "connected"} =>
            handler[h].consent # None
       /\ At(h, "contact") => tokens.pending = None /\ exchanged[handler[h].consent] = 0

\* What a callback carries is newer than the last disconnection.
CallbacksAreLate ==
  \A h \in Handlers :
    handler[h].pc \in {"contact", "folder", "connected"} => handler[h].consent > ended

\* Between two saves of the sync section the folder found is the account's, and a
\* disconnection has left no token.
FolderOK ==
  /\ \A h \in Handlers :
       /\ At(h, "connected") /\ handler[h].folder # None /\ tokens.access # None =>
            handler[h].folder = tokens.access
       /\ At(h, "disconnected") => tokens.access = None
  /\ (\A h \in Handlers : handler[h].pc \notin {"folder", "connected", "disconnected"})
       /\ ~formed /\ ~faulted /\ memory.enabled /\ tokens.access # None =>
         memory.folder = tokens.access

LinkInv ==
  /\ LinkTypeOK /\ TokensOK /\ ConsentsOK /\ CallbacksAreLate /\ DisconnectionIsFinal
  /\ SyncStaysOff /\ FolderOK

-----------------------------------------------------------------------------
LEMMA Constants ==
  /\ None = 0 /\ Consents \subseteq Nat \ {0} /\ None \in Grant /\ Consents \subseteq Grant
  /\ None \notin Handlers /\ None \notin Uploaders /\ Handlers \intersect Uploaders = {}
  /\ Handlers \subseteq Threads /\ Uploaders \subseteq Threads
  /\ Disconnected \in Tokens /\ NoRequest \in Handler /\ NoUpload \in Uploader
<1>1. None = 0 /\ Consents \subseteq Nat \ {0} /\ None \in Grant /\ Consents \subseteq Grant
  BY LinkAssumption DEF Consents, None, Grant
<1>2. /\ None \notin Handlers /\ None \notin Uploaders /\ Handlers \intersect Uploaders = {}
      /\ Handlers \subseteq Threads /\ Uploaders \subseteq Threads
  BY LinkAssumption DEF Threads
<1>3. Disconnected \in Tokens /\ NoRequest \in Handler
  BY <1>1 DEF Disconnected, Tokens, NoRequest, Handler
<1>4. NoUpload \in Uploader
  BY <1>1, <1>3 DEF NoUpload, Uploader
<1>. QED
  BY <1>1, <1>2, <1>3, <1>4

\* A refresh keeps the account, or leaves no token; the pending consent stays.
LEMMA RefreshKeepsAccount ==
  ASSUME NEW t \in Tokens, t.refresh \in {None, t.access}, NEW t2 \in RefreshOf(t)
  PROVE  /\ t2 \in Tokens /\ t2.pending = t.pending
         /\ \/ t2.access = t.access /\ t2.refresh = t.refresh
            \/ t2.access = None /\ t2.refresh = None
<1>1. CASE t2 = Renewed(t) /\ t.refresh # None
  BY <1>1, Constants DEF Renewed, Tokens
<1>2. CASE t2 = Dropped(t)
  BY <1>2, Constants DEF Dropped, Disconnected, Tokens
<1>. QED
  BY <1>1, <1>2 DEF RefreshOf

LEMMA CountIsTyped ==
  ASSUME NEW counts \in [Consents -> Nat], NEW k \in Consents
  PROVE  [counts EXCEPT ![k] = @ + 1] \in [Consents -> Nat]
OBVIOUS

LEMMA InitLink == Init => LinkInv
<1>. SUFFICES ASSUME Init PROVE LinkInv
  OBVIOUS
<1>1. LinkTypeOK
  <2>1. tokens \in Tokens /\ {memory, disk, form} \subseteq Sync
    BY Constants DEF Init, Sync
  <2>2. handler \in [Handlers -> Handler] /\ uploader \in [Uploaders -> Uploader]
    BY Constants DEF Init
  <2>3. asked \in 0..MaxConsents /\ exchanged \in [Consents -> Nat] /\ live \subseteq Consents
        /\ ended \in 0..asked /\ events \in 0..MaxEvents
    BY LinkAssumption DEF Init
  <2>. QED
    BY <2>1, <2>2, <2>3, Constants DEF Init, LinkTypeOK, At, NoRequest, NoUpload
<1>2. TokensOK /\ CallbacksAreLate /\ DisconnectionIsFinal /\ SyncStaysOff
  BY Constants DEF Init, TokensOK, CallbacksAreLate, DisconnectionIsFinal, SyncStaysOff, NoRequest,
     NoUpload, Disconnected
<1>3. ConsentsOK /\ FolderOK
  BY Constants DEF Init, ConsentsOK, FolderOK, NoRequest, Disconnected, At
<1>. QED
  BY <1>1, <1>2, <1>3 DEF LinkInv

LEMMA AskConsentKeeps ==
  ASSUME LinkInv, NEW h \in Handlers, AskConsent(h)
  PROVE  LinkInv'
<1>. USE Constants DEF LinkInv, At
<1>0. asked + 1 \in Consents /\ asked + 1 \in Nat /\ ended < asked + 1 /\ asked < asked + 1
  BY LinkAssumption DEF AskConsent, LinkTypeOK, Consents
<1>1. LinkTypeOK'
  <2>1. /\ tokens' \in Tokens /\ {memory, disk, form}' \subseteq Sync
        /\ handler' \in [Handlers -> Handler] /\ uploader' \in [Uploaders -> Uploader]
    BY <1>0 DEF LinkTypeOK, AskConsent, locks, ghosts, Tokens
  <2>2. /\ asked' \in 0..MaxConsents /\ exchanged' \in [Consents -> Nat] /\ live' \subseteq Consents
        /\ ended' \in 0..asked' /\ events' \in 0..MaxEvents
        /\ off' \in BOOLEAN /\ formed' \in BOOLEAN /\ faulted' \in BOOLEAN
    BY LinkAssumption, <1>0 DEF LinkTypeOK, AskConsent, locks, ghosts
  <2>3. /\ lifecycle' \in Handlers \union {None} /\ tokenLock' \in Threads \union {None}
        /\ \A i \in Handlers : (lifecycle = i <=> ~At(i, "idle"))'
        /\ \A i \in Handlers : (tokenLock = i <=> (At(i, "contact") \/ At(i, "clear")))'
        /\ \A v \in Uploaders : (tokenLock = v <=> uploader[v].pc = "refresh")'
    BY <1>0 DEF LinkTypeOK, AskConsent, locks, ghosts
  <2>. QED
    BY <2>1, <2>2, <2>3 DEF LinkTypeOK
<1>2. TokensOK'
  BY <1>0 DEF TokensOK, LinkTypeOK, AskConsent, locks, ghosts, Tokens
<1>3. ConsentsOK'
  <2>1. tokens'.pending = asked' /\ asked' = asked + 1
    BY DEF AskConsent, LinkTypeOK, Tokens
  <2>2. \A k \in Consents : k > asked' \/ k = asked' => exchanged'[k] = 0
    BY <1>0, <2>1 DEF AskConsent, ConsentsOK, LinkTypeOK, Consents
  <2>3. \A i \in Handlers : ~At(i, "contact") /\ handler[i].consent \in Nat
    BY LinkAssumption DEF AskConsent, LinkTypeOK, Handler, Grant, Consents
  <2>. QED
    BY <1>0, <2>1, <2>2, <2>3 DEF AskConsent, ConsentsOK, LinkTypeOK
<1>4. DisconnectionIsFinal'
  BY <1>0 DEF DisconnectionIsFinal, LinkTypeOK, TokensOK, CallbacksAreLate, AskConsent, locks,
     ghosts, Tokens
<1>5. FolderOK'
  BY <1>0 DEF FolderOK, LinkTypeOK, TokensOK, AskConsent, locks, ghosts, Tokens
<1>6. CallbacksAreLate' /\ SyncStaysOff'
  BY DEF CallbacksAreLate, SyncStaysOff, AskConsent, locks, ghosts
<1>. QED
  BY <1>1, <1>2, <1>3, <1>4, <1>5, <1>6

LEMMA CallbackKeeps ==
  ASSUME LinkInv, NEW h \in Handlers, NEW k \in Consents, Callback(h, k)
  PROVE  LinkInv'
<1>. USE Constants DEF LinkInv, At
<1>1. LinkTypeOK'
  <2>1. /\ tokens' \in Tokens /\ {memory, disk, form}' \subseteq Sync
        /\ handler' \in [Handlers -> Handler] /\ uploader' \in [Uploaders -> Uploader]
    BY DEF LinkTypeOK, Callback, google, ghosts, Handler
  <2>2. /\ asked' \in 0..MaxConsents /\ exchanged' \in [Consents -> Nat] /\ live' \subseteq Consents
        /\ ended' \in 0..asked' /\ events' \in 0..MaxEvents
        /\ off' \in BOOLEAN /\ formed' \in BOOLEAN /\ faulted' \in BOOLEAN
    BY LinkAssumption DEF LinkTypeOK, Callback, google, ghosts
  <2>3. /\ lifecycle' \in Handlers \union {None} /\ tokenLock' \in Threads \union {None}
        /\ \A i \in Handlers : (lifecycle = i <=> ~At(i, "idle"))'
        /\ \A i \in Handlers : (tokenLock = i <=> (At(i, "contact") \/ At(i, "clear")))'
        /\ \A v \in Uploaders : (tokenLock = v <=> uploader[v].pc = "refresh")'
    BY DEF LinkTypeOK, Callback, google, ghosts
  <2>. QED
    BY <2>1, <2>2, <2>3 DEF LinkTypeOK
<1>2. ConsentsOK'
  BY DEF ConsentsOK, LinkTypeOK, Callback, google, ghosts, Handler
<1>3. CallbacksAreLate'
  BY DEF CallbacksAreLate, LinkTypeOK, ConsentsOK, DisconnectionIsFinal, Callback, google, ghosts,
     Handler
<1>4. FolderOK'
  BY DEF FolderOK, LinkTypeOK, TokensOK, Callback, google, ghosts, Handler
<1>5. TokensOK' /\ DisconnectionIsFinal' /\ SyncStaysOff'
  BY DEF TokensOK, DisconnectionIsFinal, SyncStaysOff, Callback, google, ghosts
<1>. QED
  BY <1>1, <1>2, <1>3, <1>4, <1>5

LEMMA RefuseStateKeeps ==
  ASSUME LinkInv, NEW h \in Handlers, RefuseState(h)
  PROVE  LinkInv'
<1>. USE Constants DEF LinkInv, At
<1>1. LinkTypeOK'
  <2>1. /\ tokens' \in Tokens /\ {memory, disk, form}' \subseteq Sync
        /\ handler' \in [Handlers -> Handler] /\ uploader' \in [Uploaders -> Uploader]
    BY DEF LinkTypeOK, RefuseState, Finish, google, ghosts, Handler
  <2>2. /\ asked' \in 0..MaxConsents /\ exchanged' \in [Consents -> Nat] /\ live' \subseteq Consents
        /\ ended' \in 0..asked' /\ events' \in 0..MaxEvents
        /\ off' \in BOOLEAN /\ formed' \in BOOLEAN /\ faulted' \in BOOLEAN
    BY LinkAssumption DEF LinkTypeOK, RefuseState, Finish, google, ghosts
  <2>3. /\ lifecycle' \in Handlers \union {None} /\ tokenLock' \in Threads \union {None}
        /\ \A i \in Handlers : (lifecycle = i <=> ~At(i, "idle"))'
        /\ \A i \in Handlers : (tokenLock = i <=> (At(i, "contact") \/ At(i, "clear")))'
        /\ \A v \in Uploaders : (tokenLock = v <=> uploader[v].pc = "refresh")'
    BY DEF LinkTypeOK, RefuseState, Finish, google, ghosts, NoRequest
  <2>. QED
    BY <2>1, <2>2, <2>3 DEF LinkTypeOK
<1>2. ConsentsOK'
  BY DEF ConsentsOK, LinkTypeOK, RefuseState, Finish, google, ghosts, Handler, NoRequest
<1>3. CallbacksAreLate'
  BY DEF CallbacksAreLate, LinkTypeOK, ConsentsOK, DisconnectionIsFinal, RefuseState, Finish, google,
     ghosts, Handler, NoRequest
<1>4. FolderOK'
  BY DEF FolderOK, LinkTypeOK, TokensOK, RefuseState, Finish, google, ghosts, Handler, NoRequest
<1>5. TokensOK' /\ DisconnectionIsFinal' /\ SyncStaysOff'
  BY DEF TokensOK, DisconnectionIsFinal, SyncStaysOff, RefuseState, Finish, google, ghosts
<1>. QED
  BY <1>1, <1>2, <1>3, <1>4, <1>5

LEMMA ConsumeStateKeeps ==
  ASSUME LinkInv, NEW h \in Handlers, ConsumeState(h)
  PROVE  LinkInv'
<1>. USE Constants DEF LinkInv, At
<1>1. LinkTypeOK'
  <2>1. /\ tokens' \in Tokens /\ {memory, disk, form}' \subseteq Sync
        /\ handler' \in [Handlers -> Handler] /\ uploader' \in [Uploaders -> Uploader]
    BY DEF LinkTypeOK, ConsumeState, Finish, Goto, Consumed, google, ghosts, Tokens, Handler
  <2>2. /\ asked' \in 0..MaxConsents /\ exchanged' \in [Consents -> Nat] /\ live' \subseteq Consents
        /\ ended' \in 0..asked' /\ events' \in 0..MaxEvents
        /\ off' \in BOOLEAN /\ formed' \in BOOLEAN /\ faulted' \in BOOLEAN
    BY LinkAssumption DEF LinkTypeOK, ConsumeState, Finish, Goto, Consumed, google, ghosts
  <2>3. /\ lifecycle' \in Handlers \union {None} /\ tokenLock' \in Threads \union {None}
        /\ \A i \in Handlers : (lifecycle = i <=> ~At(i, "idle"))'
        /\ \A i \in Handlers : (tokenLock = i <=> (At(i, "contact") \/ At(i, "clear")))'
        /\ \A v \in Uploaders : (tokenLock = v <=> uploader[v].pc = "refresh")'
    <3>1. CASE tokenLock' = h /\ Goto(h, "contact") /\ UNCHANGED lifecycle
      BY <3>1 DEF LinkTypeOK, ConsumeState, Goto, google, ghosts, Handler
    <3>2. CASE Finish(h) /\ UNCHANGED tokenLock
      BY <3>2 DEF LinkTypeOK, ConsumeState, Finish, google, ghosts, NoRequest
    <3>. QED
      BY <3>1, <3>2 DEF ConsumeState
  <2>. QED
    BY <2>1, <2>2, <2>3 DEF LinkTypeOK
<1>2. TokensOK'
  BY DEF TokensOK, LinkTypeOK, ConsumeState, Finish, Goto, Consumed, google, ghosts, Tokens,
     NoRequest
<1>3. ConsentsOK'
  <2>1. tokens'.pending = None /\ exchanged[handler[h].consent] = 0
    BY DEF ConsumeState, ConsentsOK, LinkTypeOK, Consumed, Tokens, Handler, Grant
  <2>2. asked \in Nat /\ \A i \in Handlers : handler[i].consent \in Nat
    BY LinkAssumption DEF LinkTypeOK, Handler, Grant, Consents
  <2>3. \A i \in Handlers : At(i, "contact") => i = h
    BY DEF LinkTypeOK, ConsumeState
  <2>4. CASE Goto(h, "contact")
    BY <2>1, <2>2, <2>3, <2>4 DEF ConsentsOK, LinkTypeOK, ConsumeState, Goto, google, Handler
  <2>5. CASE Finish(h)
    BY <2>1, <2>2, <2>3, <2>5 DEF ConsentsOK, LinkTypeOK, ConsumeState, Finish, google, NoRequest
  <2>. QED
    BY <2>4, <2>5 DEF ConsumeState
<1>4. CallbacksAreLate'
  BY DEF CallbacksAreLate, LinkTypeOK, ConsentsOK, DisconnectionIsFinal, ConsumeState, Finish, Goto,
     Consumed, google, ghosts, Handler, NoRequest
<1>5. DisconnectionIsFinal'
  BY DEF DisconnectionIsFinal, LinkTypeOK, TokensOK, CallbacksAreLate, ConsumeState, Finish, Goto,
     Consumed, google, ghosts, Tokens, NoRequest
<1>6. FolderOK'
  BY DEF FolderOK, LinkTypeOK, TokensOK, ConsumeState, Finish, Goto, Consumed, google, ghosts,
     Tokens, Handler, NoRequest
<1>7. SyncStaysOff'
  BY DEF SyncStaysOff, ConsumeState, Finish, Goto, Consumed, google, ghosts
<1>. QED
  BY <1>1, <1>2, <1>3, <1>4, <1>5, <1>6, <1>7

LEMMA ExchangeCodeKeeps ==
  ASSUME LinkInv, NEW h \in Handlers, ExchangeCode(h)
  PROVE  LinkInv'
<1>. USE Constants DEF LinkInv, At
<1>0. handler[h].consent \in Consents
  BY DEF LinkTypeOK, ConsentsOK, Handler, Grant, ExchangeCode
<1>1. LinkTypeOK'
  <2>1. /\ tokens' \in Tokens /\ {memory, disk, form}' \subseteq Sync
        /\ handler' \in [Handlers -> Handler] /\ uploader' \in [Uploaders -> Uploader]
    BY <1>0 DEF LinkTypeOK, ExchangeCode, Goto, Contacted, IssuedRefresh, ghosts, Tokens, Handler
  <2>2. /\ asked' \in 0..MaxConsents /\ exchanged' \in [Consents -> Nat] /\ live' \subseteq Consents
        /\ ended' \in 0..asked' /\ events' \in 0..MaxEvents
        /\ off' \in BOOLEAN /\ formed' \in BOOLEAN /\ faulted' \in BOOLEAN
    BY LinkAssumption, <1>0 DEF LinkTypeOK, ExchangeCode, Goto, Contacted, IssuedRefresh, ghosts
  <2>3. /\ lifecycle' \in Handlers \union {None} /\ tokenLock' \in Threads \union {None}
        /\ \A i \in Handlers : (lifecycle = i <=> ~At(i, "idle"))'
        /\ \A i \in Handlers : (tokenLock = i <=> (At(i, "contact") \/ At(i, "clear")))'
        /\ \A v \in Uploaders : (tokenLock = v <=> uploader[v].pc = "refresh")'
    BY <1>0 DEF LinkTypeOK, ExchangeCode, Goto, Contacted, IssuedRefresh, ghosts
  <2>. QED
    BY <2>1, <2>2, <2>3 DEF LinkTypeOK
<1>2. TokensOK'
  BY <1>0 DEF TokensOK, LinkTypeOK, ExchangeCode, Goto, Contacted, IssuedRefresh, ghosts, Tokens
<1>3. ConsentsOK'
  BY <1>0 DEF ConsentsOK, LinkTypeOK, ExchangeCode, Goto, Contacted, IssuedRefresh, ghosts, Tokens,
     Handler
<1>4. CallbacksAreLate'
  BY <1>0 DEF CallbacksAreLate, LinkTypeOK, ConsentsOK, DisconnectionIsFinal, ExchangeCode, Goto,
     Contacted, IssuedRefresh, ghosts, Handler
<1>5. DisconnectionIsFinal'
  BY <1>0 DEF DisconnectionIsFinal, LinkTypeOK, TokensOK, CallbacksAreLate, ExchangeCode, Goto,
     Contacted, IssuedRefresh, ghosts, Tokens
<1>6. FolderOK'
  BY <1>0 DEF FolderOK, LinkTypeOK, TokensOK, ExchangeCode, Goto, Contacted, IssuedRefresh, ghosts,
     Tokens, Handler
<1>7. SyncStaysOff'
  BY DEF SyncStaysOff, ExchangeCode, Goto, Contacted, IssuedRefresh, ghosts
<1>. QED
  BY <1>1, <1>2, <1>3, <1>4, <1>5, <1>6, <1>7

LEMMA ExchangeFailsKeeps ==
  ASSUME LinkInv, NEW h \in Handlers, ExchangeFails(h)
  PROVE  LinkInv'
<1>. USE Constants DEF LinkInv, At
<1>0. handler[h].consent \in Consents
  BY DEF LinkTypeOK, ConsentsOK, Handler, Grant, ExchangeFails
<1>1. LinkTypeOK'
  <2>1. /\ tokens' \in Tokens /\ {memory, disk, form}' \subseteq Sync
        /\ handler' \in [Handlers -> Handler] /\ uploader' \in [Uploaders -> Uploader]
    BY <1>0 DEF LinkTypeOK, ExchangeFails, Finish, Contacted, ghosts, Handler
  <2>2. /\ asked' \in 0..MaxConsents /\ exchanged' \in [Consents -> Nat] /\ live' \subseteq Consents
        /\ ended' \in 0..asked' /\ events' \in 0..MaxEvents
        /\ off' \in BOOLEAN /\ formed' \in BOOLEAN /\ faulted' \in BOOLEAN
    <3>1. exchanged' \in [Consents -> Nat]
      BY <1>0, CountIsTyped DEF LinkTypeOK, ExchangeFails, Contacted
    <3>2. live' \subseteq Consents
      BY <1>0 DEF LinkTypeOK, ExchangeFails
    <3>. QED
      BY <3>1, <3>2 DEF LinkTypeOK, ExchangeFails, ghosts
  <2>3. /\ lifecycle' \in Handlers \union {None} /\ tokenLock' \in Threads \union {None}
        /\ \A i \in Handlers : (lifecycle = i <=> ~At(i, "idle"))'
        /\ \A i \in Handlers : (tokenLock = i <=> (At(i, "contact") \/ At(i, "clear")))'
        /\ \A v \in Uploaders : (tokenLock = v <=> uploader[v].pc = "refresh")'
    BY <1>0 DEF LinkTypeOK, ExchangeFails, Finish, Contacted, ghosts, NoRequest
  <2>. QED
    BY <2>1, <2>2, <2>3 DEF LinkTypeOK
<1>2. ConsentsOK'
  BY <1>0 DEF ConsentsOK, LinkTypeOK, ExchangeFails, Finish, Contacted, ghosts, Handler, NoRequest
<1>3. CallbacksAreLate'
  BY <1>0 DEF CallbacksAreLate, LinkTypeOK, ConsentsOK, DisconnectionIsFinal, ExchangeFails, Finish,
     Contacted, ghosts, Handler, NoRequest
<1>4. FolderOK'
  BY <1>0 DEF FolderOK, LinkTypeOK, TokensOK, ExchangeFails, Finish, Contacted, ghosts, Handler,
     NoRequest
<1>5. TokensOK' /\ DisconnectionIsFinal' /\ SyncStaysOff'
  BY DEF TokensOK, DisconnectionIsFinal, SyncStaysOff, ExchangeFails, Finish, Contacted, ghosts
<1>. QED
  BY <1>1, <1>2, <1>3, <1>4, <1>5

LEMMA FindFolderKeeps ==
  ASSUME LinkInv, NEW h \in Handlers, FindFolder(h)
  PROVE  LinkInv'
<1>. USE Constants DEF LinkInv, At
<1>0. /\ tokens' \in Tokens /\ tokens'.pending = tokens.pending
      /\ \/ tokens'.access = tokens.access /\ tokens'.refresh = tokens.refresh
         \/ tokens'.access = None /\ tokens'.refresh = None
  BY RefreshKeepsAccount DEF LinkTypeOK, TokensOK, Uploader, FindFolder
<1>1. LinkTypeOK'
  <2>1. /\ tokens' \in Tokens /\ {memory, disk, form}' \subseteq Sync
        /\ handler' \in [Handlers -> Handler] /\ uploader' \in [Uploaders -> Uploader]
    <3>1. PICK found \in {None, tokens'.access} :
             handler' = [handler EXCEPT ![h] = [pc |-> "connected", consent |-> @.consent,
                                                folder |-> found]]
      BY DEF FindFolder
    <3>2. found \in Grant
      BY <1>0, <3>1 DEF Tokens
    <3>3. handler' \in [Handlers -> Handler]
      BY <3>1, <3>2 DEF LinkTypeOK, Handler
    <3>. QED
      BY <1>0, <3>3 DEF LinkTypeOK, FindFolder
  <2>2. /\ asked' \in 0..MaxConsents /\ exchanged' \in [Consents -> Nat] /\ live' \subseteq Consents
        /\ ended' \in 0..asked' /\ events' \in 0..MaxEvents
        /\ off' \in BOOLEAN /\ formed' \in BOOLEAN /\ faulted' \in BOOLEAN
    BY LinkAssumption, <1>0 DEF LinkTypeOK, FindFolder, locks, google, ghosts
  <2>3. /\ lifecycle' \in Handlers \union {None} /\ tokenLock' \in Threads \union {None}
        /\ \A i \in Handlers : (lifecycle = i <=> ~At(i, "idle"))'
        /\ \A i \in Handlers : (tokenLock = i <=> (At(i, "contact") \/ At(i, "clear")))'
        /\ \A v \in Uploaders : (tokenLock = v <=> uploader[v].pc = "refresh")'
    BY <1>0 DEF LinkTypeOK, FindFolder, locks, google, ghosts
  <2>. QED
    BY <2>1, <2>2, <2>3 DEF LinkTypeOK
<1>2. TokensOK'
  BY <1>0 DEF TokensOK, LinkTypeOK, FindFolder, locks, google, ghosts, Tokens
<1>3. ConsentsOK'
  BY <1>0 DEF ConsentsOK, LinkTypeOK, FindFolder, locks, google, ghosts, Tokens, Handler
<1>4. CallbacksAreLate'
  BY <1>0 DEF CallbacksAreLate, LinkTypeOK, ConsentsOK, DisconnectionIsFinal, FindFolder, locks,
     google, ghosts, Handler
<1>5. DisconnectionIsFinal'
  BY <1>0 DEF DisconnectionIsFinal, LinkTypeOK, TokensOK, CallbacksAreLate, FindFolder, locks,
     google, ghosts, Tokens
<1>6. FolderOK'
  BY <1>0 DEF FolderOK, LinkTypeOK, TokensOK, FindFolder, locks, google, ghosts, Tokens, Handler
<1>7. SyncStaysOff'
  BY DEF SyncStaysOff, FindFolder, locks, google, ghosts
<1>. QED
  BY <1>1, <1>2, <1>3, <1>4, <1>5, <1>6, <1>7

LEMMA SaveConnectedKeeps ==
  ASSUME LinkInv, NEW h \in Handlers, SaveConnected(h)
  PROVE  LinkInv'
<1>. USE Constants DEF LinkInv, At
<1>1. LinkTypeOK'
  <2>1. /\ tokens' \in Tokens /\ {memory, disk, form}' \subseteq Sync
        /\ handler' \in [Handlers -> Handler] /\ uploader' \in [Uploaders -> Uploader]
    BY DEF LinkTypeOK, SaveConnected, Finish, SyncEnabled, google, Handler, Sync
  <2>2. /\ asked' \in 0..MaxConsents /\ exchanged' \in [Consents -> Nat] /\ live' \subseteq Consents
        /\ ended' \in 0..asked' /\ events' \in 0..MaxEvents
        /\ off' \in BOOLEAN /\ formed' \in BOOLEAN /\ faulted' \in BOOLEAN
    BY LinkAssumption DEF LinkTypeOK, SaveConnected, Finish, SyncEnabled, google
  <2>3. /\ lifecycle' \in Handlers \union {None} /\ tokenLock' \in Threads \union {None}
        /\ \A i \in Handlers : (lifecycle = i <=> ~At(i, "idle"))'
        /\ \A i \in Handlers : (tokenLock = i <=> (At(i, "contact") \/ At(i, "clear")))'
        /\ \A v \in Uploaders : (tokenLock = v <=> uploader[v].pc = "refresh")'
    BY DEF LinkTypeOK, SaveConnected, Finish, SyncEnabled, google, NoRequest
  <2>. QED
    BY <2>1, <2>2, <2>3 DEF LinkTypeOK
<1>2. ConsentsOK'
  BY DEF ConsentsOK, LinkTypeOK, SaveConnected, Finish, SyncEnabled, google, Handler, NoRequest
<1>3. CallbacksAreLate'
  BY DEF CallbacksAreLate, LinkTypeOK, ConsentsOK, DisconnectionIsFinal, SaveConnected, Finish,
     SyncEnabled, google, Handler, NoRequest
<1>4. SyncStaysOff'
  <2>1. handler[h].consent \in Nat /\ ended \in Nat /\ handler[h].consent > ended
    BY LinkAssumption DEF SaveConnected, CallbacksAreLate, LinkTypeOK, Handler, Grant, Consents
  <2>2. ~(handler[h].consent <= ended)
    BY <2>1
  <2>3. off' = FALSE
    BY <2>2 DEF SaveConnected
  <2>. QED
    BY <2>3 DEF SyncStaysOff
<1>5. FolderOK'
  BY DEF FolderOK, LinkTypeOK, TokensOK, SaveConnected, Finish, SyncEnabled, google, Handler, Sync,
     NoRequest
<1>6. TokensOK' /\ DisconnectionIsFinal'
  BY DEF TokensOK, DisconnectionIsFinal, SaveConnected, Finish, SyncEnabled, google
<1>. QED
  BY <1>1, <1>2, <1>3, <1>4, <1>5, <1>6

LEMMA SaveFailsKeeps ==
  ASSUME LinkInv, NEW h \in Handlers, SaveFails(h)
  PROVE  LinkInv'
<1>. USE Constants DEF LinkInv, At
<1>1. LinkTypeOK'
  <2>1. /\ tokens' \in Tokens /\ {memory, disk, form}' \subseteq Sync
        /\ handler' \in [Handlers -> Handler] /\ uploader' \in [Uploaders -> Uploader]
    BY DEF LinkTypeOK, SaveFails, Finish, Fault, OneMore, google, Handler
  <2>2. /\ asked' \in 0..MaxConsents /\ exchanged' \in [Consents -> Nat] /\ live' \subseteq Consents
        /\ ended' \in 0..asked' /\ events' \in 0..MaxEvents
        /\ off' \in BOOLEAN /\ formed' \in BOOLEAN /\ faulted' \in BOOLEAN
    BY LinkAssumption DEF LinkTypeOK, SaveFails, Finish, Fault, OneMore, google
  <2>3. /\ lifecycle' \in Handlers \union {None} /\ tokenLock' \in Threads \union {None}
        /\ \A i \in Handlers : (lifecycle = i <=> ~At(i, "idle"))'
        /\ \A i \in Handlers : (tokenLock = i <=> (At(i, "contact") \/ At(i, "clear")))'
        /\ \A v \in Uploaders : (tokenLock = v <=> uploader[v].pc = "refresh")'
    BY DEF LinkTypeOK, SaveFails, Finish, Fault, OneMore, google, NoRequest
  <2>. QED
    BY <2>1, <2>2, <2>3 DEF LinkTypeOK
<1>2. ConsentsOK'
  BY DEF ConsentsOK, LinkTypeOK, SaveFails, Finish, Fault, OneMore, google, Handler, NoRequest
<1>3. CallbacksAreLate'
  BY DEF CallbacksAreLate, LinkTypeOK, ConsentsOK, DisconnectionIsFinal, SaveFails, Finish, Fault,
     OneMore, google, Handler, NoRequest
<1>4. FolderOK'
  BY DEF FolderOK, LinkTypeOK, TokensOK, SaveFails, Finish, Fault, OneMore, google, Handler,
     NoRequest
<1>5. TokensOK' /\ DisconnectionIsFinal' /\ SyncStaysOff'
  BY DEF TokensOK, DisconnectionIsFinal, SyncStaysOff, SaveFails, Finish, Fault, OneMore, google
<1>. QED
  BY <1>1, <1>2, <1>3, <1>4, <1>5

LEMMA DisconnectKeeps ==
  ASSUME LinkInv, NEW h \in Handlers, Disconnect(h)
  PROVE  LinkInv'
<1>. USE Constants DEF LinkInv, At
<1>1. LinkTypeOK'
  <2>1. /\ tokens' \in Tokens /\ {memory, disk, form}' \subseteq Sync
        /\ handler' \in [Handlers -> Handler] /\ uploader' \in [Uploaders -> Uploader]
    BY DEF LinkTypeOK, Disconnect, DisconnectAdmitted, Goto, google, ghosts, Handler
  <2>2. /\ asked' \in 0..MaxConsents /\ exchanged' \in [Consents -> Nat] /\ live' \subseteq Consents
        /\ ended' \in 0..asked' /\ events' \in 0..MaxEvents
        /\ off' \in BOOLEAN /\ formed' \in BOOLEAN /\ faulted' \in BOOLEAN
    BY LinkAssumption DEF LinkTypeOK, Disconnect, DisconnectAdmitted, Goto, google, ghosts
  <2>3. /\ lifecycle' \in Handlers \union {None} /\ tokenLock' \in Threads \union {None}
        /\ \A i \in Handlers : (lifecycle = i <=> ~At(i, "idle"))'
        /\ \A i \in Handlers : (tokenLock = i <=> (At(i, "contact") \/ At(i, "clear")))'
        /\ \A v \in Uploaders : (tokenLock = v <=> uploader[v].pc = "refresh")'
    BY DEF LinkTypeOK, Disconnect, DisconnectAdmitted, Goto, google, ghosts, Handler
  <2>. QED
    BY <2>1, <2>2, <2>3 DEF LinkTypeOK
<1>2. ConsentsOK'
  BY DEF ConsentsOK, LinkTypeOK, Disconnect, DisconnectAdmitted, Goto, google, ghosts, Handler,
     Disconnected
<1>3. CallbacksAreLate'
  BY DEF CallbacksAreLate, LinkTypeOK, ConsentsOK, DisconnectionIsFinal, Disconnect,
     DisconnectAdmitted, Goto, google, ghosts, Handler, Disconnected
<1>4. FolderOK'
  BY DEF FolderOK, LinkTypeOK, TokensOK, Disconnect, DisconnectAdmitted, Goto, google, ghosts,
     Handler, Disconnected
<1>5. TokensOK' /\ DisconnectionIsFinal' /\ SyncStaysOff'
  BY DEF TokensOK, DisconnectionIsFinal, SyncStaysOff, Disconnect, DisconnectAdmitted, Goto, google,
     ghosts
<1>. QED
  BY <1>1, <1>2, <1>3, <1>4, <1>5

LEMMA RevokeKeeps ==
  ASSUME LinkInv, NEW h \in Handlers, Revoke(h)
  PROVE  LinkInv'
<1>. USE Constants DEF LinkInv, At
<1>1. LinkTypeOK'
  <2>1. /\ tokens' \in Tokens /\ {memory, disk, form}' \subseteq Sync
        /\ handler' \in [Handlers -> Handler] /\ uploader' \in [Uploaders -> Uploader]
    BY DEF LinkTypeOK, Revoke, Goto, ghosts, Handler
  <2>2. /\ asked' \in 0..MaxConsents /\ exchanged' \in [Consents -> Nat] /\ live' \subseteq Consents
        /\ ended' \in 0..asked' /\ events' \in 0..MaxEvents
        /\ off' \in BOOLEAN /\ formed' \in BOOLEAN /\ faulted' \in BOOLEAN
    BY LinkAssumption DEF LinkTypeOK, Revoke, Goto, ghosts
  <2>3. /\ lifecycle' \in Handlers \union {None} /\ tokenLock' \in Threads \union {None}
        /\ \A i \in Handlers : (lifecycle = i <=> ~At(i, "idle"))'
        /\ \A i \in Handlers : (tokenLock = i <=> (At(i, "contact") \/ At(i, "clear")))'
        /\ \A v \in Uploaders : (tokenLock = v <=> uploader[v].pc = "refresh")'
    BY DEF LinkTypeOK, Revoke, Goto, ghosts
  <2>. QED
    BY <2>1, <2>2, <2>3 DEF LinkTypeOK
<1>2. ConsentsOK'
  BY DEF ConsentsOK, LinkTypeOK, Revoke, Goto, ghosts, Handler
<1>3. CallbacksAreLate'
  BY DEF CallbacksAreLate, LinkTypeOK, ConsentsOK, DisconnectionIsFinal, Revoke, Goto, ghosts,
     Handler
<1>4. FolderOK'
  BY DEF FolderOK, LinkTypeOK, TokensOK, Revoke, Goto, ghosts, Handler
<1>5. TokensOK' /\ DisconnectionIsFinal' /\ SyncStaysOff'
  BY DEF TokensOK, DisconnectionIsFinal, SyncStaysOff, Revoke, Goto, ghosts
<1>. QED
  BY <1>1, <1>2, <1>3, <1>4, <1>5

LEMMA ClearTokensKeeps ==
  ASSUME LinkInv, NEW h \in Handlers, ClearTokens(h)
  PROVE  LinkInv'
<1>. USE Constants DEF LinkInv, At
<1>1. LinkTypeOK'
  <2>1. /\ tokens' \in Tokens /\ {memory, disk, form}' \subseteq Sync
        /\ handler' \in [Handlers -> Handler] /\ uploader' \in [Uploaders -> Uploader]
    BY DEF LinkTypeOK, ClearTokens, Goto, google, Tokens, Handler
  <2>2. /\ asked' \in 0..MaxConsents /\ exchanged' \in [Consents -> Nat] /\ live' \subseteq Consents
        /\ ended' \in 0..asked' /\ events' \in 0..MaxEvents
        /\ off' \in BOOLEAN /\ formed' \in BOOLEAN /\ faulted' \in BOOLEAN
    BY LinkAssumption DEF LinkTypeOK, ClearTokens, Goto, google
  <2>3. /\ lifecycle' \in Handlers \union {None} /\ tokenLock' \in Threads \union {None}
        /\ \A i \in Handlers : (lifecycle = i <=> ~At(i, "idle"))'
        /\ \A i \in Handlers : (tokenLock = i <=> (At(i, "contact") \/ At(i, "clear")))'
        /\ \A v \in Uploaders : (tokenLock = v <=> uploader[v].pc = "refresh")'
    BY DEF LinkTypeOK, ClearTokens, Goto, google
  <2>. QED
    BY <2>1, <2>2, <2>3 DEF LinkTypeOK
<1>2. TokensOK'
  BY DEF TokensOK, LinkTypeOK, ClearTokens, Goto, google, Tokens, Disconnected
<1>3. ConsentsOK'
  BY DEF ConsentsOK, LinkTypeOK, ClearTokens, Goto, google, Tokens, Handler, Disconnected
<1>4. CallbacksAreLate'
  BY DEF CallbacksAreLate, LinkTypeOK, ConsentsOK, DisconnectionIsFinal, ClearTokens, Goto, google,
     Handler, Disconnected
<1>5. DisconnectionIsFinal'
  BY DEF DisconnectionIsFinal, LinkTypeOK, TokensOK, CallbacksAreLate, ClearTokens, Goto, google,
     Tokens, Disconnected
<1>6. FolderOK'
  BY DEF FolderOK, LinkTypeOK, TokensOK, ClearTokens, Goto, google, Tokens, Handler, Disconnected
<1>7. SyncStaysOff'
  BY DEF SyncStaysOff, ClearTokens, Goto, google
<1>. QED
  BY <1>1, <1>2, <1>3, <1>4, <1>5, <1>6, <1>7

LEMMA SaveDisconnectedKeeps ==
  ASSUME LinkInv, NEW h \in Handlers, SaveDisconnected(h)
  PROVE  LinkInv'
<1>. USE Constants DEF LinkInv, At
<1>1. LinkTypeOK'
  <2>1. /\ tokens' \in Tokens /\ {memory, disk, form}' \subseteq Sync
        /\ handler' \in [Handlers -> Handler] /\ uploader' \in [Uploaders -> Uploader]
    BY DEF LinkTypeOK, SaveDisconnected, Finish, google, Handler, Sync
  <2>2. /\ asked' \in 0..MaxConsents /\ exchanged' \in [Consents -> Nat] /\ live' \subseteq Consents
        /\ ended' \in 0..asked' /\ events' \in 0..MaxEvents
        /\ off' \in BOOLEAN /\ formed' \in BOOLEAN /\ faulted' \in BOOLEAN
    BY LinkAssumption DEF LinkTypeOK, SaveDisconnected, Finish, google
  <2>3. /\ lifecycle' \in Handlers \union {None} /\ tokenLock' \in Threads \union {None}
        /\ \A i \in Handlers : (lifecycle = i <=> ~At(i, "idle"))'
        /\ \A i \in Handlers : (tokenLock = i <=> (At(i, "contact") \/ At(i, "clear")))'
        /\ \A v \in Uploaders : (tokenLock = v <=> uploader[v].pc = "refresh")'
    BY DEF LinkTypeOK, SaveDisconnected, Finish, google, NoRequest
  <2>. QED
    BY <2>1, <2>2, <2>3 DEF LinkTypeOK
<1>2. ConsentsOK'
  BY DEF ConsentsOK, LinkTypeOK, SaveDisconnected, Finish, google, Handler, NoRequest
<1>3. CallbacksAreLate'
  BY DEF CallbacksAreLate, LinkTypeOK, ConsentsOK, DisconnectionIsFinal, SaveDisconnected, Finish,
     google, Handler, NoRequest
<1>4. SyncStaysOff'
  BY DEF SyncStaysOff, CallbacksAreLate, SaveDisconnected, Finish, google, Sync, NoRequest
<1>5. FolderOK'
  BY DEF FolderOK, LinkTypeOK, TokensOK, SaveDisconnected, Finish, google, Handler, Sync, NoRequest
<1>6. TokensOK' /\ DisconnectionIsFinal'
  BY DEF TokensOK, DisconnectionIsFinal, SaveDisconnected, Finish, google
<1>. QED
  BY <1>1, <1>2, <1>3, <1>4, <1>5, <1>6

LEMMA BeginUploadKeeps ==
  ASSUME LinkInv, NEW u \in Uploaders, BeginUpload(u)
  PROVE  LinkInv'
<1>. USE Constants DEF LinkInv, At
<1>1. LinkTypeOK'
  <2>1. /\ tokens' \in Tokens /\ {memory, disk, form}' \subseteq Sync
        /\ handler' \in [Handlers -> Handler] /\ uploader' \in [Uploaders -> Uploader]
    BY DEF LinkTypeOK, BeginUpload, locks, google, ghosts, Uploader
  <2>2. /\ asked' \in 0..MaxConsents /\ exchanged' \in [Consents -> Nat] /\ live' \subseteq Consents
        /\ ended' \in 0..asked' /\ events' \in 0..MaxEvents
        /\ off' \in BOOLEAN /\ formed' \in BOOLEAN /\ faulted' \in BOOLEAN
    BY LinkAssumption DEF LinkTypeOK, BeginUpload, locks, google, ghosts
  <2>3. /\ lifecycle' \in Handlers \union {None} /\ tokenLock' \in Threads \union {None}
        /\ \A i \in Handlers : (lifecycle = i <=> ~At(i, "idle"))'
        /\ \A i \in Handlers : (tokenLock = i <=> (At(i, "contact") \/ At(i, "clear")))'
        /\ \A v \in Uploaders : (tokenLock = v <=> uploader[v].pc = "refresh")'
    BY DEF LinkTypeOK, BeginUpload, locks, google, ghosts, NoUpload
  <2>. QED
    BY <2>1, <2>2, <2>3 DEF LinkTypeOK
<1>2. TokensOK'
  BY DEF TokensOK, LinkTypeOK, BeginUpload, locks, google, ghosts, Uploader, NoUpload
<1>3. ConsentsOK' /\ CallbacksAreLate' /\ DisconnectionIsFinal' /\ SyncStaysOff' /\ FolderOK'
  BY DEF ConsentsOK, CallbacksAreLate, DisconnectionIsFinal, SyncStaysOff, FolderOK, BeginUpload,
     locks, google, ghosts
<1>. QED
  BY <1>1, <1>2, <1>3

LEMMA UseTokenKeeps ==
  ASSUME LinkInv, NEW u \in Uploaders, UseToken(u)
  PROVE  LinkInv'
<1>. USE Constants DEF LinkInv, At
<1>1. LinkTypeOK'
  <2>1. /\ tokens' \in Tokens /\ {memory, disk, form}' \subseteq Sync
        /\ handler' \in [Handlers -> Handler] /\ uploader' \in [Uploaders -> Uploader]
    <3>1. [NoUpload EXCEPT !.pc = "use", !.token = tokens.access] \in Uploader
      BY DEF LinkTypeOK, Tokens, NoUpload, Uploader
    <3>. QED
      BY <3>1 DEF LinkTypeOK, UseToken, locks, google, ghosts
  <2>2. /\ asked' \in 0..MaxConsents /\ exchanged' \in [Consents -> Nat] /\ live' \subseteq Consents
        /\ ended' \in 0..asked' /\ events' \in 0..MaxEvents
        /\ off' \in BOOLEAN /\ formed' \in BOOLEAN /\ faulted' \in BOOLEAN
    BY LinkAssumption DEF LinkTypeOK, UseToken, locks, google, ghosts
  <2>3. /\ lifecycle' \in Handlers \union {None} /\ tokenLock' \in Threads \union {None}
        /\ \A i \in Handlers : (lifecycle = i <=> ~At(i, "idle"))'
        /\ \A i \in Handlers : (tokenLock = i <=> (At(i, "contact") \/ At(i, "clear")))'
        /\ \A v \in Uploaders : (tokenLock = v <=> uploader[v].pc = "refresh")'
    BY DEF LinkTypeOK, UseToken, locks, google, ghosts, NoUpload
  <2>. QED
    BY <2>1, <2>2, <2>3 DEF LinkTypeOK
<1>2. TokensOK'
  BY DEF TokensOK, LinkTypeOK, UseToken, locks, google, ghosts, Uploader, NoUpload
<1>3. ConsentsOK' /\ CallbacksAreLate' /\ DisconnectionIsFinal' /\ SyncStaysOff' /\ FolderOK'
  BY DEF ConsentsOK, CallbacksAreLate, DisconnectionIsFinal, SyncStaysOff, FolderOK, UseToken, locks,
     google, ghosts
<1>. QED
  BY <1>1, <1>2, <1>3

LEMMA BeginRefreshKeeps ==
  ASSUME LinkInv, NEW u \in Uploaders, BeginRefresh(u)
  PROVE  LinkInv'
<1>. USE Constants DEF LinkInv, At
<1>1. LinkTypeOK'
  <2>1. /\ tokens' \in Tokens /\ {memory, disk, form}' \subseteq Sync
        /\ handler' \in [Handlers -> Handler] /\ uploader' \in [Uploaders -> Uploader]
    BY DEF LinkTypeOK, BeginRefresh, MustRefresh, Serialized, google, ghosts, Uploader
  <2>2. /\ asked' \in 0..MaxConsents /\ exchanged' \in [Consents -> Nat] /\ live' \subseteq Consents
        /\ ended' \in 0..asked' /\ events' \in 0..MaxEvents
        /\ off' \in BOOLEAN /\ formed' \in BOOLEAN /\ faulted' \in BOOLEAN
    BY LinkAssumption DEF LinkTypeOK, BeginRefresh, MustRefresh, Serialized, google, ghosts
  <2>3. /\ lifecycle' \in Handlers \union {None} /\ tokenLock' \in Threads \union {None}
        /\ \A i \in Handlers : (lifecycle = i <=> ~At(i, "idle"))'
        /\ \A i \in Handlers : (tokenLock = i <=> (At(i, "contact") \/ At(i, "clear")))'
        /\ \A v \in Uploaders : (tokenLock = v <=> uploader[v].pc = "refresh")'
    BY DEF LinkTypeOK, BeginRefresh, MustRefresh, Serialized, google, ghosts, NoUpload
  <2>. QED
    BY <2>1, <2>2, <2>3 DEF LinkTypeOK
<1>2. TokensOK'
  BY DEF TokensOK, LinkTypeOK, BeginRefresh, MustRefresh, Serialized, google, ghosts, Uploader,
     NoUpload
<1>3. ConsentsOK' /\ CallbacksAreLate' /\ DisconnectionIsFinal' /\ SyncStaysOff' /\ FolderOK'
  BY DEF ConsentsOK, CallbacksAreLate, DisconnectionIsFinal, SyncStaysOff, FolderOK, BeginRefresh,
     MustRefresh, Serialized, google, ghosts
<1>. QED
  BY <1>1, <1>2, <1>3

LEMMA RefreshKeeps ==
  ASSUME LinkInv, NEW u \in Uploaders, Refresh(u)
  PROVE  LinkInv'
<1>. USE Constants DEF LinkInv, At
<1>0. /\ tokens' \in Tokens /\ tokens'.pending = tokens.pending
      /\ \/ tokens'.access = tokens.access /\ tokens'.refresh = tokens.refresh
         \/ tokens'.access = None /\ tokens'.refresh = None
  BY RefreshKeepsAccount DEF LinkTypeOK, TokensOK, Uploader, Refresh
<1>1. LinkTypeOK'
  <2>1. /\ tokens' \in Tokens /\ {memory, disk, form}' \subseteq Sync
        /\ handler' \in [Handlers -> Handler] /\ uploader' \in [Uploaders -> Uploader]
    BY <1>0 DEF LinkTypeOK, Refresh, google, ghosts, Tokens, Uploader
  <2>2. /\ asked' \in 0..MaxConsents /\ exchanged' \in [Consents -> Nat] /\ live' \subseteq Consents
        /\ ended' \in 0..asked' /\ events' \in 0..MaxEvents
        /\ off' \in BOOLEAN /\ formed' \in BOOLEAN /\ faulted' \in BOOLEAN
    BY LinkAssumption, <1>0 DEF LinkTypeOK, Refresh, google, ghosts
  <2>3. /\ lifecycle' \in Handlers \union {None} /\ tokenLock' \in Threads \union {None}
        /\ \A i \in Handlers : (lifecycle = i <=> ~At(i, "idle"))'
        /\ \A i \in Handlers : (tokenLock = i <=> (At(i, "contact") \/ At(i, "clear")))'
        /\ \A v \in Uploaders : (tokenLock = v <=> uploader[v].pc = "refresh")'
    BY <1>0 DEF LinkTypeOK, Refresh, google, ghosts, NoUpload
  <2>. QED
    BY <2>1, <2>2, <2>3 DEF LinkTypeOK
<1>2. TokensOK'
  BY <1>0 DEF TokensOK, LinkTypeOK, Refresh, google, ghosts, Tokens, Uploader, NoUpload
<1>3. ConsentsOK'
  BY <1>0 DEF ConsentsOK, LinkTypeOK, Refresh, google, ghosts, Tokens, NoUpload
<1>4. DisconnectionIsFinal'
  BY <1>0 DEF DisconnectionIsFinal, LinkTypeOK, TokensOK, CallbacksAreLate, Refresh, google, ghosts,
     Tokens, NoUpload
<1>5. FolderOK'
  BY <1>0 DEF FolderOK, LinkTypeOK, TokensOK, Refresh, google, ghosts, Tokens, NoUpload
<1>6. CallbacksAreLate' /\ SyncStaysOff'
  BY DEF CallbacksAreLate, SyncStaysOff, Refresh, google, ghosts
<1>. QED
  BY <1>1, <1>2, <1>3, <1>4, <1>5, <1>6

LEMMA RefreshFailsKeeps ==
  ASSUME LinkInv, NEW u \in Uploaders, RefreshFails(u)
  PROVE  LinkInv'
<1>. USE Constants DEF LinkInv, At
<1>1. LinkTypeOK'
  <2>1. /\ tokens' \in Tokens /\ {memory, disk, form}' \subseteq Sync
        /\ handler' \in [Handlers -> Handler] /\ uploader' \in [Uploaders -> Uploader]
    BY DEF LinkTypeOK, RefreshFails, google, ghosts, Uploader
  <2>2. /\ asked' \in 0..MaxConsents /\ exchanged' \in [Consents -> Nat] /\ live' \subseteq Consents
        /\ ended' \in 0..asked' /\ events' \in 0..MaxEvents
        /\ off' \in BOOLEAN /\ formed' \in BOOLEAN /\ faulted' \in BOOLEAN
    BY LinkAssumption DEF LinkTypeOK, RefreshFails, google, ghosts
  <2>3. /\ lifecycle' \in Handlers \union {None} /\ tokenLock' \in Threads \union {None}
        /\ \A i \in Handlers : (lifecycle = i <=> ~At(i, "idle"))'
        /\ \A i \in Handlers : (tokenLock = i <=> (At(i, "contact") \/ At(i, "clear")))'
        /\ \A v \in Uploaders : (tokenLock = v <=> uploader[v].pc = "refresh")'
    BY DEF LinkTypeOK, RefreshFails, google, ghosts, NoUpload
  <2>. QED
    BY <2>1, <2>2, <2>3 DEF LinkTypeOK
<1>2. TokensOK'
  BY DEF TokensOK, LinkTypeOK, RefreshFails, google, ghosts, Uploader, NoUpload
<1>3. ConsentsOK' /\ CallbacksAreLate' /\ DisconnectionIsFinal' /\ SyncStaysOff' /\ FolderOK'
  BY DEF ConsentsOK, CallbacksAreLate, DisconnectionIsFinal, SyncStaysOff, FolderOK, RefreshFails,
     google, ghosts
<1>. QED
  BY <1>1, <1>2, <1>3

LEMMA RequestKeeps ==
  ASSUME LinkInv, NEW u \in Uploaders, Request(u)
  PROVE  LinkInv'
<1>. USE Constants DEF LinkInv, At
<1>1. LinkTypeOK'
  <2>1. /\ tokens' \in Tokens /\ {memory, disk, form}' \subseteq Sync
        /\ handler' \in [Handlers -> Handler] /\ uploader' \in [Uploaders -> Uploader]
    BY DEF LinkTypeOK, Request, locks, google, ghosts, Uploader
  <2>2. /\ asked' \in 0..MaxConsents /\ exchanged' \in [Consents -> Nat] /\ live' \subseteq Consents
        /\ ended' \in 0..asked' /\ events' \in 0..MaxEvents
        /\ off' \in BOOLEAN /\ formed' \in BOOLEAN /\ faulted' \in BOOLEAN
    BY LinkAssumption DEF LinkTypeOK, Request, locks, google, ghosts
  <2>3. /\ lifecycle' \in Handlers \union {None} /\ tokenLock' \in Threads \union {None}
        /\ \A i \in Handlers : (lifecycle = i <=> ~At(i, "idle"))'
        /\ \A i \in Handlers : (tokenLock = i <=> (At(i, "contact") \/ At(i, "clear")))'
        /\ \A v \in Uploaders : (tokenLock = v <=> uploader[v].pc = "refresh")'
    BY DEF LinkTypeOK, Request, locks, google, ghosts, NoUpload
  <2>. QED
    BY <2>1, <2>2, <2>3 DEF LinkTypeOK
<1>2. TokensOK'
  BY DEF TokensOK, LinkTypeOK, Request, locks, google, ghosts, Uploader, NoUpload
<1>3. ConsentsOK' /\ CallbacksAreLate' /\ DisconnectionIsFinal' /\ SyncStaysOff' /\ FolderOK'
  BY DEF ConsentsOK, CallbacksAreLate, DisconnectionIsFinal, SyncStaysOff, FolderOK, Request, locks,
     google, ghosts
<1>. QED
  BY <1>1, <1>2, <1>3

LEMMA ReadFormKeeps ==
  ASSUME LinkInv, ReadForm
  PROVE  LinkInv'
<1>. USE Constants DEF LinkInv, At
<1>1. LinkTypeOK'
  <2>1. /\ tokens' \in Tokens /\ {memory, disk, form}' \subseteq Sync
        /\ handler' \in [Handlers -> Handler] /\ uploader' \in [Uploaders -> Uploader]
    BY DEF LinkTypeOK, ReadForm, locks, google, ghosts, Sync
  <2>2. /\ asked' \in 0..MaxConsents /\ exchanged' \in [Consents -> Nat] /\ live' \subseteq Consents
        /\ ended' \in 0..asked' /\ events' \in 0..MaxEvents
        /\ off' \in BOOLEAN /\ formed' \in BOOLEAN /\ faulted' \in BOOLEAN
    BY LinkAssumption DEF LinkTypeOK, ReadForm, locks, google, ghosts
  <2>3. /\ lifecycle' \in Handlers \union {None} /\ tokenLock' \in Threads \union {None}
        /\ \A i \in Handlers : (lifecycle = i <=> ~At(i, "idle"))'
        /\ \A i \in Handlers : (tokenLock = i <=> (At(i, "contact") \/ At(i, "clear")))'
        /\ \A v \in Uploaders : (tokenLock = v <=> uploader[v].pc = "refresh")'
    BY DEF LinkTypeOK, ReadForm, locks, google, ghosts
  <2>. QED
    BY <2>1, <2>2, <2>3 DEF LinkTypeOK
<1>2. TokensOK' /\ ConsentsOK' /\ CallbacksAreLate' /\ DisconnectionIsFinal' /\ SyncStaysOff' /\ FolderOK'
  BY DEF TokensOK, ConsentsOK, CallbacksAreLate, DisconnectionIsFinal, SyncStaysOff, FolderOK,
     ReadForm, locks, google, ghosts
<1>. QED
  BY <1>1, <1>2

LEMMA SubmitFormKeeps ==
  ASSUME LinkInv, SubmitForm
  PROVE  LinkInv'
<1>. USE Constants DEF LinkInv, At
<1>1. LinkTypeOK'
  <2>1. /\ tokens' \in Tokens /\ {memory, disk, form}' \subseteq Sync
        /\ handler' \in [Handlers -> Handler] /\ uploader' \in [Uploaders -> Uploader]
    BY DEF LinkTypeOK, SubmitForm, OneMore, locks, google, Sync
  <2>2. /\ asked' \in 0..MaxConsents /\ exchanged' \in [Consents -> Nat] /\ live' \subseteq Consents
        /\ ended' \in 0..asked' /\ events' \in 0..MaxEvents
        /\ off' \in BOOLEAN /\ formed' \in BOOLEAN /\ faulted' \in BOOLEAN
    BY LinkAssumption DEF LinkTypeOK, SubmitForm, OneMore, locks, google
  <2>3. /\ lifecycle' \in Handlers \union {None} /\ tokenLock' \in Threads \union {None}
        /\ \A i \in Handlers : (lifecycle = i <=> ~At(i, "idle"))'
        /\ \A i \in Handlers : (tokenLock = i <=> (At(i, "contact") \/ At(i, "clear")))'
        /\ \A v \in Uploaders : (tokenLock = v <=> uploader[v].pc = "refresh")'
    BY DEF LinkTypeOK, SubmitForm, OneMore, locks, google
  <2>. QED
    BY <2>1, <2>2, <2>3 DEF LinkTypeOK
<1>2. SyncStaysOff'
  BY DEF SyncStaysOff, CallbacksAreLate, SubmitForm, OneMore, locks, google, Sync
<1>3. FolderOK'
  BY DEF FolderOK, LinkTypeOK, TokensOK, SubmitForm, OneMore, locks, google, Sync
<1>4. TokensOK' /\ ConsentsOK' /\ CallbacksAreLate' /\ DisconnectionIsFinal'
  BY DEF TokensOK, ConsentsOK, CallbacksAreLate, DisconnectionIsFinal, SubmitForm, OneMore, locks,
     google
<1>. QED
  BY <1>1, <1>2, <1>3, <1>4

LEMMA ExpireKeeps ==
  ASSUME LinkInv, Expire
  PROVE  LinkInv'
<1>. USE Constants DEF LinkInv, At
<1>1. LinkTypeOK'
  <2>1. /\ tokens' \in Tokens /\ {memory, disk, form}' \subseteq Sync
        /\ handler' \in [Handlers -> Handler] /\ uploader' \in [Uploaders -> Uploader]
    BY DEF LinkTypeOK, Expire, OneMore, locks, google, ghosts, Tokens
  <2>2. /\ asked' \in 0..MaxConsents /\ exchanged' \in [Consents -> Nat] /\ live' \subseteq Consents
        /\ ended' \in 0..asked' /\ events' \in 0..MaxEvents
        /\ off' \in BOOLEAN /\ formed' \in BOOLEAN /\ faulted' \in BOOLEAN
    BY LinkAssumption DEF LinkTypeOK, Expire, OneMore, locks, google, ghosts
  <2>3. /\ lifecycle' \in Handlers \union {None} /\ tokenLock' \in Threads \union {None}
        /\ \A i \in Handlers : (lifecycle = i <=> ~At(i, "idle"))'
        /\ \A i \in Handlers : (tokenLock = i <=> (At(i, "contact") \/ At(i, "clear")))'
        /\ \A v \in Uploaders : (tokenLock = v <=> uploader[v].pc = "refresh")'
    BY DEF LinkTypeOK, Expire, OneMore, locks, google, ghosts
  <2>. QED
    BY <2>1, <2>2, <2>3 DEF LinkTypeOK
<1>2. TokensOK'
  BY DEF TokensOK, LinkTypeOK, Expire, OneMore, locks, google, ghosts, Tokens
<1>3. ConsentsOK'
  BY DEF ConsentsOK, LinkTypeOK, Expire, OneMore, locks, google, ghosts, Tokens
<1>4. DisconnectionIsFinal'
  BY DEF DisconnectionIsFinal, LinkTypeOK, TokensOK, CallbacksAreLate, Expire, OneMore, locks,
     google, ghosts, Tokens
<1>5. FolderOK'
  BY DEF FolderOK, LinkTypeOK, TokensOK, Expire, OneMore, locks, google, ghosts, Tokens
<1>6. CallbacksAreLate' /\ SyncStaysOff'
  BY DEF CallbacksAreLate, SyncStaysOff, Expire, OneMore, locks, google, ghosts
<1>. QED
  BY <1>1, <1>2, <1>3, <1>4, <1>5, <1>6

LEMMA UserRevokesKeeps ==
  ASSUME LinkInv, NEW g \in Consents, UserRevokes(g)
  PROVE  LinkInv'
<1>. USE Constants DEF LinkInv, At
<1>1. LinkTypeOK'
  <2>1. /\ tokens' \in Tokens /\ {memory, disk, form}' \subseteq Sync
        /\ handler' \in [Handlers -> Handler] /\ uploader' \in [Uploaders -> Uploader]
    BY DEF LinkTypeOK, UserRevokes, OneMore, locks, ghosts
  <2>2. /\ asked' \in 0..MaxConsents /\ exchanged' \in [Consents -> Nat] /\ live' \subseteq Consents
        /\ ended' \in 0..asked' /\ events' \in 0..MaxEvents
        /\ off' \in BOOLEAN /\ formed' \in BOOLEAN /\ faulted' \in BOOLEAN
    BY LinkAssumption DEF LinkTypeOK, UserRevokes, OneMore, locks, ghosts
  <2>3. /\ lifecycle' \in Handlers \union {None} /\ tokenLock' \in Threads \union {None}
        /\ \A i \in Handlers : (lifecycle = i <=> ~At(i, "idle"))'
        /\ \A i \in Handlers : (tokenLock = i <=> (At(i, "contact") \/ At(i, "clear")))'
        /\ \A v \in Uploaders : (tokenLock = v <=> uploader[v].pc = "refresh")'
    BY DEF LinkTypeOK, UserRevokes, OneMore, locks, ghosts
  <2>. QED
    BY <2>1, <2>2, <2>3 DEF LinkTypeOK
<1>2. TokensOK' /\ ConsentsOK' /\ CallbacksAreLate' /\ DisconnectionIsFinal' /\ SyncStaysOff' /\ FolderOK'
  BY DEF TokensOK, ConsentsOK, CallbacksAreLate, DisconnectionIsFinal, SyncStaysOff, FolderOK,
     UserRevokes, OneMore, locks, ghosts
<1>. QED
  BY <1>1, <1>2

LEMMA RestartKeeps ==
  ASSUME LinkInv, Restart
  PROVE  LinkInv'
<1>. USE Constants DEF LinkInv, At
<1>1. LinkTypeOK'
  <2>1. /\ tokens' \in Tokens /\ {memory, disk, form}' \subseteq Sync
        /\ handler' \in [Handlers -> Handler] /\ uploader' \in [Uploaders -> Uploader]
    BY DEF LinkTypeOK, Restart, Fault, OneMore, google, Handler, Uploader, Sync
  <2>2. /\ asked' \in 0..MaxConsents /\ exchanged' \in [Consents -> Nat] /\ live' \subseteq Consents
        /\ ended' \in 0..asked' /\ events' \in 0..MaxEvents
        /\ off' \in BOOLEAN /\ formed' \in BOOLEAN /\ faulted' \in BOOLEAN
    BY LinkAssumption DEF LinkTypeOK, Restart, Fault, OneMore, google
  <2>3. /\ lifecycle' \in Handlers \union {None} /\ tokenLock' \in Threads \union {None}
        /\ \A i \in Handlers : (lifecycle = i <=> ~At(i, "idle"))'
        /\ \A i \in Handlers : (tokenLock = i <=> (At(i, "contact") \/ At(i, "clear")))'
        /\ \A v \in Uploaders : (tokenLock = v <=> uploader[v].pc = "refresh")'
    BY DEF LinkTypeOK, Restart, Fault, OneMore, google, NoRequest, NoUpload
  <2>. QED
    BY <2>1, <2>2, <2>3 DEF LinkTypeOK
<1>2. TokensOK'
  BY DEF TokensOK, LinkTypeOK, Restart, Fault, OneMore, google, Uploader, NoRequest, NoUpload
<1>3. ConsentsOK'
  BY DEF ConsentsOK, LinkTypeOK, Restart, Fault, OneMore, google, Handler, NoRequest, NoUpload
<1>4. CallbacksAreLate'
  BY DEF CallbacksAreLate, LinkTypeOK, ConsentsOK, DisconnectionIsFinal, Restart, Fault, OneMore,
     google, Handler, NoRequest, NoUpload
<1>5. SyncStaysOff'
  BY DEF SyncStaysOff, CallbacksAreLate, Restart, Fault, OneMore, google, Sync, NoRequest, NoUpload
<1>6. FolderOK'
  BY DEF FolderOK, LinkTypeOK, TokensOK, Restart, Fault, OneMore, google, Handler, Sync, NoRequest,
     NoUpload
<1>7. DisconnectionIsFinal'
  BY DEF DisconnectionIsFinal, Restart, Fault, OneMore, google
<1>. QED
  BY <1>1, <1>2, <1>3, <1>4, <1>5, <1>6, <1>7
-----------------------------------------------------------------------------
LEMMA StutterKeeps ==
  ASSUME LinkInv, UNCHANGED vars
  PROVE  LinkInv'
<1>. USE DEF vars, locks, google, ghosts
<1>1. LinkTypeOK' /\ TokensOK'
  BY DEF LinkInv, LinkTypeOK, TokensOK, At
<1>2. ConsentsOK' /\ CallbacksAreLate' /\ DisconnectionIsFinal'
  BY DEF LinkInv, ConsentsOK, CallbacksAreLate, DisconnectionIsFinal, At
<1>3. SyncStaysOff' /\ FolderOK'
  BY DEF LinkInv, SyncStaysOff, FolderOK, At
<1>. QED
  BY <1>1, <1>2, <1>3 DEF LinkInv

LEMMA HandlerStepKeeps ==
  ASSUME LinkInv, NEW h \in Handlers, HandlerStep(h)
  PROVE  LinkInv'
<1>1. CASE AskConsent(h) \/ \E k \in Consents : Callback(h, k)
  BY <1>1, AskConsentKeeps, CallbackKeeps
<1>2. CASE RefuseState(h) \/ ConsumeState(h) \/ ExchangeCode(h) \/ ExchangeFails(h)
  BY <1>2, RefuseStateKeeps, ConsumeStateKeeps, ExchangeCodeKeeps, ExchangeFailsKeeps
<1>3. CASE FindFolder(h) \/ SaveConnected(h) \/ SaveFails(h)
  BY <1>3, FindFolderKeeps, SaveConnectedKeeps, SaveFailsKeeps
<1>4. CASE Disconnect(h) \/ Revoke(h) \/ ClearTokens(h) \/ SaveDisconnected(h)
  BY <1>4, DisconnectKeeps, RevokeKeeps, ClearTokensKeeps, SaveDisconnectedKeeps
<1>. QED
  BY <1>1, <1>2, <1>3, <1>4 DEF HandlerStep

LEMMA UploaderStepKeeps ==
  ASSUME LinkInv, NEW u \in Uploaders, UploaderStep(u)
  PROVE  LinkInv'
BY BeginUploadKeeps, UseTokenKeeps, BeginRefreshKeeps, RefreshKeeps, RefreshFailsKeeps, RequestKeeps
   DEF UploaderStep

LEMMA LinkInvariance == Spec => []LinkInv
<1>1. LinkInv /\ [Next]_vars => LinkInv'
  BY HandlerStepKeeps, UploaderStepKeeps, ReadFormKeeps, SubmitFormKeeps, ExpireKeeps,
     UserRevokesKeeps, RestartKeeps, StutterKeeps DEF Next
<1>. QED
  BY InitLink, <1>1, PTL DEF Spec

-----------------------------------------------------------------------------
\* Every variable has its type, and a lock is held where the code holds it.
THEOREM LinkTypeCorrect == Spec => []LinkTypeOK
<1>1. LinkInv => LinkTypeOK
  BY DEF LinkInv
<1>. QED
  BY LinkInvariance, <1>1, PTL

\* exchange_google_drive_auth_code never leaves an access token beside the refresh
\* token of another account, and a refresh keeps it so.
THEOREM OneAccount == Spec => []TokensOfOneAccount
<1>1. LinkInv => TokensOfOneAccount
  BY DEF LinkInv, TokensOK, TokensOfOneAccount
<1>. QED
  BY LinkInvariance, <1>1, PTL

\* Consuming the pending state before contacting Google makes a consent single-use.
THEOREM SingleUse == Spec => []ConsentsAreSingleUse
<1>1. LinkInv => ConsentsAreSingleUse
  BY DEF LinkInv, ConsentsOK, ConsentsAreSingleUse
<1>. QED
  BY LinkInvariance, <1>1, PTL

\* Holding _TOKEN_LOCK across a refresh, and drive_lifecycle_lock across a callback,
\* makes a disconnection final.
THEOREM FinalDisconnection == Spec => []DisconnectionIsFinal
<1>1. LinkInv => DisconnectionIsFinal
  BY DEF LinkInv
<1>. QED
  BY LinkInvariance, <1>1, PTL

\* No callback under way switches sync on again after an answered disconnection.
THEOREM SyncOffIsKept == Spec => []SyncStaysOff
<1>1. LinkInv => SyncStaysOff
  BY DEF LinkInv
<1>. QED
  BY LinkInvariance, <1>1, PTL

\* Without a failed save, a crash or a form, sync points at the connected account.
THEOREM FolderOfAccount == Spec => []SyncMatchesAccount
<1>1. LinkInv => SyncMatchesAccount
  BY Constants DEF LinkInv, LinkTypeOK, FolderOK, SyncMatchesAccount, At
<1>. QED
  BY LinkInvariance, <1>1, PTL
=============================================================================
