----------------------------- MODULE DriveDelivery -----------------------------
(***************************************************************************)
(* What an upload to Google Drive promises its caller: a file appears at   *)
(* most once, success is reported only of a file that is whole, and the    *)
(* caller gets an answer.  A file may appear without success, even after   *)
(* an error: the upload is not an exactly-once delivery.                   *)
(***************************************************************************)
VARIABLES
  drive,     \* what Drive holds: nothing, the whole file, or a mixture of its edits
  answer     \* what the caller was told

Contents == {"whole", "mixed"}

Init == drive = "nothing" /\ answer = "pending"

Appear(content) == drive = "nothing" /\ drive' = content /\ UNCHANGED answer

Confirm == answer = "pending" /\ drive = "whole" /\ answer' = "ok" /\ UNCHANGED drive

GiveUp == answer = "pending" /\ answer' = "error" /\ UNCHANGED drive

Answer == Confirm \/ GiveUp

Next == Answer \/ \E content \in Contents : Appear(content)

Spec == Init /\ [][Next]_<<drive, answer>>

FairSpec == Spec /\ WF_<<drive, answer>>(Answer)
=============================================================================
