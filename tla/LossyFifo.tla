------------------------------ MODULE LossyFifo ------------------------------
(***************************************************************************)
(* What each consumer of the byte stream is promised (rtcm_sink.h): bytes  *)
(* of the receiver in the order they arrived, none twice, none invented.   *)
(* Any of them may be missing.  Bytes are numbered in order of arrival.    *)
(***************************************************************************)
EXTENDS Integers, Sequences

VARIABLES
  made,    \* bytes the receiver has sent
  got      \* the bytes handed to the consumer

Increasing(s) == \A i, j \in 1..Len(s) : i < j => s[i] < s[j]

Init == made = 0 /\ got = <<>>

Receive == made' \in Nat /\ made' > made /\ UNCHANGED got

\* Some bytes that have arrived, newer than all before, are handed over.
Deliver ==
  /\ UNCHANGED made
  /\ Len(got') > Len(got) /\ SubSeq(got', 1, Len(got)) = got
  /\ Increasing(got') /\ \A i \in 1..Len(got') : got'[i] \in 1..made

Next == Receive \/ Deliver
Spec == Init /\ [][Next]_<<made, got>>
=============================================================================
