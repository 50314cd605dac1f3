----------------------------- MODULE FileSharing -----------------------------
(***************************************************************************)
(* What the program promises, with no threads, sockets or buffers in it.   *)
(*                                                                         *)
(* One sender deals the segments of a file round robin to N receivers: a   *)
(* segment goes to exactly one of them, its dealt receiver.  Every other   *)
(* receiver gets the segment from the dealt receiver, which must already   *)
(* have it.  Each receiver writes the segments to its copy in file order   *)
(* and is finished only when its copy is whole.                            *)
(***************************************************************************)
EXTENDS Naturals

CONSTANTS
  N,         \* number of receivers, a positive number
  total_seg  \* number of segments of the file, a positive number

Receivers == 0 .. N - 1
Segs      == 0 .. total_seg - 1

\* The one receiver that is dealt segment k.
Dealt(k) == k % N

VARIABLES
  have,     \* have[r]: the segments receiver r has
  copied,   \* copied[r]: how many segments, from the first, its copy holds
  finished  \* finished[r]: r has declared its copy whole

vars == <<have, copied, finished>>

Init ==
  /\ have = [r \in Receivers |-> {}]
  /\ copied = [r \in Receivers |-> 0]
  /\ finished = [r \in Receivers |-> FALSE]

\* The sender hands segment k to the receiver it is dealt to.
Deal(k) ==
  LET r == Dealt(k) IN
  /\ k \notin have[r]
  /\ have' = [have EXCEPT ![r] = @ \cup {k}]
  /\ UNCHANGED <<copied, finished>>

\* Receiver r gets k from the receiver that was dealt it.
Forward(k, r) ==
  /\ r # Dealt(k)
  /\ k \in have[Dealt(k)]
  /\ k \notin have[r]
  /\ have' = [have EXCEPT ![r] = @ \cup {k}]
  /\ UNCHANGED <<copied, finished>>

\* Receiver r appends the next segment of the file to its copy.
Copy(r) ==
  /\ copied[r] \in have[r]
  /\ copied' = [copied EXCEPT ![r] = @ + 1]
  /\ UNCHANGED <<have, finished>>

\* Receiver r has the whole file and stops.
Finish(r) ==
  /\ copied[r] = total_seg
  /\ ~ finished[r]
  /\ finished' = [finished EXCEPT ![r] = TRUE]
  /\ UNCHANGED <<have, copied>>

Next ==
  \/ \E k \in Segs : Deal(k)
  \/ \E k \in Segs, r \in Receivers : Forward(k, r)
  \/ \E r \in Receivers : Copy(r) \/ Finish(r)

Spec == Init /\ [][Next]_vars

=============================================================================
