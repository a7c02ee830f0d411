----------------------------- MODULE LogService -----------------------------
(***************************************************************************)
(* What the logger promises to those who call logprint: lines come out in  *)
(* the order in which they were accepted, a line is refused only while at  *)
(* least Capacity lines wait, and refused lines are counted until a        *)
(* warning tells how many there were.                                      *)
(***************************************************************************)
EXTENDS Naturals, Sequences

CONSTANT Capacity

VARIABLES
  queue,    \* accepted lines that are not out yet
  out,      \* the lines that came out
  lost,     \* refused lines no warning has told of
  reported  \* refused lines a warning has told of

vars == <<queue, out, lost, reported>>

Init == queue = <<>> /\ out = <<>> /\ lost = 0 /\ reported = 0

\* Lines are numbered in the order in which they are accepted.
Accept ==
  /\ queue' = Append(queue, Len(out) + Len(queue) + 1)
  /\ UNCHANGED <<out, lost, reported>>

Refuse ==
  /\ Len(queue) >= Capacity
  /\ lost' = lost + 1
  /\ UNCHANGED <<queue, out, reported>>

Deliver ==
  /\ queue # <<>>
  /\ out' = Append(out, Head(queue))
  /\ queue' = Tail(queue)
  /\ UNCHANGED <<lost, reported>>

Report ==
  /\ \E n \in 1..lost :
       /\ lost' = lost - n
       /\ reported' = reported + n
  /\ UNCHANGED <<queue, out>>

Next == Accept \/ Refuse \/ Deliver \/ Report

Spec == Init /\ [][Next]_vars
=============================================================================
