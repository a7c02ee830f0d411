---------------------------- MODULE MCUdpForward ----------------------------
(***************************************************************************)
(* Values of the constants of UdpForward for model checking.               *)
(***************************************************************************)
EXTENDS UdpForward, TLC

CONSTANTS r1, r2, r3, n1, n2, f1, f2, f3

\* Two clients ask the same question and one asks another.
MCNameOf == (r1 :> n1) @@ (r2 :> n1) @@ (r3 :> n2)

\* Every client asks the same question.
MCNameOfOne == [r \in Requests |-> n1]

\* The first question may go to either forwarder, the other's zone has one.
MCRoute == (n1 :> {f1, f2}) @@ (n2 :> {f1})

\* The only question may go to every forwarder.
MCRouteOne == n1 :> Forwarders

\* The clients of the first question are interchangeable.
MCSymmetry == Permutations({r1, r2})

\* With one question all clients are, and all forwarders.
MCSymmetryOne == Permutations({r1, r2, r3}) \cup Permutations({f1, f2, f3})
=============================================================================
