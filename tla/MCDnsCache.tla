----------------------------- MODULE MCDnsCache -----------------------------
\* The instance of DnsCache that TLC checks.
EXTENDS DnsCache, TLC

Answer(T, s)      == [rcode |-> "NOERROR", answers |-> T, soa |-> {}, size |-> s]
Denial(r, S, s)   == [rcode |-> r, answers |-> {}, soa |-> S, size |-> s]
Soa(t, m)         == {[ttl |-> t, minimum |-> m]}

\* A chain of aliases that ends in a denial keeps its alias records.
Chain == [Denial("NXDOMAIN", Soa(2, 2), 2) EXCEPT !.answers = {1}]

\* Short and long answers of every size that matters, denials with and without an
\* SOA, one that is too large, and a failure.
MCMessages == {Answer({1, 3}, 1), Answer({2}, 3), Answer({0, 3}, 2), Answer({2}, 4),
               Denial("NXDOMAIN", Soa(2, 1), 2), Denial("NOERROR", {}, 1),
               Denial("other", Soa(1, 2), 1), Chain}
MCKeys     == {"a", "b", "c"}
MCOverride == [k \in MCKeys |-> IF k = "a" THEN 1 ELSE -1]
MCSymmetry == Permutations(Nodes)
=============================================================================
