---------------------------- MODULE MCRateLimit ----------------------------
\* The instance of RateLimit that TLC checks: addresses of two bytes of two bits.
EXTENDS RateLimit

V4(a, b) == [family |-> 4, address |-> <<a, b>>]
V6(a, b) == [family |-> 6, address |-> <<a, b>>]
Network(c, p) == [family |-> c.family, address |-> c.address, prefix |-> p]

\* Neighbours inside and outside of a prefix that ends within a byte, and the same
\* bytes in the other family, where only one address is allowed.
MCClients  == {V4(1, 2), V4(1, 3), V4(1, 0), V4(3, 2), V6(1, 2), V6(1, 3)}
MCAllow    == {Network(V4(1, 2), 3), Network(V6(1, 2), NoPrefix)}
MCLoopback == {}
=============================================================================
