----------------------------- MODULE RateLimit -----------------------------
(***************************************************************************)
(* Who is served: the list of allowed networks, then one token bucket for  *)
(* the server and one for each client, in a table that holds a bounded     *)
(* number of clients and forgets the idle ones. Both sockets ask it first: *)
(* for a datagram, and for an accepted connection. A call runs to its end. *)
(*                                                                         *)
(* Tokens are counted in integers: with Second clock ticks in a second, a  *)
(* query costs Second tokens and a tick brings Qps. The code's doubles are *)
(* those numbers over Second, up to their rounding.                        *)
(***************************************************************************)
EXTENDS Integers, FiniteSets, Sequences

CONSTANTS
  Clients,         \* [family, address], the address as a sequence of bytes
  AllowClients,    \* allow-client, parsed: [family, address, prefix]
  Loopback,        \* the networks allowed when there is none
  NoPrefix,        \* the prefix of a network written without one
  ByteBits,        \* bits in a byte of an address
  Qps,             \* rate_limit_qps
  Burst,           \* rate_limit_burst
  Second,          \* clock ticks in a second
  MaximumClients,  \* maximum_clients
  CleanupInterval, \* the table is swept at most this often
  IdleTime,        \* a client that was not seen for longer is forgotten
  NoCall,          \* no call since the clock moved
  NoWindow,        \* no window was opened yet
  Horizon          \* bound on the clock

ASSUME RateLimitAssumption ==
  /\ IsFiniteSet(Clients) /\ NoCall \notin Clients
  /\ Qps \in Nat \ {0} /\ Burst \in Nat \ {0} /\ Second \in Nat \ {0}
  /\ MaximumClients \in Nat \ {0}
  /\ CleanupInterval \in Nat /\ IdleTime \in Nat /\ Horizon \in Nat
  /\ NoWindow \notin Nat

\* Addresses of a family have the same number of bytes, and a prefix that is written
\* is no longer than its address (parse_client_network() refuses any other).
ASSUME NetworkAssumption ==
  /\ ByteBits \in Nat \ {0} /\ NoPrefix \notin Nat
  /\ \A c \in Clients : c.address \in Seq(Nat)
  /\ \A text \in AllowClients \cup Loopback :
       /\ text \in [family : {4, 6}, address : Seq(Nat), prefix : Nat \cup {NoPrefix}]
       /\ text.prefix # NoPrefix => text.prefix <= ByteBits * Len(text.address)
       /\ \A c \in Clients : text.family = c.family => Len(text.address) = Len(c.address)

VARIABLES
  now,                \* misc::get_tick_count()
  global_rate,        \* the bucket of the server
  client_rates,       \* the buckets of the clients that are known
  last_rate_cleanup,  \* when the table was last swept
  last,               \* the last call since the clock moved, and its result
  opened, passed      \* history: from this time on, so many queries were admitted

vars == <<now, global_rate, client_rates, last_rate_cleanup, last, opened, passed>>

Full   == Burst * Second
Bucket == [tokens : 0 .. Full, updated : Nat, last_seen : Nat]
known  == DOMAIN client_rates

TypeOK ==
  /\ now \in 0 .. Horizon
  /\ global_rate \in Bucket
  /\ known \subseteq Clients /\ client_rates \in [known -> Bucket]
  /\ last_rate_cleanup \in 0 .. now
  /\ last \in [client : Clients \cup {NoCall}, admitted : BOOLEAN]
  /\ opened \in Nat \cup {NoWindow} /\ passed \in Nat

NewBucket == [tokens |-> Full, updated |-> now, last_seen |-> now]
Silence   == [client |-> NoCall, admitted |-> FALSE]

Init ==
  /\ now = 0
  /\ global_rate = NewBucket
  /\ client_rates = [c \in {} |-> NewBucket]
  /\ last_rate_cleanup = 0
  /\ last = Silence
  /\ opened = NoWindow /\ passed = 0

-----------------------------------------------------------------------------
(***************************************************************************)
(* The list of allowed networks.                                           *)
(***************************************************************************)

\* A network without a prefix is one address.
parse_client_network(text) ==
  [text EXCEPT !.prefix = IF @ = NoPrefix THEN ByteBits * Len(text.address) ELSE @]

allowed_clients ==
  {parse_client_network(t) : t \in IF AllowClients = {} THEN Loopback ELSE AllowClients}

\* Mutant: only whole bytes are compared.
WholeBytesMatch(network, c) ==
  /\ network.family = c.family
  /\ \A i \in 1 .. network.prefix \div ByteBits : network.address[i] = c.address[i]

\* Whole bytes are compared first, then what the mask leaves of the next one.
network_contains(network, c) ==
  LET whole     == network.prefix \div ByteBits
      remaining == network.prefix % ByteBits
      Masked(byte) == byte \div 2 ^ (ByteBits - remaining)
  IN  /\ network.family = c.family
      /\ \A i \in 1 .. whole : network.address[i] = c.address[i]
      /\ remaining > 0 =>
           Masked(network.address[whole + 1]) = Masked(c.address[whole + 1])

is_client_allowed(c) == \E network \in allowed_clients : network_contains(network, c)

-----------------------------------------------------------------------------
(***************************************************************************)
(* The buckets. The server's is checked first, then the table, then the    *)
(* client's own; only a query that passes all three is paid for.           *)
(***************************************************************************)

\* Mutant: the time is not taken.
RefilledAgain(bucket) ==
  LET earned == bucket.tokens + (now - bucket.updated) * Qps
  IN  [bucket EXCEPT !.tokens = IF earned > Full THEN Full ELSE earned, !.last_seen = now]

\* Tokens come with time, up to the burst.
Refilled(bucket) ==
  LET earned == bucket.tokens + (now - bucket.updated) * Qps
  IN  [tokens |-> IF earned > Full THEN Full ELSE earned, updated |-> now, last_seen |-> now]

Paid(bucket) == [bucket EXCEPT !.tokens = @ - Second]

Idle(c) == now - client_rates[c].last_seen > IdleTime

\* Only a newcomer that finds the table full has it swept.
Sweeps(c) ==
  /\ c \notin known /\ Cardinality(known) >= MaximumClients
  /\ now - last_rate_cleanup >= CleanupInterval

Kept(c) == IF Sweeps(c) THEN {d \in known : ~Idle(d)} ELSE known
SweptAt(c) == IF Sweeps(c) THEN now ELSE last_rate_cleanup

\* Mutant: a full table refuses known clients too.
HasRoom(c) == Cardinality(Kept(c)) < MaximumClients

\* A client that is known keeps its place however full the table is.
HasPlace(c) == c \in Kept(c) \/ Cardinality(Kept(c)) < MaximumClients

GlobalLimit(c) ==
  /\ Refilled(global_rate).tokens < Second
  /\ global_rate' = Refilled(global_rate)
  /\ last' = [client |-> c, admitted |-> FALSE]
  /\ UNCHANGED <<now, client_rates, last_rate_cleanup, opened, passed>>

TableFull(c) ==
  /\ Refilled(global_rate).tokens >= Second /\ ~HasPlace(c)
  /\ global_rate' = Refilled(global_rate)
  /\ client_rates' = [d \in Kept(c) |-> client_rates[d]]
  /\ last_rate_cleanup' = SweptAt(c)
  /\ last' = [client |-> c, admitted |-> FALSE]
  /\ UNCHANGED <<now, opened, passed>>

\* A newcomer starts with a full bucket.
ClientBucket(c) == IF c \in known THEN Refilled(client_rates[c]) ELSE NewBucket

Admits(c) == ClientBucket(c).tokens >= Second

\* What is not admitted is not paid for.
Charged(bucket, c) == IF Admits(c) THEN Paid(bucket) ELSE bucket

ClientLimit(c) ==
  /\ Refilled(global_rate).tokens >= Second /\ HasPlace(c)
  /\ global_rate' = Charged(Refilled(global_rate), c)
  /\ client_rates' = [d \in Kept(c) \cup {c} |->
                        IF d = c THEN Charged(ClientBucket(c), c) ELSE client_rates[d]]
  /\ last_rate_cleanup' = SweptAt(c)
  /\ last' = [client |-> c, admitted |-> Admits(c)]
  /\ passed' = IF Admits(c) /\ opened # NoWindow THEN passed + 1 ELSE passed
  /\ UNCHANGED <<now, opened>>

consume_rate_limit(c) == GlobalLimit(c) \/ TableFull(c) \/ ClientLimit(c)

-----------------------------------------------------------------------------

\* A datagram is read, or a connection accepted.
Ask(c) == is_client_allowed(c) /\ consume_rate_limit(c)

Drop(c) ==
  /\ ~is_client_allowed(c)
  /\ last' = [client |-> c, admitted |-> FALSE]
  /\ UNCHANGED <<now, global_rate, client_rates, last_rate_cleanup, opened, passed>>

Tick ==
  /\ now < Horizon
  /\ now' = now + 1
  /\ last' = Silence
  /\ UNCHANGED <<global_rate, client_rates, last_rate_cleanup, opened, passed>>

\* History: a window that the admitted queries are counted in opens at any time.
OpenWindow ==
  /\ opened = NoWindow
  /\ opened' = now
  /\ UNCHANGED <<now, global_rate, client_rates, last_rate_cleanup, last, passed>>

Next == Tick \/ OpenWindow \/ \E c \in Clients : Ask(c) \/ Drop(c)

Spec == Init /\ [][Next]_vars

-----------------------------------------------------------------------------
(***************************************************************************)
(* Properties.                                                             *)
(***************************************************************************)

\* In any span of time, from any moment on, the server admits no more queries than
\* the burst and what the sustained rate brings in that span, across refusals,
\* clients that are forgotten and clients that return with a full bucket.
WindowBounded ==
  opened # NoWindow => passed * Second <= Full + Qps * (now - opened)

\* A client of an allowed network that is refused while the server has a token is a
\* newcomer, the table holds maximum_clients and no more, and every one of them was
\* seen within the idle time and one interval between sweeps: no known client loses its
\* place to newcomers or is held to less than the server's rate, the table never grows
\* past its limit, and idle clients never keep newcomers out.
OnlyActiveClientsKeepOut ==
  LET c == last.client
  IN  c # NoCall /\ ~last.admitted /\ is_client_allowed(c) /\ global_rate.tokens >= Second =>
        /\ c \notin known /\ Cardinality(known) = MaximumClients
        /\ \A d \in known : now - client_rates[d].last_seen <= IdleTime + CleanupInterval

\* Bit i of an address, the first one being 1.
Bit(address, i) ==
  (address[(i - 1) \div ByteBits + 1] \div 2 ^ (ByteBits - 1 - ((i - 1) % ByteBits))) % 2

\* Whoever has a bucket or was admitted agrees with an allowed network of its own
\* family in every bit of the prefix, whether the prefix ends within a byte or not.
AdmittedAreListed ==
  \A c \in known \cup (IF last.admitted THEN {last.client} ELSE {}) :
    \E network \in allowed_clients :
      /\ network.family = c.family
      /\ \A i \in 1 .. network.prefix : Bit(network.address, i) = Bit(c.address, i)

-----------------------------------------------------------------------------
(***************************************************************************)
(* The inductive invariant.                                                *)
(***************************************************************************)

\* The table never holds more clients than maximum_clients.
TableBounded == Cardinality(known) <= MaximumClients

\* No bucket was updated or seen in the future, and a bucket is updated when seen.
BucketsArePast ==
  /\ global_rate.updated <= now
  /\ \A c \in known : client_rates[c].updated <= now /\ client_rates[c].last_seen <= now

\* The window's bound, with what the server could admit at once now.
WindowHolds ==
  /\ opened = NoWindow => passed = 0
  /\ opened # NoWindow =>
       /\ opened <= now
       /\ passed * Second + Refilled(global_rate).tokens <= Full + Qps * (now - opened)

\* The server pays for every query, a client only for its own: the server's bucket
\* is never fuller than a client's.
GlobalBindsFirst ==
  \A c \in known : Refilled(global_rate).tokens <= Refilled(client_rates[c]).tokens

\* Whoever was idle at the last sweep is gone.
SeenSinceSweep == \A c \in known : client_rates[c].last_seen >= last_rate_cleanup - IdleTime
=============================================================================
