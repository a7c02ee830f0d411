-------------------------- MODULE RateLimit_proofs --------------------------
(***************************************************************************)
(* Theorems about RateLimit, for every rate, burst and size of the table,  *)
(* and any finite set of clients.                                          *)
(***************************************************************************)
EXTENDS RateLimit, FiniteSetTheorems, TLAPS

USE RateLimitAssumption DEF RateLimitAssumption

-----------------------------------------------------------------------------
(***************************************************************************)
(* Lemmas about the buckets.                                               *)
(***************************************************************************)

\* The capacity of a bucket is a number that holds at least one query.
LEMMA FullIsEnough == Full \in Nat /\ Full >= Second
  BY DEF Full

\* Time brings tokens.
LEMMA EarnedIsNat == \A t \in Nat : t * Qps \in Nat
  OBVIOUS

\* The products grow by one factor at a time.
LEMMA Products ==
  /\ \A t \in Int : (t + 1) * Qps = t * Qps + Qps /\ Qps * (t + 1) = Qps * t + Qps
  /\ \A t \in Int : (t + 1) * Second = t * Second + Second
  /\ 0 * Qps = 0 /\ Qps * 0 = 0 /\ 0 * Second = 0
  OBVIOUS

\* Refilling a bucket keeps it one and takes nothing out of it.
LEMMA RefilledIsBucket ==
  ASSUME NEW b \in Bucket, now \in Nat, b.updated <= now
  PROVE  /\ Refilled(b) \in Bucket
         /\ Refilled(b).tokens >= b.tokens
         /\ Refilled(b).updated = now /\ Refilled(b).last_seen = now
<1>1. (now - b.updated) * Qps \in Nat
  BY EarnedIsNat DEF Bucket
<1>2. b.tokens \in 0 .. Full
  BY DEF Bucket
<1>3. QED
  BY <1>1, <1>2, FullIsEnough DEF Refilled, Bucket

\* A bucket that was refilled now has nothing more to come.
LEMMA RefilledTwice ==
  ASSUME NEW b \in Bucket, now \in Nat, b.updated = now
  PROVE  Refilled(b).tokens = b.tokens
<1>1. (now - b.updated) * Qps = 0
  BY Products DEF Bucket
<1>2. b.tokens \in 0 .. Full
  BY DEF Bucket
<1>3. QED
  BY <1>1, <1>2, FullIsEnough DEF Refilled

\* A bucket that can pay, pays.
LEMMA PaidIsBucket ==
  ASSUME NEW b \in Bucket, b.tokens >= Second
  PROVE  /\ Paid(b) \in Bucket /\ Paid(b).tokens = b.tokens - Second
         /\ Paid(b).updated = b.updated /\ Paid(b).last_seen = b.last_seen
  BY FullIsEnough DEF Paid, Bucket

\* A newcomer's bucket is full.
LEMMA NewIsBucket ==
  ASSUME now \in Nat
  PROVE  /\ NewBucket \in Bucket /\ NewBucket.tokens = Full
         /\ NewBucket.updated = now /\ NewBucket.last_seen = now
  BY FullIsEnough DEF NewBucket, Bucket

\* The clients that keep their place are known ones.
LEMMA KeptAreKnown == \A c \in Clients : Kept(c) \subseteq known /\ (c \in known => Kept(c) = known)
  BY DEF Kept, Sweeps

-----------------------------------------------------------------------------
(***************************************************************************)
(* What a call does, said once for all the invariants: the new bucket of   *)
(* the server, the new table.                                              *)
(***************************************************************************)

\* The bucket of the server after a call has the type of one, is up to date, and was
\* paid from exactly when the query was admitted.
LEMMA GlobalAfter ==
  ASSUME TypeOK, BucketsArePast, NEW c \in Clients, consume_rate_limit(c)
  PROVE  /\ global_rate' \in Bucket /\ global_rate'.updated = now
         /\ \/ /\ global_rate'.tokens = Refilled(global_rate).tokens
               /\ ~last'.admitted
            \/ /\ global_rate'.tokens = Refilled(global_rate).tokens - Second
               /\ last'.admitted
<1>1. /\ Refilled(global_rate) \in Bucket
      /\ Refilled(global_rate).updated = now
  BY RefilledIsBucket DEF TypeOK, BucketsArePast
<1>2. CASE GlobalLimit(c)
  BY <1>1, <1>2 DEF GlobalLimit
<1>3. CASE TableFull(c)
  BY <1>1, <1>3 DEF TableFull
<1>4. CASE ClientLimit(c)
  <2>1. /\ Refilled(global_rate).tokens >= Second
        /\ global_rate' = Charged(Refilled(global_rate), c)
        /\ last'.admitted = Admits(c)
    BY <1>4 DEF ClientLimit
  <2>2. /\ Paid(Refilled(global_rate)) \in Bucket
        /\ Paid(Refilled(global_rate)).tokens = Refilled(global_rate).tokens - Second
        /\ Paid(Refilled(global_rate)).updated = now
    BY <1>1, <2>1, PaidIsBucket
  <2>3. CASE Admits(c)
    BY <2>1, <2>2, <2>3 DEF Charged
  <2>4. CASE ~Admits(c)
    BY <1>1, <2>1, <2>4 DEF Charged
  <2>5. QED
    BY <2>3, <2>4
<1>5. QED
  BY <1>2, <1>3, <1>4 DEF consume_rate_limit

\* A client's bucket before it is charged: its own with what time brought, or a new one.
LEMMA ClientBucketIsBucket ==
  ASSUME TypeOK, BucketsArePast, NEW c \in Clients
  PROVE  /\ ClientBucket(c) \in Bucket
         /\ ClientBucket(c).updated = now /\ ClientBucket(c).last_seen = now
         /\ c \notin known => ClientBucket(c).tokens = Full
<1>1. CASE c \in known
  <2>1. client_rates[c] \in Bucket /\ client_rates[c].updated <= now /\ now \in Nat
    BY <1>1 DEF TypeOK, BucketsArePast
  <2>2. QED
    BY <1>1, <2>1, RefilledIsBucket DEF ClientBucket
<1>2. CASE c \notin known
  BY <1>2, NewIsBucket DEF TypeOK, ClientBucket
<1>3. QED
  BY <1>1, <1>2

\* Charging it keeps it a bucket, and takes the query out if that is admitted.
LEMMA ChargedIsBucket ==
  ASSUME TypeOK, BucketsArePast, NEW c \in Clients
  PROVE  LET b == Charged(ClientBucket(c), c)
         IN  /\ b \in Bucket /\ b.updated = now /\ b.last_seen = now
             /\ Admits(c) => b.tokens = ClientBucket(c).tokens - Second
             /\ ~Admits(c) => b.tokens = ClientBucket(c).tokens
<1>1. CASE Admits(c)
  BY <1>1, ClientBucketIsBucket, PaidIsBucket DEF Charged, Admits
<1>2. CASE ~Admits(c)
  BY <1>2, ClientBucketIsBucket DEF Charged
<1>3. QED
  BY <1>1, <1>2

\* A call that finds a place changes nobody else's bucket.
LEMMA ClientAfter ==
  ASSUME TypeOK, BucketsArePast, NEW c \in Clients, ClientLimit(c)
  PROVE  /\ known' = Kept(c) \cup {c} /\ known' \subseteq Clients
         /\ client_rates' \in [known' -> Bucket]
         /\ client_rates'[c] = Charged(ClientBucket(c), c)
         /\ \A d \in known' \ {c} : d \in known /\ client_rates'[d] = client_rates[d]
<1>1. client_rates' = [d \in Kept(c) \cup {c} |->
                         IF d = c THEN Charged(ClientBucket(c), c) ELSE client_rates[d]]
  BY DEF ClientLimit
<1>2. known' = Kept(c) \cup {c}
  BY <1>1 DEF known
<1>3. Kept(c) \subseteq known /\ known \subseteq Clients
  BY KeptAreKnown DEF TypeOK
<1>4. client_rates'[c] = Charged(ClientBucket(c), c)
  BY <1>1
<1>5. \A d \in known' \ {c} : d \in known /\ client_rates'[d] = client_rates[d]
  BY <1>1, <1>2, <1>3
<1>6. \A d \in known : client_rates[d] \in Bucket
  BY DEF TypeOK
<1>7. Charged(ClientBucket(c), c) \in Bucket
  BY ChargedIsBucket
<1>8. client_rates' \in [known' -> Bucket]
  BY <1>1, <1>2, <1>3, <1>6, <1>7
<1>9. QED
  BY <1>2, <1>3, <1>4, <1>5, <1>8

\* A full table only loses clients.
LEMMA TableAfter ==
  ASSUME TypeOK, NEW c \in Clients, TableFull(c)
  PROVE  /\ known' = Kept(c) /\ known' \subseteq known
         /\ client_rates' \in [known' -> Bucket]
         /\ \A d \in known' : client_rates'[d] = client_rates[d]
<1>1. client_rates' = [d \in Kept(c) |-> client_rates[d]]
  BY DEF TableFull
<1>2. known' = Kept(c)
  BY <1>1 DEF known
<1>3. QED
  BY <1>1, <1>2, KeptAreKnown DEF TypeOK

-----------------------------------------------------------------------------
(***************************************************************************)
(* Type correctness, the bound of the table and the order of the clock.    *)
(***************************************************************************)

Tabled == TypeOK /\ TableBounded /\ BucketsArePast

\* The table is finite, and what a full one keeps is no larger.
LEMMA TableIsFinite ==
  ASSUME TypeOK, NEW c \in Clients
  PROVE  /\ IsFiniteSet(known) /\ Cardinality(known) \in Nat
         /\ IsFiniteSet(Kept(c)) /\ Cardinality(Kept(c)) <= Cardinality(known)
         /\ Cardinality(Kept(c)) \in Nat
<1>1. IsFiniteSet(known)
  BY FS_Subset DEF TypeOK
<1>2. Kept(c) \subseteq known
  BY KeptAreKnown
<1>3. QED
  BY <1>1, <1>2, FS_Subset, FS_CardinalityType

\* A newcomer that finds a place does not overfill the table.
LEMMA PlaceFits ==
  ASSUME TypeOK, TableBounded, NEW c \in Clients, HasPlace(c)
  PROVE  Cardinality(Kept(c) \cup {c}) <= MaximumClients
<1>1. CASE c \in Kept(c)
  <2>1. Kept(c) \cup {c} = Kept(c)
    BY <1>1
  <2>2. QED
    BY <2>1, TableIsFinite DEF TableBounded
<1>2. CASE c \notin Kept(c)
  <2>1. Cardinality(Kept(c) \cup {c}) = Cardinality(Kept(c)) + 1
    BY <1>2, TableIsFinite, FS_AddElement
  <2>2. QED
    BY <1>2, <2>1, TableIsFinite DEF HasPlace
<1>3. QED
  BY <1>1, <1>2

\* What a call leaves alone, and the last call it records.
LEMMA CallFrame ==
  ASSUME TypeOK, NEW c \in Clients, consume_rate_limit(c)
  PROVE  /\ now' = now /\ opened' = opened
         /\ last_rate_cleanup' \in {last_rate_cleanup, now}
         /\ last' \in [client : Clients \cup {NoCall}, admitted : BOOLEAN]
         /\ last'.client = c
         /\ passed' \in {passed, passed + 1}
<1>1. CASE GlobalLimit(c)
  BY <1>1 DEF GlobalLimit
<1>2. CASE TableFull(c)
  BY <1>2 DEF TableFull, SweptAt
<1>3. CASE ClientLimit(c)
  <2>1. Admits(c) \in BOOLEAN
    BY DEF Admits
  <2>2. QED
    BY <1>3, <2>1 DEF ClientLimit, SweptAt
<1>4. QED
  BY <1>1, <1>2, <1>3 DEF consume_rate_limit

\* A call keeps the table typed, within its bound, and in the past.
LEMMA TableStep ==
  ASSUME Tabled, NEW c \in Clients, consume_rate_limit(c)
  PROVE  /\ known' \subseteq Clients /\ client_rates' \in [known' -> Bucket]
         /\ Cardinality(known') <= MaximumClients
         /\ \A d \in known' : client_rates'[d].updated <= now /\ client_rates'[d].last_seen <= now
<1> USE DEF Tabled
<1>0. now \in Nat
  BY DEF TypeOK
<1>1. CASE GlobalLimit(c)
  BY <1>1 DEF GlobalLimit, TypeOK, TableBounded, BucketsArePast, known
<1>2. CASE TableFull(c)
  <2>1. known' = Kept(c) /\ known' \subseteq known
    BY <1>2, TableAfter
  <2>2. Cardinality(known') <= MaximumClients
    BY <2>1, TableIsFinite DEF TableBounded
  <2>3. QED
    BY <1>2, <2>1, <2>2, TableAfter DEF TypeOK, BucketsArePast
<1>3. CASE ClientLimit(c)
  <2>1. Cardinality(known') <= MaximumClients
    BY <1>3, PlaceFits, ClientAfter DEF ClientLimit
  <2>2. ASSUME NEW d \in known'
        PROVE  client_rates'[d].updated <= now /\ client_rates'[d].last_seen <= now
    <3>1. CASE d = c
      BY <1>0, <1>3, <3>1, ClientAfter, ChargedIsBucket
    <3>2. CASE d # c
      BY <1>3, <3>2, ClientAfter DEF BucketsArePast
    <3>3. QED
      BY <3>1, <3>2
  <2>3. QED
    BY <1>3, <2>1, <2>2, ClientAfter
<1>4. QED
  BY <1>1, <1>2, <1>3 DEF consume_rate_limit

\* Every step keeps all three.
LEMMA TabledStep == Tabled /\ [Next]_vars => Tabled'
<1> SUFFICES ASSUME Tabled, [Next]_vars PROVE Tabled'
  OBVIOUS
<1> USE DEF Tabled
<1>1. ASSUME NEW c \in Clients, Ask(c) PROVE Tabled'
  <2>1. consume_rate_limit(c)
    BY <1>1 DEF Ask
  <2>2. /\ known' \subseteq Clients /\ client_rates' \in [known' -> Bucket]
        /\ Cardinality(known') <= MaximumClients
        /\ \A d \in known' : client_rates'[d].updated <= now /\ client_rates'[d].last_seen <= now
    BY <2>1, TableStep
  <2>3. global_rate' \in Bucket /\ global_rate'.updated = now
    BY <2>1, GlobalAfter
  <2>4. /\ now' = now /\ opened' = opened
        /\ last_rate_cleanup' \in {last_rate_cleanup, now}
        /\ last' \in [client : Clients \cup {NoCall}, admitted : BOOLEAN]
        /\ passed' \in {passed, passed + 1}
    BY <2>1, CallFrame
  <2>5. TypeOK'
    BY <2>2, <2>3, <2>4 DEF TypeOK, Bucket, Full
  <2>6. TableBounded' /\ BucketsArePast'
    BY <2>2, <2>3, <2>4 DEF TypeOK, TableBounded, BucketsArePast, Bucket
  <2>7. QED
    BY <2>5, <2>6
<1>2. ASSUME NEW c \in Clients, Drop(c) PROVE Tabled'
  BY <1>2 DEF Drop, TypeOK, TableBounded, BucketsArePast, Bucket, Full, known
<1>3. CASE Tick
  BY <1>3 DEF Tick, Silence, TypeOK, TableBounded, BucketsArePast, Bucket, Full, known
<1>4. CASE OpenWindow
  BY <1>4 DEF OpenWindow, TypeOK, TableBounded, BucketsArePast, Bucket, Full, known
<1>5. CASE UNCHANGED vars
  BY <1>5 DEF vars, TypeOK, TableBounded, BucketsArePast, Bucket, Full, known
<1>6. QED
  BY <1>1, <1>2, <1>3, <1>4, <1>5 DEF Next

\* They hold at the start.
LEMMA TabledInit == Init => Tabled
<1> SUFFICES ASSUME Init PROVE Tabled
  OBVIOUS
<1>1. known = {} /\ Cardinality({}) = 0
  BY FS_EmptySet DEF Init, known
<1>2. now = 0 /\ global_rate = NewBucket /\ NewBucket \in Bucket /\ NewBucket.updated = now
  BY NewIsBucket DEF Init
<1>3. TypeOK
  BY <1>1, <1>2 DEF Init, TypeOK, Silence
<1>4. TableBounded /\ BucketsArePast
  BY <1>1, <1>2 DEF TableBounded, BucketsArePast
<1>5. QED
  BY <1>3, <1>4 DEF Tabled

\* Every reachable state is typed; no bucket ever holds less than nothing or more
\* than the burst.
THEOREM TypeCorrect == Spec => []TypeOK
<1>1. Tabled => TypeOK
  BY DEF Tabled
<1>2. QED
  BY <1>1, TabledInit, TabledStep, PTL DEF Spec

\* The table never holds more clients than maximum_clients.
THEOREM TableIsBounded == Spec => []TableBounded
<1>1. Tabled => TableBounded
  BY DEF Tabled
<1>2. QED
  BY <1>1, TabledInit, TabledStep, PTL DEF Spec

-----------------------------------------------------------------------------
(***************************************************************************)
(* The server's rate. What was admitted in the window and what could be    *)
(* admitted now stay together within the burst and the rate times the      *)
(* window's length: a query moves a token from one to the other.           *)
(***************************************************************************)

\* A tick brings a bucket no more than the rate.
LEMMA TickRefills ==
  ASSUME NEW b \in Bucket, now \in Nat, now' = now + 1, b.updated <= now, NEW r,
         r = LET earned == b.tokens + (now' - b.updated) * Qps
             IN  IF earned > Full THEN Full ELSE earned
  PROVE  /\ r <= Refilled(b).tokens + Qps /\ r \in Nat
         /\ r = IF Refilled(b).tokens + Qps > Full THEN Full ELSE Refilled(b).tokens + Qps
<1>1. b.tokens \in 0 .. Full /\ b.updated \in Nat
  BY DEF Bucket
<1>2. PICK e \in Nat : e = (now - b.updated) * Qps
  BY <1>1, EarnedIsNat
<1>3. (now' - b.updated) * Qps = e + Qps
  <2>1. now' - b.updated = (now - b.updated) + 1 /\ now - b.updated \in Int
    BY <1>1
  <2>2. QED
    BY <1>2, <2>1, Products
<1>4. Refilled(b).tokens = IF b.tokens + e > Full THEN Full ELSE b.tokens + e
  BY <1>2 DEF Refilled
<1>5. r = IF b.tokens + (e + Qps) > Full THEN Full ELSE b.tokens + (e + Qps)
  BY <1>3
<1>6. QED
  BY <1>1, <1>2, <1>4, <1>5, FullIsEnough

\* A call keeps the window's bound.
LEMMA WindowCall ==
  ASSUME Tabled, WindowHolds, NEW c \in Clients, consume_rate_limit(c)
  PROVE  WindowHolds'
<1> USE DEF Tabled
<1>1. /\ now \in Nat /\ passed \in Nat /\ now' = now /\ opened' = opened
      /\ opened \in Nat \cup {NoWindow}
  BY CallFrame DEF TypeOK
<1>2. global_rate' \in Bucket /\ global_rate'.updated = now
  BY GlobalAfter
<1>3. Refilled(global_rate)' = Refilled(global_rate')
  BY <1>1 DEF Refilled
<1>4. Refilled(global_rate').tokens = global_rate'.tokens
  BY <1>1, <1>2, RefilledTwice
<1>5. Refilled(global_rate).tokens \in Nat
  BY RefilledIsBucket DEF TypeOK, BucketsArePast, Bucket
<1>6. /\ (passed + 1) * Second = passed * Second + Second
      /\ passed * Second \in Int
  BY <1>1, Products
<1>7. ASSUME opened # NoWindow
      PROVE  passed' * Second + global_rate'.tokens
               <= passed * Second + Refilled(global_rate).tokens
  <2>1. CASE last'.admitted
    <3>1. ClientLimit(c) /\ Admits(c)
      BY <2>1 DEF consume_rate_limit, GlobalLimit, TableFull, ClientLimit
    <3>2. passed' = passed + 1
      BY <1>7, <3>1 DEF ClientLimit
    <3>3. global_rate'.tokens = Refilled(global_rate).tokens - Second
      BY <2>1, GlobalAfter
    <3>4. passed' * Second = passed * Second + Second
      BY <1>6, <3>2
    <3>5. QED
      BY <1>5, <1>6, <3>3, <3>4
  <2>2. CASE ~last'.admitted
    <3>1. passed' = passed
      BY <2>2 DEF consume_rate_limit, GlobalLimit, TableFull, ClientLimit
    <3>2. QED
      BY <1>5, <1>6, <2>2, <3>1, GlobalAfter
  <2>3. QED
    BY <2>1, <2>2
<1>8. passed' \in Nat
  BY <1>1, CallFrame
<1>9. passed' * Second \in Int /\ global_rate'.tokens \in Int
  BY <1>2, <1>8 DEF Bucket
<1>10. ASSUME opened # NoWindow
       PROVE  /\ opened <= now
              /\ passed' * Second + global_rate'.tokens <= Full + Qps * (now - opened)
  <2>1. /\ opened <= now /\ opened \in Nat
        /\ passed * Second + Refilled(global_rate).tokens <= Full + Qps * (now - opened)
    BY <1>1, <1>10 DEF WindowHolds
  <2>2. Qps * (now - opened) \in Int
    BY <1>1, <2>1
  <2> DEFINE bound == Full + Qps * (now - opened)
  <2>3. bound \in Int
    BY <2>2, FullIsEnough
  <2> HIDE DEF bound
  <2>4. passed * Second + Refilled(global_rate).tokens <= bound
    BY <2>1 DEF bound
  <2>5. passed' * Second + global_rate'.tokens <= bound
    BY <1>5, <1>6, <1>7, <1>9, <1>10, <2>3, <2>4
  <2>6. QED
    BY <2>1, <2>5 DEF bound
<1>11. opened = NoWindow => passed' = 0
  BY DEF WindowHolds, consume_rate_limit, GlobalLimit, TableFull, ClientLimit
<1>12. QED
  BY <1>1, <1>3, <1>4, <1>10, <1>11 DEF WindowHolds, Full

\* Every step keeps it.
LEMMA WindowStep == Tabled /\ WindowHolds /\ [Next]_vars => WindowHolds'
<1> SUFFICES ASSUME Tabled, WindowHolds, [Next]_vars PROVE WindowHolds'
  OBVIOUS
<1>0. /\ now \in Nat /\ passed \in Nat /\ opened \in Nat \cup {NoWindow}
      /\ global_rate \in Bucket /\ global_rate.updated <= now
  BY DEF Tabled, TypeOK, BucketsArePast
<1>1. ASSUME NEW c \in Clients, Ask(c) PROVE WindowHolds'
  BY <1>1, WindowCall DEF Ask
<1>2. ASSUME NEW c \in Clients, Drop(c) PROVE WindowHolds'
  BY <1>2 DEF Drop, WindowHolds, Refilled, Full
<1>3. CASE Tick
  <2>1. now' = now + 1 /\ global_rate' = global_rate /\ opened' = opened /\ passed' = passed
    BY <1>3 DEF Tick
  <2>2. Refilled(global_rate)'.tokens <= Refilled(global_rate).tokens + Qps
    <3>1. Refilled(global_rate)'.tokens
            = LET earned == global_rate.tokens + (now' - global_rate.updated) * Qps
              IN  IF earned > Full THEN Full ELSE earned
      BY <2>1 DEF Refilled, Full
    <3>2. QED
      BY <1>0, <2>1, <3>1, TickRefills
  <2>3. Refilled(global_rate)'.tokens \in Int
    <3>1. Refilled(global_rate)'.tokens
            = LET earned == global_rate.tokens + (now' - global_rate.updated) * Qps
              IN  IF earned > Full THEN Full ELSE earned
      BY <2>1 DEF Refilled, Full
    <3>2. QED
      BY <1>0, <2>1, <3>1, TickRefills
  <2>4. Refilled(global_rate).tokens \in Int
    BY <1>0, RefilledIsBucket DEF Bucket
  <2>5. CASE opened # NoWindow
    <3>1. opened \in Nat /\ opened <= now
      BY <1>0, <2>5 DEF WindowHolds
    <3>2. PICK w \in Int : w = Qps * (now - opened)
      BY <1>0, <3>1
    <3>3. Qps * (now' - opened') = w + Qps
      <4>1. now' - opened' = (now - opened) + 1 /\ now - opened \in Int
        BY <1>0, <2>1, <3>1
      <4>2. QED
        BY <3>2, <4>1, Products
    <3>4. PICK p \in Int : p = passed * Second
      BY <1>0
    <3>5. p + Refilled(global_rate).tokens <= Full + w
      BY <2>5, <3>2, <3>4 DEF WindowHolds
    <3>6. p + Refilled(global_rate)'.tokens <= Full + (w + Qps)
      BY <2>2, <2>3, <2>4, <3>5, FullIsEnough
    <3>7. /\ opened' <= now'
          /\ passed' * Second + Refilled(global_rate)'.tokens <= Full + Qps * (now' - opened')
      BY <1>0, <2>1, <3>1, <3>3, <3>4, <3>6
    <3>8. opened' # NoWindow
      BY <2>1, <2>5
    <3>9. QED
      BY <3>7, <3>8 DEF WindowHolds, Full
  <2>6. CASE opened = NoWindow
    BY <2>1, <2>6 DEF WindowHolds
  <2>7. QED
    BY <2>5, <2>6
<1>4. CASE OpenWindow
  <2>1. passed = 0 /\ passed' = 0 /\ opened' = now /\ now' = now /\ global_rate' = global_rate
    BY <1>4 DEF OpenWindow, WindowHolds
  <2>2. passed' * Second = 0 /\ Qps * (now' - opened') = 0
    BY <1>0, <2>1, Products
  <2>3. Refilled(global_rate)'.tokens \in 0 .. Full
    <3>1. Refilled(global_rate)' = Refilled(global_rate)
      BY <2>1 DEF Refilled, Full
    <3>2. Refilled(global_rate) \in Bucket
      BY <1>0, RefilledIsBucket
    <3>3. QED
      BY <3>1, <3>2 DEF Bucket
  <2>4. opened' # NoWindow
    BY <1>0, <2>1
  <2>5. QED
    BY <1>0, <2>1, <2>2, <2>3, <2>4, FullIsEnough DEF WindowHolds, Full
<1>5. CASE UNCHANGED vars
  BY <1>5 DEF vars, WindowHolds, Refilled, Full
<1>6. QED
  BY <1>1, <1>2, <1>3, <1>4, <1>5 DEF Next

\* It holds at the start.
LEMMA WindowInit == Init => WindowHolds
  BY DEF Init, WindowHolds

\* In any span of time the server admits no more than the burst and what the rate
\* brings in that span, whoever asks, is forgotten and comes back.
THEOREM WindowIsBounded == Spec => []WindowBounded
<1>1. Tabled /\ WindowHolds => WindowBounded
  <2> SUFFICES ASSUME Tabled, WindowHolds, opened # NoWindow
               PROVE  passed * Second <= Full + Qps * (now - opened)
    BY DEF WindowBounded
  <2>1. Refilled(global_rate).tokens \in Nat
    BY RefilledIsBucket DEF Tabled, TypeOK, BucketsArePast, Bucket
  <2>2. /\ opened \in Nat /\ now \in Nat /\ passed \in Nat
        /\ passed * Second + Refilled(global_rate).tokens <= Full + Qps * (now - opened)
    BY DEF WindowHolds, Tabled, TypeOK
  <2>3. PICK w \in Int : w = Qps * (now - opened)
    BY <2>2
  <2>4. PICK p \in Int : p = passed * Second
    BY <2>2
  <2>5. p <= Full + w
    BY <2>1, <2>2, <2>3, <2>4, FullIsEnough
  <2>6. QED
    BY <2>3, <2>4, <2>5
<1>2. QED
  BY <1>1, TabledInit, TabledStep, WindowInit, WindowStep, PTL DEF Spec

-----------------------------------------------------------------------------
(***************************************************************************)
(* Who is kept out. The client's own bucket never refuses what the         *)
(* server's admits, and the table remembers nobody from before the idle    *)
(* time of its last sweep.                                                 *)
(***************************************************************************)

\* A call keeps the server's bucket the emptiest one.
LEMMA BindsCall ==
  ASSUME Tabled, GlobalBindsFirst, NEW c \in Clients, consume_rate_limit(c)
  PROVE  GlobalBindsFirst'
<1> USE DEF Tabled
<1>0. now \in Nat /\ now' = now
  BY CallFrame DEF TypeOK
<1>1. global_rate' \in Bucket /\ global_rate'.updated = now
  BY GlobalAfter
<1>2. Refilled(global_rate').tokens = global_rate'.tokens
  BY <1>0, <1>1, RefilledTwice
<1>3. /\ Refilled(global_rate).tokens \in 0 .. Full
      /\ global_rate'.tokens <= Refilled(global_rate).tokens
      /\ global_rate'.tokens \in Int
  <2>1. Refilled(global_rate) \in Bucket
    BY RefilledIsBucket DEF TypeOK, BucketsArePast
  <2>2. QED
    BY <1>1, <2>1, GlobalAfter, FullIsEnough DEF Bucket
<1>4. ASSUME NEW d \in known, d \in known', client_rates'[d] = client_rates[d]
      PROVE  global_rate'.tokens <= Refilled(client_rates'[d]).tokens
  <2>1. Refilled(client_rates[d]).tokens \in 0 .. Full
    BY RefilledIsBucket DEF TypeOK, BucketsArePast, Bucket
  <2>2. QED
    BY <1>3, <1>4, <2>1 DEF GlobalBindsFirst
<1>5. ASSUME NEW d \in known' PROVE global_rate'.tokens <= Refilled(client_rates'[d]).tokens
  <2>1. CASE GlobalLimit(c)
    BY <1>4, <2>1 DEF GlobalLimit, known
  <2>2. CASE TableFull(c)
    BY <1>4, <2>2, TableAfter
  <2>3. CASE ClientLimit(c) /\ d # c
    BY <1>4, <2>3, ClientAfter
  <2>4. CASE ClientLimit(c) /\ d = c
    <3> DEFINE b == Charged(ClientBucket(c), c)
    <3>1. /\ b \in Bucket /\ b.updated = now
          /\ Admits(c) => b.tokens = ClientBucket(c).tokens - Second
          /\ ~Admits(c) => b.tokens = ClientBucket(c).tokens
      BY ChargedIsBucket
    <3>2. client_rates'[c] = b
      BY <2>4, ClientAfter
    <3> HIDE DEF b
    <3>3. Refilled(client_rates'[c]).tokens = b.tokens
      BY <1>0, <3>1, <3>2, RefilledTwice
    <3>4. ClientBucket(c).tokens \in 0 .. Full
      BY ClientBucketIsBucket DEF Bucket
    <3>5. Refilled(global_rate).tokens <= ClientBucket(c).tokens
      <4>1. CASE c \in known
        BY <4>1 DEF GlobalBindsFirst, ClientBucket
      <4>2. CASE c \notin known
        BY <1>3, <4>2, ClientBucketIsBucket, FullIsEnough
      <4>3. QED
        BY <4>1, <4>2
    <3>6. Admits(c) => global_rate'.tokens = Refilled(global_rate).tokens - Second
      <4>1. ASSUME Admits(c)
            PROVE  global_rate'.tokens = Refilled(global_rate).tokens - Second
        <5>1. last'.admitted
          BY <2>4, <4>1 DEF ClientLimit
        <5>2. QED
          BY <5>1, GlobalAfter
      <4>2. QED
        BY <4>1
    <3>7. QED
      BY <1>3, <2>4, <3>1, <3>3, <3>4, <3>5, <3>6
  <2>5. QED
    BY <2>1, <2>2, <2>3, <2>4 DEF consume_rate_limit
<1>6. QED
  BY <1>0, <1>2, <1>5 DEF GlobalBindsFirst, Refilled, Full, known

\* Every step keeps it so.
LEMMA BindsStep == Tabled /\ GlobalBindsFirst /\ [Next]_vars => GlobalBindsFirst'
<1> SUFFICES ASSUME Tabled, GlobalBindsFirst, [Next]_vars PROVE GlobalBindsFirst'
  OBVIOUS
<1>1. ASSUME NEW c \in Clients, Ask(c) PROVE GlobalBindsFirst'
  BY <1>1, BindsCall DEF Ask
<1>2. ASSUME NEW c \in Clients, Drop(c) PROVE GlobalBindsFirst'
  BY <1>2 DEF Drop, GlobalBindsFirst, Refilled, Full, known
<1>3. CASE Tick
  <2>1. /\ now' = now + 1 /\ global_rate' = global_rate /\ client_rates' = client_rates
        /\ now \in Nat /\ known' = known
    BY <1>3 DEF Tick, Tabled, TypeOK, known
  <2> DEFINE Later(b) == LET earned == b.tokens + (now' - b.updated) * Qps
                         IN  IF earned > Full THEN Full ELSE earned
             Capped(n) == IF n > Full THEN Full ELSE n
  <2>2. ASSUME NEW b \in Bucket, b.updated <= now
        PROVE  /\ Later(b) = Capped(Refilled(b).tokens + Qps)
               /\ Refilled(b).tokens \in Nat
    <3>1. Refilled(b).tokens \in Nat
      BY <2>1, <2>2, RefilledIsBucket DEF Bucket
    <3>2. Later(b) = Capped(Refilled(b).tokens + Qps)
      BY <2>1, <2>2, TickRefills
    <3>3. QED
      BY <3>1, <3>2
  <2>3. ASSUME NEW d \in known PROVE Later(global_rate) <= Later(client_rates[d])
    <3>1. /\ global_rate \in Bucket /\ global_rate.updated <= now
          /\ client_rates[d] \in Bucket /\ client_rates[d].updated <= now
      BY DEF Tabled, TypeOK, BucketsArePast
    <3>2. Refilled(global_rate).tokens <= Refilled(client_rates[d]).tokens
      BY DEF GlobalBindsFirst
    <3> HIDE DEF Later
    <3>3. QED
      BY <2>2, <3>1, <3>2, FullIsEnough
  <2>4. QED
    BY <2>1, <2>3 DEF GlobalBindsFirst, Refilled, Full
<1>4. CASE OpenWindow
  BY <1>4 DEF OpenWindow, GlobalBindsFirst, Refilled, Full, known
<1>5. CASE UNCHANGED vars
  BY <1>5 DEF vars, GlobalBindsFirst, Refilled, Full, known
<1>6. QED
  BY <1>1, <1>2, <1>3, <1>4, <1>5 DEF Next

\* Every step keeps the table free of clients that were idle when it was last swept.
LEMMA SeenStep == Tabled /\ SeenSinceSweep /\ [Next]_vars => SeenSinceSweep'
<1> SUFFICES ASSUME Tabled, SeenSinceSweep, [Next]_vars PROVE SeenSinceSweep'
  OBVIOUS
<1>0. /\ now \in Nat /\ last_rate_cleanup \in 0 .. now
      /\ \A d \in known : client_rates[d].last_seen \in Nat
  BY DEF Tabled, TypeOK, Bucket
<1>1. ASSUME NEW c \in Clients, Ask(c) PROVE SeenSinceSweep'
  <2>1. ASSUME NEW d \in Kept(c) PROVE client_rates[d].last_seen >= SweptAt(c) - IdleTime
    <3>1. d \in known
      BY KeptAreKnown
    <3>2. CASE Sweeps(c)
      BY <1>0, <3>1, <3>2 DEF Kept, SweptAt, Idle
    <3>3. CASE ~Sweeps(c)
      BY <1>0, <3>1, <3>3 DEF SweptAt, SeenSinceSweep
    <3>4. QED
      BY <3>2, <3>3
  <2>2. CASE GlobalLimit(c)
    BY <2>2 DEF GlobalLimit, SeenSinceSweep, known
  <2>3. CASE TableFull(c)
    <3>1. last_rate_cleanup' = SweptAt(c)
      BY <2>3 DEF TableFull
    <3>2. QED
      BY <2>1, <2>3, <3>1, TableAfter DEF SeenSinceSweep, Tabled
  <2>4. CASE ClientLimit(c)
    <3>1. last_rate_cleanup' = SweptAt(c) /\ SweptAt(c) \in 0 .. now
      BY <1>0, <2>4 DEF ClientLimit, SweptAt
    <3>2. client_rates'[c].last_seen = now
      BY <2>4, ClientAfter, ChargedIsBucket DEF Tabled
    <3>3. ASSUME NEW d \in known', d # c PROVE d \in Kept(c) /\ client_rates'[d] = client_rates[d]
      BY <2>4, <3>3, ClientAfter DEF Tabled
    <3>4. QED
      BY <1>0, <2>1, <3>1, <3>2, <3>3 DEF SeenSinceSweep
  <2>5. QED
    BY <1>1, <2>2, <2>3, <2>4 DEF Ask, consume_rate_limit
<1>2. ASSUME NEW c \in Clients, Drop(c) PROVE SeenSinceSweep'
  BY <1>2 DEF Drop, SeenSinceSweep, known
<1>3. CASE Tick \/ OpenWindow \/ UNCHANGED vars
  BY <1>3 DEF Tick, OpenWindow, vars, SeenSinceSweep, known
<1>4. QED
  BY <1>1, <1>2, <1>3 DEF Next

\* A call refuses a listed client for the reasons the property names.
LEMMA KeepOutCall ==
  ASSUME Tabled, GlobalBindsFirst, SeenSinceSweep, NEW c \in Clients, consume_rate_limit(c)
  PROVE  OnlyActiveClientsKeepOut'
<1> USE DEF Tabled
<1>0. now \in Nat /\ now' = now /\ last'.client = c
  BY CallFrame DEF TypeOK
<1>1. CASE GlobalLimit(c)
  <2>1. ~(global_rate'.tokens >= Second)
    <3>1. Refilled(global_rate) \in Bucket
      BY RefilledIsBucket DEF TypeOK, BucketsArePast
    <3>2. QED
      BY <1>1, <3>1 DEF GlobalLimit, Bucket
  <2>2. QED
    BY <2>1 DEF OnlyActiveClientsKeepOut
<1>2. CASE TableFull(c)
  <2>1. /\ known' = Kept(c) /\ Kept(c) \subseteq known
        /\ \A d \in known' : client_rates'[d] = client_rates[d]
    BY <1>2, TableAfter
  <2>2. c \notin Kept(c) /\ ~(Cardinality(Kept(c)) < MaximumClients)
    BY <1>2 DEF TableFull, HasPlace
  <2>3. Cardinality(Kept(c)) = MaximumClients
    BY <2>2, TableIsFinite DEF TableBounded
  <2>4. c \notin known
    BY <2>2, KeptAreKnown
  <2>5. ASSUME NEW d \in Kept(c)
        PROVE  now - client_rates[d].last_seen <= IdleTime + CleanupInterval
    <3>1. client_rates[d].last_seen \in Nat /\ last_rate_cleanup \in Nat /\ d \in known
      BY <2>1 DEF TypeOK, Bucket
    <3>2. CASE Sweeps(c)
      BY <1>0, <3>1, <3>2 DEF Kept, Idle
    <3>3. CASE ~Sweeps(c)
      <4>1. Kept(c) = known
        BY <3>3 DEF Kept
      <4>2. now - last_rate_cleanup < CleanupInterval
        BY <1>0, <2>3, <2>4, <3>1, <3>3, <4>1, TableIsFinite DEF Sweeps
      <4>3. client_rates[d].last_seen >= last_rate_cleanup - IdleTime
        BY <3>1 DEF SeenSinceSweep
      <4>4. QED
        BY <1>0, <3>1, <4>2, <4>3
    <3>4. QED
      BY <3>2, <3>3
  <2>6. QED
    BY <1>0, <2>1, <2>2, <2>3, <2>5 DEF OnlyActiveClientsKeepOut, known
<1>3. CASE ClientLimit(c)
  <2>1. Refilled(global_rate) \in Bucket
    BY RefilledIsBucket DEF TypeOK, BucketsArePast
  <2>2. ClientBucket(c).tokens \in 0 .. Full
    BY ClientBucketIsBucket DEF Bucket
  <2>3. Refilled(global_rate).tokens <= ClientBucket(c).tokens
    <3>1. CASE c \in known
      BY <3>1 DEF GlobalBindsFirst, ClientBucket
    <3>2. CASE c \notin known
      BY <2>1, <3>2, ClientBucketIsBucket, FullIsEnough DEF Bucket
    <3>3. QED
      BY <3>1, <3>2
  <2>4. Admits(c)
    BY <1>3, <2>1, <2>2, <2>3, FullIsEnough DEF ClientLimit, Admits, Bucket
  <2>5. last'.admitted
    BY <1>3, <2>4 DEF ClientLimit
  <2>6. QED
    BY <2>5 DEF OnlyActiveClientsKeepOut
<1>4. QED
  BY <1>1, <1>2, <1>3 DEF consume_rate_limit

KeepsOut == Tabled /\ GlobalBindsFirst /\ SeenSinceSweep /\ OnlyActiveClientsKeepOut

\* Every step keeps the property.
LEMMA KeepOutStep == KeepsOut /\ [Next]_vars => OnlyActiveClientsKeepOut'
<1> SUFFICES ASSUME KeepsOut, [Next]_vars PROVE OnlyActiveClientsKeepOut'
  OBVIOUS
<1> USE DEF KeepsOut
<1>1. ASSUME NEW c \in Clients, Ask(c) PROVE OnlyActiveClientsKeepOut'
  BY <1>1, KeepOutCall DEF Ask
<1>2. ASSUME NEW c \in Clients, Drop(c) PROVE OnlyActiveClientsKeepOut'
  <2>1. last'.client = c /\ ~is_client_allowed(c)
    BY <1>2 DEF Drop
  <2>2. QED
    BY <2>1 DEF OnlyActiveClientsKeepOut, is_client_allowed, network_contains, allowed_clients,
                parse_client_network
<1>3. CASE Tick
  <2>1. last'.client = NoCall
    BY <1>3 DEF Tick, Silence
  <2>2. QED
    BY <2>1 DEF OnlyActiveClientsKeepOut
<1>4. CASE OpenWindow \/ UNCHANGED vars
  <2>1. /\ now' = now /\ last' = last /\ client_rates' = client_rates
        /\ global_rate' = global_rate
    BY <1>4 DEF OpenWindow, vars
  <2>2. QED
    BY <2>1 DEF OnlyActiveClientsKeepOut, known, is_client_allowed, network_contains,
                allowed_clients, parse_client_network
<1>5. QED
  BY <1>1, <1>2, <1>3, <1>4 DEF Next

\* All of it holds at the start: nobody is known, nobody has asked.
LEMMA KeepOutInit == Init => KeepsOut
<1> SUFFICES ASSUME Init PROVE KeepsOut
  OBVIOUS
<1>1. known = {} /\ last.client = NoCall
  BY DEF Init, known, Silence
<1>2. GlobalBindsFirst /\ SeenSinceSweep /\ OnlyActiveClientsKeepOut
  BY <1>1 DEF GlobalBindsFirst, SeenSinceSweep, OnlyActiveClientsKeepOut
<1>3. QED
  BY <1>2, TabledInit DEF KeepsOut

\* A listed client is refused, while the server has a token, only as a newcomer to a
\* full table of clients that are all active.
THEOREM OnlyTheActiveKeepOut == Spec => []OnlyActiveClientsKeepOut
<1>1. KeepsOut /\ [Next]_vars => KeepsOut'
  BY TabledStep, BindsStep, SeenStep, KeepOutStep DEF KeepsOut
<1>2. KeepsOut => OnlyActiveClientsKeepOut
  BY DEF KeepsOut
<1>3. QED
  BY <1>1, <1>2, KeepOutInit, PTL DEF Spec

-----------------------------------------------------------------------------
(***************************************************************************)
(* Networks. A comparison of masked bytes is one of their leading bits:    *)
(* that takes the powers of two, which double (there are twice as many     *)
(* subsets with one more element), and induction on the exponent.          *)
(***************************************************************************)

\* Induction over the naturals, for sets: what is left out has no least element.
LEMMA SetInduction ==
  ASSUME NEW S \in SUBSET Nat, 0 \in S, \A n \in S : n + 1 \in S
  PROVE  S = Nat
<1> DEFINE R == OpToRel(<, Nat)
<1>1. IsWellFoundedOn(R, Nat)
  BY NatLessThanWellFounded
<1>2. \A x, y \in Nat : x < y => <<x, y>> \in R
  BY DEF OpToRel
<1> HIDE DEF R
<1>3. SUFFICES ASSUME Nat \ S # {} PROVE FALSE
  OBVIOUS
<1>4. PICK m \in Nat \ S : \A n \in Nat \ S : ~(<<n, m>> \in R)
  BY <1>1, <1>3, WFMin
<1>5. m # 0 /\ m - 1 \in Nat /\ m - 1 < m
  BY <1>4
<1>6. m - 1 \in S
  BY <1>2, <1>4, <1>5
<1>7. (m - 1) + 1 \in S
  BY <1>6
<1>8. QED
  BY <1>4, <1>7

LEMMA PowersDouble ==
  ASSUME NEW n \in Nat
  PROVE  2 ^ n \in Nat /\ 2 ^ (n + 1) = 2 * 2 ^ n
<1> DEFINE S     == 1 .. n
           Old   == SUBSET S
           New   == {X \cup {n + 1} : X \in Old}
           Add   == [X \in Old |-> X \cup {n + 1}]
<1>1. /\ IsFiniteSet(Old) /\ Cardinality(Old) = 2 ^ n
      /\ Cardinality(SUBSET (1 .. n + 1)) = 2 ^ (n + 1)
  <2>1. /\ IsFiniteSet(S) /\ Cardinality(S) = n
        /\ IsFiniteSet(1 .. n + 1) /\ Cardinality(1 .. n + 1) = n + 1
    BY FS_Interval
  <2> HIDE DEF S
  <2>2. IsFiniteSet(SUBSET S) /\ Cardinality(SUBSET S) = 2 ^ Cardinality(S)
    BY <2>1, FS_SUBSET
  <2>3. Cardinality(SUBSET (1 .. n + 1)) = 2 ^ Cardinality(1 .. n + 1)
    BY <2>1, FS_SUBSET
  <2>4. QED
    BY <2>1, <2>2, <2>3
<1>2. n + 1 \notin S /\ 1 .. n + 1 = S \cup {n + 1}
  OBVIOUS
<1>3. SUBSET (1 .. n + 1) = Old \cup New
  <2>1. ASSUME NEW X \in SUBSET (1 .. n + 1), n + 1 \in X
        PROVE  X \in New
    <3>1. X \ {n + 1} \in Old
      BY <1>2, <2>1
    <3>2. X = (X \ {n + 1}) \cup {n + 1}
      BY <2>1
    <3>3. QED
      BY <3>1, <3>2
  <2>2. ASSUME NEW X \in SUBSET (1 .. n + 1), n + 1 \notin X
        PROVE  X \in Old
    BY <1>2, <2>2
  <2>3. Old \cup New \subseteq SUBSET (1 .. n + 1)
    BY <1>2
  <2>4. QED
    BY <2>1, <2>2, <2>3
<1>4. \A X \in New : n + 1 \in X
  OBVIOUS
<1>5. Old \cap New = {}
  BY <1>2, <1>4
<1>6. Add \in Surjection(Old, New)
  BY DEF Surjection
<1>7. Add \in Injection(Old, New)
  <2>1. ASSUME NEW X \in Old, NEW Y \in Old, Add[X] = Add[Y]
        PROVE  X = Y
    <3>1. X \cup {n + 1} = Y \cup {n + 1} /\ n + 1 \notin X /\ n + 1 \notin Y
      BY <1>2, <2>1
    <3>2. QED
      BY <3>1
  <2>2. QED
    BY <1>6, <2>1 DEF Injection, Surjection, IsInjective
<1>8. IsFiniteSet(New) /\ Cardinality(New) = Cardinality(Old)
  BY <1>1, <1>6, <1>7, FS_Surjection
<1> HIDE DEF S, Old, New, Add
<1>9. Cardinality(Old \cap New) = 0
  BY <1>5, FS_EmptySet
<1>10. Cardinality(Old \cup New) = Cardinality(Old) + Cardinality(New) - 0
  BY <1>1, <1>8, <1>9, FS_Union
<1>11. Cardinality(Old) \in Nat
  BY <1>1, FS_CardinalityType
<1> DEFINE p == 2 ^ n
           d == 2 ^ (n + 1)
<1>12. Cardinality(Old) = p /\ Cardinality(SUBSET (1 .. n + 1)) = d
  BY <1>1
<1> HIDE DEF p, d
<1>13. Cardinality(Old \cup New) = d
  BY <1>3, <1>12, Zenon
<1>14. p \in Nat /\ d = p + p - 0
  BY <1>8, <1>10, <1>11, <1>12, <1>13
<1>15. p \in Nat /\ d = 2 * p
  BY <1>14
<1>16. QED
  BY <1>15 DEF p, d

LEMMA PowersPositive == \A n \in Nat : 2 ^ n \in Nat \ {0}
<1> DEFINE S == {n \in Nat : 2 ^ n \in Nat \ {0}}
<1>1. 0 \in S
  OBVIOUS
<1>2. ASSUME NEW n \in S PROVE n + 1 \in S
  <2>1. 2 ^ (n + 1) = 2 * 2 ^ n /\ 2 ^ n \in Nat \ {0}
    BY PowersDouble
  <2>2. QED
    BY <2>1
<1> HIDE DEF S
<1>3. S = Nat
  <2>1. S \in SUBSET Nat
    BY DEF S
  <2>2. QED
    BY <1>1, <1>2, <2>1, SetInduction
<1>4. QED
  BY <1>3 DEF S

\* All bits of a byte but the last k.
Leading(byte, k) == byte \div 2 ^ k

\* Who agrees in the leading bits agrees in fewer of them.
LEMMA FewerBits ==
  ASSUME NEW a \in Nat, NEW b \in Nat, NEW j \in Nat, Leading(a, j) = Leading(b, j)
  PROVE  \A m \in Nat : Leading(a, j + m) = Leading(b, j + m)
<1> USE DEF Leading
<1> DEFINE S == {m \in Nat : a \div 2 ^ (j + m) = b \div 2 ^ (j + m)}
<1>1. 0 \in S
  OBVIOUS
<1>2. ASSUME NEW m \in S PROVE m + 1 \in S
  <2> DEFINE k == 2 ^ (j + m)
  <2>1. k \in Nat \ {0} /\ 2 ^ (j + (m + 1)) = k * 2
    <3>1. j + m \in Nat /\ j + (m + 1) = (j + m) + 1
      OBVIOUS
    <3>2. k \in Nat \ {0} /\ 2 ^ ((j + m) + 1) = 2 * k
      BY <3>1, PowersDouble, PowersPositive
    <3>3. QED
      BY <3>1, <3>2
  <2>2. a \div k = b \div k
    OBVIOUS
  <2> HIDE DEF k
  <2>3. \A x \in Nat : (x \div k) \div 2 = x \div (k * 2)
    BY <2>1
  <2>4. QED
    BY <2>1, <2>2, <2>3
<1> HIDE DEF S
<1>3. S = Nat
  <2>1. S \in SUBSET Nat
    BY DEF S
  <2>2. QED
    BY <1>1, <1>2, <2>1, SetInduction
<1>4. QED
  BY <1>3 DEF S

\* The position of a bit: its byte, and its place in it.
LEMMA Places ==
  ASSUME NEW x \in Nat, NEW k \in Nat \ {0}
  PROVE  /\ x \div k \in Nat /\ x % k \in 0 .. k - 1
         /\ x = k * (x \div k) + (x % k)
  OBVIOUS

LEMMA Before ==
  ASSUME NEW k \in Nat \ {0}, NEW v \in Nat, NEW w \in Nat,
         NEW r \in 0 .. k - 1, NEW s \in 0 .. k - 1, k * v + r < k * w + s
  PROVE  v < w \/ (v = w /\ r < s)
<1>1. CASE v > w
  <2>1. PICK d \in Nat \ {0} : v = w + d
    <3>1. v - w \in Nat \ {0} /\ v = w + (v - w)
      BY <1>1
    <3>2. QED
      BY <3>1
  <2>2. k * v = k * w + k * d /\ k * d >= k
    BY <2>1
  <2>3. QED
    BY <2>2
<1>2. QED
  BY <1>1

\* network_contains() compares whole bytes, and the leading bits of the next one:
\* together, all the bits of the prefix.
LEMMA ContainsAgrees ==
  ASSUME NEW c \in Clients, NEW network \in allowed_clients, network_contains(network, c)
  PROVE  /\ network.family = c.family
         /\ \A i \in 1 .. network.prefix : Bit(network.address, i) = Bit(c.address, i)
<1> DEFINE a == network.address
           b == c.address
           whole     == network.prefix \div ByteBits
           remaining == network.prefix % ByteBits
           Masked(byte) == byte \div 2 ^ (ByteBits - remaining)
<1>1. /\ a \in Seq(Nat) /\ b \in Seq(Nat) /\ ByteBits \in Nat \ {0}
      /\ network.prefix \in Nat /\ network.prefix <= ByteBits * Len(a)
      /\ network.family = c.family => Len(a) = Len(b)
  <2>1. PICK text \in AllowClients \cup Loopback : network = parse_client_network(text)
    BY DEF allowed_clients
  <2>2. /\ a = text.address /\ network.family = text.family
        /\ network.prefix = IF text.prefix = NoPrefix THEN ByteBits * Len(text.address)
                            ELSE text.prefix
    BY <2>1, NetworkAssumption DEF parse_client_network
  <2>3. Len(text.address) \in Nat /\ ByteBits * Len(text.address) \in Nat
    BY NetworkAssumption
  <2>4. QED
    BY <2>2, <2>3, NetworkAssumption
<1>2. /\ network.family = c.family
      /\ \A i \in 1 .. whole : a[i] = b[i]
      /\ remaining > 0 => Masked(a[whole + 1]) = Masked(b[whole + 1])
  BY DEF network_contains
<1>3. ASSUME NEW i \in 1 .. network.prefix PROVE Bit(a, i) = Bit(b, i)
  <2> DEFINE byte == (i - 1) \div ByteBits
             at   == (i - 1) % ByteBits
  <2>1. byte \in Nat /\ at \in 0 .. ByteBits - 1 /\ i - 1 = ByteBits * byte + at
    <3>1. i - 1 \in Nat
      BY <1>1
    <3>2. QED
      BY <1>1, <3>1, Places
  <2>2. /\ whole \in Nat /\ remaining \in 0 .. ByteBits - 1
        /\ network.prefix = ByteBits * whole + remaining
    BY <1>1, Places
  <2>3. /\ Bit(a, i) = (a[byte + 1] \div 2 ^ (ByteBits - 1 - at)) % 2
        /\ Bit(b, i) = (b[byte + 1] \div 2 ^ (ByteBits - 1 - at)) % 2
    BY DEF Bit
  <2>4. remaining > 0 => a[whole + 1] \div 2 ^ (ByteBits - remaining)
                           = b[whole + 1] \div 2 ^ (ByteBits - remaining)
    BY <1>2
  <2> HIDE DEF byte, at, a, b, whole, remaining
  <2>5. byte < whole \/ (byte = whole /\ at < remaining)
    <3>1. ByteBits * byte + at < ByteBits * whole + remaining
      BY <1>1, <2>1, <2>2
    <3>2. QED
      BY <1>1, <2>1, <2>2, <3>1, Before
  <2>6. CASE byte < whole
    <3>1. byte + 1 \in 1 .. whole
      BY <2>1, <2>2, <2>6
    <3>2. a[byte + 1] = b[byte + 1]
      BY <1>2, <3>1
    <3>3. QED
      BY <2>3, <3>2
  <2>7. CASE byte = whole /\ at < remaining
    <3> DEFINE j == ByteBits - remaining
               m == remaining - 1 - at
               x == a[whole + 1]
               y == b[whole + 1]
    <3>1. j \in Nat /\ m \in Nat /\ j + m = ByteBits - 1 - at /\ remaining > 0
      BY <1>1, <2>1, <2>2, <2>7
    <3>2. whole + 1 \in 1 .. Len(a)
      <4>1. ByteBits * whole + remaining <= ByteBits * Len(a) + 0 /\ Len(a) \in Nat
        BY <1>1, <2>2
      <4>2. ByteBits * whole + 0 < ByteBits * Len(a) + 0
        BY <1>1, <2>2, <3>1, <4>1
      <4>3. 0 \in 0 .. ByteBits - 1 /\ whole < Len(a)
        <5>1. 0 \in 0 .. ByteBits - 1
          BY <1>1
        <5>2. whole < Len(a) \/ (whole = Len(a) /\ 0 < 0)
          BY <1>1, <2>2, <4>1, <4>2, <5>1, Before
        <5>3. QED
          BY <5>1, <5>2
      <4>4. QED
        BY <2>2, <4>1, <4>3
    <3>3. x \in Nat /\ y \in Nat
      BY <1>1, <1>2, <3>2
    <3>4. Leading(x, j) = Leading(y, j)
      BY <2>4, <3>1 DEF Leading
    <3> HIDE DEF j, m, x, y
    <3>5. Leading(x, j + m) = Leading(y, j + m)
      BY <3>1, <3>3, <3>4, FewerBits
    <3>6. Leading(x, ByteBits - 1 - at) = Leading(y, ByteBits - 1 - at)
      BY <3>1, <3>5
    <3>7. QED
      BY <2>3, <2>7, <3>6 DEF x, y, Leading
  <2>8. QED
    BY <2>5, <2>6, <2>7 DEF a, b
<1>4. QED
  BY <1>2, <1>3

\* Who has a bucket, or was admitted last, passed is_client_allowed().
Screened ==
  \A c \in known \cup (IF last.admitted THEN {last.client} ELSE {}) :
    c \in Clients /\ is_client_allowed(c)

LEMMA ScreenedInit == Init => Screened
  BY DEF Init, Screened, known, Silence

LEMMA ScreenedStep == Tabled /\ Screened /\ [Next]_vars => Screened'
<1> SUFFICES ASSUME Tabled, Screened, [Next]_vars PROVE Screened'
  OBVIOUS
<1>1. TypeOK /\ BucketsArePast
  BY DEF Tabled
<1>2. \A c : is_client_allowed(c)' <=> is_client_allowed(c)
  BY DEF is_client_allowed, network_contains, allowed_clients, parse_client_network
<1>3. ASSUME NEW c \in Clients, Ask(c) PROVE Screened'
  <2>1. is_client_allowed(c) /\ consume_rate_limit(c)
    BY <1>3 DEF Ask
  <2>2. last'.client = c
    BY <2>1 DEF consume_rate_limit, GlobalLimit, TableFull, ClientLimit
  <2>3. known' \subseteq known \cup {c}
    <3>1. CASE GlobalLimit(c)
      BY <3>1 DEF GlobalLimit, known
    <3>2. CASE TableFull(c)
      BY <1>1, <3>2, TableAfter
    <3>3. CASE ClientLimit(c)
      BY <1>1, <3>3, ClientAfter, KeptAreKnown
    <3>4. QED
      BY <2>1, <3>1, <3>2, <3>3 DEF consume_rate_limit
  <2>4. QED
    BY <1>2, <2>1, <2>2, <2>3 DEF Screened
<1>4. ASSUME NEW c \in Clients, Drop(c) PROVE Screened'
  BY <1>2, <1>4 DEF Drop, Screened, known
<1>5. CASE Tick
  BY <1>2, <1>5 DEF Tick, Silence, Screened, known
<1>6. CASE OpenWindow \/ UNCHANGED vars
  BY <1>2, <1>6 DEF OpenWindow, vars, Screened, known
<1>7. QED
  BY <1>3, <1>4, <1>5, <1>6 DEF Next

\* Nobody is served, or takes a place in the table, who does not agree with an allowed
\* network of its family in every bit of the prefix: comparing whole bytes and a masked
\* one (network_contains(), Behind.cpp) leaves no bit out.
THEOREM AdmittedWereListed == Spec => []AdmittedAreListed
<1>1. Screened => AdmittedAreListed
  BY ContainsAgrees DEF Screened, is_client_allowed, AdmittedAreListed
<1>2. QED
  BY <1>1, TabledInit, TabledStep, ScreenedInit, ScreenedStep, PTL DEF Spec
=============================================================================
