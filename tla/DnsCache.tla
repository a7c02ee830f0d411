------------------------------ MODULE DnsCache ------------------------------
(***************************************************************************)
(* dns::Cache: a list of entries in order of use, an index of iterators    *)
(* into it and a byte counter. The counter is unsigned, and the eviction   *)
(* loop subtracts it from the limit. A call runs to its end, so an action  *)
(* is a whole call; the clock moves between calls.                         *)
(***************************************************************************)
EXTENDS Integers, Sequences, SequencesExt, FiniteSetsExt

CONSTANTS
  Keys,          \* lower-cased name, type and class
  Nodes,         \* addresses of list nodes
  Null,          \* no node
  Messages,      \* the answers of upstreams
  Override,      \* key -> min_ttl_override_for() its name, or -1
  FailureTtls,   \* what insert_failure is asked for, in seconds
  MaxEntries,    \* max_entries_
  MaxBytes,      \* max_bytes_
  MaxEntrySize,  \* max_entry_size_
  MaxTtl,        \* max_ttl_, in seconds
  Second,        \* clock ticks in a second
  SizeModulus,   \* one more than the largest size_t
  Horizon        \* bound on the clock

\* A message: its rcode, the times to live of its answers, at most one SOA record with
\* its minimum, and message_size() of it.
Message == [rcode : {"NOERROR", "NXDOMAIN", "other"}, answers : SUBSET Nat,
            soa : SUBSET [ttl : Nat, minimum : Nat], size : Nat \ {0}]

ASSUME DnsCacheAssumption ==
  /\ Messages \subseteq Message /\ FailureTtls \subseteq Nat
  /\ Override \in [Keys -> Int] /\ Null \notin Nodes
  /\ MaxEntries \in Nat \ {0} /\ MaxTtl \in Nat \ {0} /\ Second \in Nat \ {0}
  /\ SizeModulus \in Nat /\ MaxBytes \in 1 .. SizeModulus - 1
  /\ MaxEntrySize \in 1 .. MaxBytes /\ Horizon \in Nat

VARIABLES
  now,    \* misc::get_tick_count()
  items,  \* items_: the nodes, front first
  item,   \* what a node holds
  index,  \* index_: key -> node
  bytes,  \* bytes_
  found   \* what the last call returned: the item and the times to live served

vars == <<now, items, item, index, bytes, found>>

NotFound == [node |-> Null, served |-> {}]
NullItem == [key |-> "none", expire |-> 0, charge |-> 0, records |-> {}]

TypeOK ==
  /\ now \in 0 .. Horizon
  /\ items \in Seq(Nodes)
  /\ \A n \in Nodes : item[n] = NullItem \/ /\ item[n].key \in Keys
                                             /\ item[n].charge \in 1 .. MaxEntrySize
  /\ index \in [Keys -> Nodes \cup {Null}]
  /\ bytes \in 0 .. SizeModulus - 1
  /\ found.node \in Nodes \cup {Null}

Init ==
  /\ now = 0
  /\ items = <<>>
  /\ item = [n \in Nodes |-> NullItem]
  /\ index = [k \in Keys |-> Null]
  /\ bytes = 0
  /\ found = NotFound

-----------------------------------------------------------------------------
\* The bytes charged for the nodes of S, counted one by one.
Charge(S) == Cardinality({c \in S \X (1 .. MaxEntrySize) : c[2] <= item[c[1]].charge})

\* What erase() leaves of each structure, called for every node of S. Mutant: the
\* counter keeps the share of what is erased.
BytesKept(S)    == bytes
BytesWithout(S) == IF Charge(S) <= bytes THEN bytes - Charge(S) ELSE 0
IndexWithout(S) == [k \in Keys |-> IF \E n \in S : item[n].key = k THEN Null ELSE index[k]]
ItemWithout(S)  == [n \in Nodes |-> IF n \in S THEN NullItem ELSE item[n]]

\* The list without one node, if there is one.
ListWithout(n) == RemoveFirst(items, n)

\* The node of a key that is held. Mutant: the entry a new one replaces stays.
NodeLeft(k) == {}
NodeOf(k)   == {index[k]} \ {Null}

\* The eviction loop stops when l entries are left and b bytes are counted.
HasRoom(l, b, charge) ==
  l = 0 \/ (l < MaxEntries /\ charge <= (MaxBytes - b) % SizeModulus)

Lesser(a, b)  == IF a <= b THEN a ELSE b
Greater(a, b) == IF a <= b THEN b ELSE a

Negative(m) == m.rcode = "NXDOMAIN" \/ (m.rcode = "NOERROR" /\ m.answers = {})

\* The least time to live that an override gives the answers and the SOA of m, or -1.
LeastAnswer(k, m) == IF m.rcode = "NOERROR" THEN Lesser(Override[k], MaxTtl) ELSE -1
LeastSoa(k, m)    == IF m.rcode = "other" THEN -1 ELSE Lesser(Override[k], MaxTtl)

\* A record dies with its entry at the latest. Kept with it as history: the time to live
\* its owner gave it, when it arrived, and whether the entry lives on its time.
RecordOf(owner, ttl, decides, expire) ==
  [owner |-> owner, role |-> IF decides THEN "decides" ELSE "follows", born |-> now,
   expire |-> Lesser(expire, now + Lesser(ttl, MaxTtl) * Second)]

\* The owner of a denial gives its SOA no more than its minimum.
Allowed(m, s) == IF Negative(m) THEN Lesser(s.ttl, s.minimum) ELSE s.ttl

\* The records of the answer m, as an upstream sent it, in an entry for k.
Records(k, m, expire) ==
  {RecordOf(t, Greater(LeastAnswer(k, m), t), m.rcode = "NOERROR", expire) : t \in m.answers}
  \cup {RecordOf(Allowed(m, s), Greater(LeastSoa(k, m), s.ttl), Negative(m), expire) :
          s \in m.soa}

\* Mutant: only the limit on all entries together is kept.
StorableAtAll(m, ttl) == ttl # 0 /\ m.size <= MaxBytes
Storable(m, ttl)      == ttl # 0 /\ m.size <= MaxEntrySize /\ m.size <= MaxBytes

\* i becomes the front of the list kept, with S erased before.
PushFront(kept, S, i) ==
  \E n \in Nodes \ {kept[j] : j \in DOMAIN kept} :
    /\ items' = <<n>> \o kept
    /\ item' = [ItemWithout(S) EXCEPT ![n] = i]
    /\ index' = [IndexWithout(S) EXCEPT ![i.key] = n]
    /\ bytes' = (BytesWithout(S) + i.charge) % SizeModulus

\* The loop erases from the back, so it leaves the longest front that has room.
insert_with_ttl(k, m, asked) ==
  LET ttl     == Lesser(asked, MaxTtl)
      expire  == now + ttl * Second
      rest    == ListWithout(index[k])
      gone(l) == NodeOf(k) \cup {rest[i] : i \in l + 1 .. Len(rest)}
      room(l) == HasRoom(l, BytesWithout(gone(l)), m.size)
  IN  IF ~Storable(m, ttl)
      THEN UNCHANGED <<items, item, index, bytes>>
      ELSE \E l \in 0 .. Len(rest) :
             /\ room(l)
             /\ \A j \in l + 1 .. Len(rest) : ~room(j)
             /\ PushFront(SubSeq(rest, 1, l), gone(l),
                          [key |-> k, expire |-> expire, charge |-> m.size,
                           records |-> Records(k, m, expire)])

\* What an override makes of an answer before it is cached.
modify_received(k, m) ==
  [m EXCEPT !.answers = {Greater(LeastAnswer(k, m), t) : t \in m.answers},
            !.soa = {[ttl |-> Greater(LeastSoa(k, m), s.ttl),
                      minimum |-> Greater(LeastSoa(k, m), s.minimum)] : s \in m.soa}]

\* Zero when m is not to be cached.
Lifetime(m) ==
  CASE Negative(m) /\ m.soa # {} -> Min({Lesser(s.ttl, s.minimum) : s \in m.soa})
    [] m.rcode = "NOERROR" /\ ~Negative(m) -> Min(m.answers)
    [] OTHER -> 0

insert(k, m) ==
  /\ insert_with_ttl(k, m, Lifetime(modify_received(k, m)))
  /\ found' = NotFound
  /\ UNCHANGED now

\* Only refusals and SERVFAIL are handed to it.
insert_failure(k, m, ttl) ==
  /\ m.rcode = "other"
  /\ insert_with_ttl(k, m, Lesser(300, IF ttl = 0 THEN 1 ELSE ttl))
  /\ found' = NotFound
  /\ UNCHANGED now

\* What is served is what is left, rounded down. Mutant: rounded up.
UpdateTtlsUp(R) ==
  {[r EXCEPT !.expire = IF now < r.expire THEN (r.expire - now + Second - 1) \div Second
                        ELSE 0] : r \in R}
update_ttls(R) ==
  {[r EXCEPT !.expire = IF now < r.expire THEN (r.expire - now) \div Second ELSE 0] : r \in R}

\* Mutant: a hit does not move to the front.
HitInPlace(k) == index[k] # Null /\ now < item[index[k]].expire
                 /\ found' = [node |-> index[k], served |-> update_ttls(item[index[k]].records)]
                 /\ UNCHANGED <<items, item, index, bytes>>

Hit(k) ==
  LET n == index[k] IN
  /\ n # Null /\ now < item[n].expire
  /\ found' = [node |-> n, served |-> update_ttls(item[n].records)]
  /\ items' = <<n>> \o ListWithout(n)
  /\ UNCHANGED <<item, index, bytes>>

\* What has expired is erased when it is asked for.
Miss(k) ==
  /\ index[k] # Null => now >= item[index[k]].expire
  /\ found' = NotFound
  /\ items' = ListWithout(index[k])
  /\ item' = ItemWithout(NodeOf(k))
  /\ index' = IndexWithout(NodeOf(k))
  /\ bytes' = BytesWithout(NodeOf(k))

find(k) == (Hit(k) \/ Miss(k)) /\ UNCHANGED now

Tick ==
  /\ now < Horizon
  /\ now' = now + 1
  /\ found' = NotFound
  /\ UNCHANGED <<items, item, index, bytes>>

Next ==
  \/ \E k \in Keys, m \in Messages : insert(k, m)
  \/ \E k \in Keys, m \in Messages, ttl \in FailureTtls : insert_failure(k, m, ttl)
  \/ \E k \in Keys : find(k)
  \/ Tick

Spec == Init /\ [][Next]_vars

-----------------------------------------------------------------------------
(***************************************************************************)
(* Properties                                                              *)
(***************************************************************************)

\* The index finds every entry of the list by its key, and nothing else: through
\* replacement, expiry, eviction and the splice of a hit no iterator dangles, no
\* entry is lost to lookups and no key is held twice.
IndexMatchesList ==
  /\ \A k \in Keys : index[k] # Null => /\ \E i \in DOMAIN items : items[i] = index[k]
                                        /\ item[index[k]].key = k
  /\ \A i \in DOMAIN items : index[item[items[i]].key] = items[i]
  /\ \A i, j \in DOMAIN items : items[i] = items[j] => i = j

\* The byte counter is the sum of what the list holds and stays within the limit,
\* which is what makes the unsigned subtraction of the eviction loop safe (435).
BytesExact ==
  /\ bytes = Charge({items[i] : i \in DOMAIN items})
  /\ bytes <= MaxBytes
  /\ Len(items) <= MaxEntries

\* However often an entry is found, the time to live a record is served with never
\* reaches beyond what its owner gave it when it arrived, or beyond the override for
\* the name if that is longer, and never beyond max-ttl. A record that decides how long
\* its entry lives (each answer, or the SOA of a denial) is not served any later than
\* that either. Other records of the entry are, with no time to live at all.
TtlNeverInflated ==
  \A r \in found.served :
    LET limit == Second * Lesser(Greater(r.owner, Override[item[found.node].key]), MaxTtl)
        age   == now - r.born
    IN  /\ r.expire > 0 => age + Second * r.expire <= limit
        /\ r.role = "decides" => age < limit

\* The cache does what CacheService promises; a node stands for its key.
Promised == INSTANCE CacheService WITH
  recent <- [i \in DOMAIN items |-> item[items[i]].key],
  entry  <- [k \in Keys |-> IF index[k] = Null THEN [charge |-> 0, expire |-> 0]
                            ELSE [charge |-> item[index[k]].charge,
                                  expire |-> item[index[k]].expire]],
  found  <- IF found.node = Null THEN "none" ELSE item[found.node].key

ImplementsCacheService == Promised!Spec
=============================================================================
