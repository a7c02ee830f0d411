---------------------------- MODULE CacheService ----------------------------
(***************************************************************************)
(* What the DNS cache promises, without its list, index and byte counter:  *)
(* a map bounded in entries and bytes that forgets the least recently used *)
(* first and no more than it must, and never finds what has expired.       *)
(***************************************************************************)
EXTENDS Integers, Sequences, SequencesExt, FiniteSetsExt

CONSTANTS Keys, MaxEntries, MaxBytes

VARIABLES
  now,     \* the clock
  recent,  \* the keys that are held, the most recently used first
  entry,   \* key -> the entry held for it, or Nothing
  found    \* the key the last call found, or NoKey

vars == <<now, recent, entry, found>>

Nothing == [charge |-> 0, expire |-> 0]
NoKey   == "none"

Init ==
  /\ now = 0
  /\ recent = <<>>
  /\ entry = [k \in Keys |-> Nothing]
  /\ found = NoKey

\* The bytes the keys of s are charged for, counted one by one.
Charges(s) == Cardinality({c \in ToSet(s) \X (1 .. MaxBytes) : c[2] <= entry[c[1]].charge})

\* The keys of s and an entry of that charge fit into the cache together.
Fits(s, charge) == Len(s) < MaxEntries /\ Charges(s) + charge <= MaxBytes

\* The longest run of most recent keys that leaves room: no more is forgotten.
Kept(s, charge) ==
  SubSeq(s, 1, Max({n \in 0 .. Len(s) : Fits(SubSeq(s, 1, n), charge)}))

Forget(s) == [k \in Keys |-> IF Contains(s, k) THEN entry[k] ELSE Nothing]

\* Some entry that has time left replaces what was held for k.
Store(k) ==
  LET e == entry'[k] IN
  /\ e.charge \in 1 .. MaxBytes /\ e.expire > now
  /\ recent' = <<k>> \o Kept(RemoveFirst(recent, k), e.charge)
  /\ entry' = [Forget(recent') EXCEPT ![k] = e]
  /\ found' = NoKey
  /\ UNCHANGED now

\* A refused entry changes nothing, not even what is held for its key.
Refuse == found' = NoKey /\ UNCHANGED <<now, recent, entry>>

Hit(k) ==
  /\ Contains(recent, k) /\ now < entry[k].expire
  /\ recent' = <<k>> \o RemoveFirst(recent, k)
  /\ found' = k
  /\ UNCHANGED <<now, entry>>

Miss(k) ==
  /\ Contains(recent, k) => now >= entry[k].expire
  /\ recent' = RemoveFirst(recent, k)
  /\ entry' = Forget(recent')
  /\ found' = NoKey
  /\ UNCHANGED now

Tick ==
  /\ now' > now
  /\ found' = NoKey
  /\ UNCHANGED <<recent, entry>>

Next ==
  \/ \E k \in Keys : Store(k) \/ Hit(k) \/ Miss(k)
  \/ Refuse
  \/ Tick

Spec == Init /\ [][Next]_vars
=============================================================================
