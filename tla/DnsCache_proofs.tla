--------------------------- MODULE DnsCache_proofs ---------------------------
(***************************************************************************)
(* Theorems about DnsCache, for every set of keys, nodes and messages and  *)
(* every limit that fits into a size_t.                                    *)
(***************************************************************************)
EXTENDS DnsCache, SequenceTheorems, FiniteSetTheorems, TLAPS

-----------------------------------------------------------------------------
(***************************************************************************)
(* Lists that hold nothing twice.                                          *)
(***************************************************************************)

Distinct(s) == \A i, j \in 1 .. Len(s) : s[i] = s[j] => i = j

\* What a sequence holds, by position.
LEMMA Holds ==
  ASSUME NEW S, NEW s \in Seq(S)
  PROVE  /\ Len(s) \in Nat /\ DOMAIN s = 1 .. Len(s)
         /\ ToSet(s) = {s[i] : i \in 1 .. Len(s)} /\ ToSet(s) \subseteq S
         /\ \A i \in 1 .. Len(s) : s[i] \in S /\ s[i] \in ToSet(s)
<1>1. /\ Len(s) \in Nat /\ DOMAIN s = 1 .. Len(s)
      /\ \A i \in 1 .. Len(s) : s[i] \in S
  BY LenProperties, ElementOfSeq
<1>2. QED
  BY <1>1 DEF ToSet

\* Taking one position out closes the gap.
LEMMA RemoveAtResult ==
  ASSUME NEW S, NEW s \in Seq(S), NEW i \in 1 .. Len(s)
  PROVE  /\ RemoveAt(s, i) \in Seq(S)
         /\ Len(RemoveAt(s, i)) = Len(s) - 1
         /\ \A j \in 1 .. Len(s) - 1 : RemoveAt(s, i)[j] = IF j < i THEN s[j] ELSE s[j + 1]
<1> DEFINE a == SubSeq(s, 1, i - 1)
           b == SubSeq(s, i + 1, Len(s))
<1>0. Len(s) \in Nat /\ i \in Nat /\ 1 <= i /\ i <= Len(s)
  BY LenProperties
<1>1. /\ a \in Seq(S) /\ Len(a) = i - 1
      /\ \A j \in 1 .. i - 1 : a[j] = s[j]
  <2>1. \A j \in 1 .. i - 1 : s[j] \in S
    BY <1>0, ElementOfSeq
  <2>2. /\ a \in Seq(S) /\ Len(a) = IF 1 <= i - 1 THEN (i - 1) - 1 + 1 ELSE 0
        /\ \A j \in 1 .. (i - 1) - 1 + 1 : a[j] = s[1 + j - 1]
    BY <1>0, <2>1, SubSeqProperties
  <2> HIDE DEF a
  <2>3. QED
    BY <1>0, <2>2
<1>2. /\ b \in Seq(S) /\ Len(b) = Len(s) - i
      /\ \A j \in 1 .. Len(s) - i : b[j] = s[i + j]
  <2>1. \A j \in i + 1 .. Len(s) : s[j] \in S
    BY <1>0, ElementOfSeq
  <2>2. /\ b \in Seq(S) /\ Len(b) = IF i + 1 <= Len(s) THEN Len(s) - (i + 1) + 1 ELSE 0
        /\ \A j \in 1 .. Len(s) - (i + 1) + 1 : b[j] = s[i + 1 + j - 1]
    BY <1>0, <2>1, SubSeqProperties
  <2> HIDE DEF b
  <2>3. QED
    BY <1>0, <2>2
<1>3. RemoveAt(s, i) = a \o b
  BY DEF RemoveAt
<1> HIDE DEF a, b
<1>4. /\ a \o b \in Seq(S)
      /\ Len(a \o b) = Len(a) + Len(b)
      /\ \A j \in 1 .. Len(a) + Len(b) : (a \o b)[j] = IF j <= Len(a) THEN a[j] ELSE b[j - Len(a)]
  BY <1>1, <1>2, ConcatProperties
<1>5. ASSUME NEW j \in 1 .. Len(s) - 1
      PROVE  (a \o b)[j] = IF j < i THEN s[j] ELSE s[j + 1]
  <2>1. CASE j < i
    BY <1>0, <1>1, <1>2, <1>4, <2>1
  <2>2. CASE j >= i
    <3>1. /\ j \in 1 .. Len(a) + Len(b) /\ ~(j <= Len(a))
          /\ j - (i - 1) \in 1 .. Len(s) - i /\ i + (j - (i - 1)) = j + 1 /\ j - Len(a) = j - (i - 1)
      BY <1>0, <1>1, <1>2, <2>2
    <3>2. (a \o b)[j] = b[j - (i - 1)]
      BY <1>4, <3>1
    <3>3. b[j - (i - 1)] = s[j + 1]
      BY <1>2, <3>1
    <3>4. QED
      BY <1>0, <2>2, <3>2, <3>3
  <2>3. j < i \/ j >= i
    BY <1>0
  <2>4. QED
    BY <2>1, <2>2, <2>3, Zenon
<1>6. QED
  BY <1>0, <1>1, <1>2, <1>3, <1>4, <1>5

\* The only place of an element is the first.
LEMMA RemoveFirstIs ==
  ASSUME NEW S, NEW s \in Seq(S), Distinct(s), NEW e
  PROVE  /\ e \notin ToSet(s) => RemoveFirst(s, e) = s
         /\ \A i \in 1 .. Len(s) : s[i] = e => RemoveFirst(s, e) = RemoveAt(s, i)
<1>1. ASSUME e \notin ToSet(s) PROVE RemoveFirst(s, e) = s
  BY <1>1, Holds DEF RemoveFirst
<1>2. ASSUME NEW i \in 1 .. Len(s), s[i] = e PROVE RemoveFirst(s, e) = RemoveAt(s, i)
  <2> DEFINE I == {j \in 1 .. Len(s) : s[j] = e}
  <2>1. I = {i}
    BY <1>2 DEF Distinct
  <2>2. Min({i}) = i
    BY LenProperties DEF Min
  <2>3. SelectInSeq(s, LAMBDA v : v = e) = IF I # {} THEN Min(I) ELSE 0
    BY DEF SelectInSeq
  <2>4. SelectInSeq(s, LAMBDA v : v = e) = i
    BY <2>1, <2>2, <2>3
  <2>5. QED
    BY <1>2, <2>4 DEF RemoveFirst
<1>3. QED
  BY <1>1, <1>2

\* A list without an element: what it holds and in what order.
LEMMA Without ==
  ASSUME NEW S, NEW s \in Seq(S), Distinct(s), NEW e
  PROVE  /\ RemoveFirst(s, e) \in Seq(S) /\ Distinct(RemoveFirst(s, e))
         /\ ToSet(RemoveFirst(s, e)) = ToSet(s) \ {e}
         /\ Len(RemoveFirst(s, e)) = IF e \in ToSet(s) THEN Len(s) - 1 ELSE Len(s)
<1> DEFINE t == RemoveFirst(s, e)
<1>1. CASE e \notin ToSet(s)
  <2>1. t = s
    BY <1>1, RemoveFirstIs
  <2> HIDE DEF t
  <2>2. /\ t \in Seq(S) /\ Distinct(t) /\ ToSet(t) = ToSet(s) \ {e}
        /\ Len(t) = IF e \in ToSet(s) THEN Len(s) - 1 ELSE Len(s)
    BY <1>1, <2>1
  <2>3. QED
    BY <2>2 DEF t
<1>2. CASE e \in ToSet(s)
  <2>1. PICK i \in 1 .. Len(s) : s[i] = e
    BY <1>2, Holds
  <2>2. t = RemoveAt(s, i)
    BY <2>1, RemoveFirstIs
  <2>3. /\ t \in Seq(S) /\ Len(t) = Len(s) - 1
        /\ \A j \in 1 .. Len(s) - 1 : t[j] = IF j < i THEN s[j] ELSE s[j + 1]
    BY <2>2, RemoveAtResult
  <2>4. Len(s) \in Nat /\ i \in Nat /\ 1 <= i /\ i <= Len(s)
    BY LenProperties
  <2> HIDE DEF t
  <2>5. Distinct(t)
    BY <2>3, <2>4 DEF Distinct
  <2>6. ASSUME NEW x PROVE x \in ToSet(t) <=> x \in ToSet(s) \ {e}
    <3>1. ASSUME x \in ToSet(t) PROVE x \in ToSet(s) \ {e}
      <4>1. PICK j \in 1 .. Len(s) - 1 : x = t[j]
        BY <2>3, <3>1, Holds
      <4>2. CASE j < i
        BY <2>1, <2>3, <2>4, <4>1, <4>2, Holds DEF Distinct
      <4>3. CASE j >= i
        <5>1. x = s[j + 1] /\ j + 1 \in 1 .. Len(s) /\ j + 1 # i
          BY <2>3, <2>4, <4>1, <4>3
        <5>2. QED
          BY <2>1, <5>1, Holds DEF Distinct
      <4>4. QED
        BY <2>4, <4>2, <4>3
    <3>2. ASSUME x \in ToSet(s) \ {e} PROVE x \in ToSet(t)
      <4>1. PICK j \in 1 .. Len(s) : x = s[j]
        BY <3>2, Holds
      <4>2. j # i
        BY <2>1, <3>2, <4>1
      <4>3. CASE j < i
        BY <2>3, <2>4, <4>1, <4>3, Holds
      <4>4. CASE j > i
        <5>1. j - 1 \in 1 .. Len(s) - 1 /\ t[j - 1] = x
          BY <2>3, <2>4, <4>1, <4>4
        <5>2. QED
          BY <2>3, <5>1, Holds
      <4>5. QED
        BY <2>4, <4>2, <4>3, <4>4
    <3>3. QED
      BY <3>1, <3>2
  <2>7. ToSet(t) = ToSet(s) \ {e}
    BY <2>6
  <2>8. QED
    BY <1>2, <2>3, <2>5, <2>7 DEF t
<1>3. QED
  BY <1>1, <1>2

\* The front of a list.
LEMMA FrontOfList ==
  ASSUME NEW S, NEW s \in Seq(S), Distinct(s), NEW l \in 0 .. Len(s)
  PROVE  /\ SubSeq(s, 1, l) \in Seq(S) /\ Distinct(SubSeq(s, 1, l)) /\ Len(SubSeq(s, 1, l)) = l
         /\ \A i \in 1 .. l : SubSeq(s, 1, l)[i] = s[i]
         /\ ToSet(SubSeq(s, 1, l)) = {s[i] : i \in 1 .. l}
<1> DEFINE t == SubSeq(s, 1, l)
<1>0. Len(s) \in Nat /\ l \in Nat /\ l <= Len(s)
  BY LenProperties
<1>1. \A i \in 1 .. l : s[i] \in S
  BY <1>0, ElementOfSeq
<1>2. /\ t \in Seq(S) /\ Len(t) = IF 1 <= l THEN l - 1 + 1 ELSE 0
      /\ \A i \in 1 .. l - 1 + 1 : t[i] = s[1 + i - 1]
  BY <1>0, <1>1, SubSeqProperties
<1> HIDE DEF t
<1>3. Len(t) = l /\ \A i \in 1 .. l : t[i] = s[i]
  BY <1>0, <1>2
<1>4. Distinct(t)
  BY <1>0, <1>3 DEF Distinct
<1>5. ToSet(t) = {s[i] : i \in 1 .. l}
  BY <1>2, <1>3, Holds
<1>6. /\ t \in Seq(S) /\ Distinct(t) /\ Len(t) = l
      /\ \A i \in 1 .. l : t[i] = s[i]
      /\ ToSet(t) = {s[i] : i \in 1 .. l}
  BY <1>2, <1>3, <1>4, <1>5
<1>7. QED
  BY <1>6, Zenon DEF t

\* A list with a new front.
LEMMA Pushed ==
  ASSUME NEW S, NEW s \in Seq(S), Distinct(s), NEW e \in S, e \notin ToSet(s)
  PROVE  /\ <<e>> \o s \in Seq(S) /\ Distinct(<<e>> \o s) /\ Len(<<e>> \o s) = Len(s) + 1
         /\ ToSet(<<e>> \o s) = {e} \cup ToSet(s)
         /\ (<<e>> \o s)[1] = e /\ \A i \in 1 .. Len(s) : (<<e>> \o s)[i + 1] = s[i]
<1> DEFINE u == <<e>>
           t == u \o s
<1>0. Len(s) \in Nat
  BY LenProperties
<1>1. u \in Seq(S) /\ Len(u) = 1 /\ u[1] = e
  OBVIOUS
<1> HIDE DEF u
<1>2. /\ t \in Seq(S) /\ Len(t) = Len(u) + Len(s)
      /\ \A i \in 1 .. Len(u) + Len(s) : t[i] = IF i <= Len(u) THEN u[i] ELSE s[i - Len(u)]
  BY <1>1, ConcatProperties
<1> HIDE DEF t
<1>3. Len(t) = Len(s) + 1 /\ t[1] = e
  BY <1>0, <1>1, <1>2
<1>4. \A i \in 2 .. Len(s) + 1 : t[i] = s[i - 1] /\ i - 1 \in 1 .. Len(s)
  BY <1>0, <1>1, <1>2
<1>5. \A i \in 1 .. Len(s) : t[i + 1] = s[i]
  BY <1>0, <1>4
<1>6. Distinct(t)
  <2> SUFFICES ASSUME NEW i \in 1 .. Len(t), NEW j \in 1 .. Len(t), t[i] = t[j]
               PROVE  i = j
    BY DEF Distinct
  <2>1. CASE i = 1 \/ j = 1
    BY <1>0, <1>3, <1>4, <2>1, Holds
  <2>2. CASE i # 1 /\ j # 1
    <3>1. i \in 2 .. Len(s) + 1 /\ j \in 2 .. Len(s) + 1
      BY <1>0, <1>3, <2>2
    <3>2. s[i - 1] = s[j - 1] /\ i - 1 \in 1 .. Len(s) /\ j - 1 \in 1 .. Len(s)
      BY <1>4, <3>1
    <3>3. i - 1 = j - 1
      BY <3>2 DEF Distinct
    <3>4. QED
      BY <1>0, <3>1, <3>3
  <2>3. QED
    BY <2>1, <2>2
<1>7. ToSet(t) = {e} \cup ToSet(s)
  <2>1. ASSUME NEW x \in ToSet(t) PROVE x = e \/ x \in ToSet(s)
    <3>1. PICK i \in 1 .. Len(t) : x = t[i]
      BY <1>2, Holds
    <3>2. CASE i = 1
      BY <1>3, <3>1, <3>2
    <3>3. CASE i # 1
      <4>1. i \in 2 .. Len(s) + 1
        BY <1>0, <1>3, <3>3
      <4>2. QED
        BY <1>4, <3>1, <4>1, Holds
    <3>4. QED
      BY <3>2, <3>3
  <2>2. e \in ToSet(t)
    <3>1. 1 \in 1 .. Len(t)
      BY <1>0, <1>3
    <3>2. QED
      BY <1>2, <1>3, <3>1, Holds
  <2>3. ASSUME NEW x \in ToSet(s) PROVE x \in ToSet(t)
    <3>1. PICK i \in 1 .. Len(s) : x = s[i]
      BY Holds
    <3>2. i + 1 \in 1 .. Len(t) /\ t[i + 1] = x
      BY <1>0, <1>3, <1>5, <3>1
    <3>3. QED
      BY <1>2, <3>2, Holds
  <2>4. QED
    BY <2>1, <2>2, <2>3
<1>8. QED
  BY <1>2, <1>3, <1>5, <1>6, <1>7 DEF t, u

\* What a list holds is finite.
LEMMA ListsAreFinite ==
  ASSUME NEW S, NEW s \in Seq(S)
  PROVE  IsFiniteSet(ToSet(s))
<1>1. Len(s) \in Nat /\ s \in [1 .. Len(s) -> S] /\ ToSet(s) = {s[i] : i \in 1 .. Len(s)}
  BY Holds, LenProperties
<1>2. s \in Surjection(1 .. Len(s), ToSet(s))
  BY <1>1 DEF Surjection
<1>3. IsFiniteSet(1 .. Len(s))
  BY <1>1, FS_Interval
<1>4. QED
  BY <1>2, <1>3, FS_Surjection

-----------------------------------------------------------------------------
(***************************************************************************)
(* The bytes that nodes are charged for, for any contents of the nodes.    *)
(***************************************************************************)

Charged(f, S) == {c \in S \X (1 .. MaxEntrySize) : c[2] <= f[c[1]].charge}
BytesOf(f, S) == Cardinality(Charged(f, S))

LEMMA ChargeIsBytes == \A S : Charge(S) = BytesOf(item, S)
  BY DEF Charge, BytesOf, Charged

LEMMA BytesAreFinite ==
  ASSUME NEW f, NEW S, IsFiniteSet(S)
  PROVE  IsFiniteSet(Charged(f, S)) /\ BytesOf(f, S) \in Nat
<1>1. IsFiniteSet(1 .. MaxEntrySize)
  BY DnsCacheAssumption, FS_Interval DEF DnsCacheAssumption
<1>2. IsFiniteSet(S \X (1 .. MaxEntrySize))
  BY <1>1, FS_Product
<1>3. Charged(f, S) \subseteq S \X (1 .. MaxEntrySize)
  BY DEF Charged
<1>4. IsFiniteSet(Charged(f, S))
  BY <1>2, <1>3, FS_Subset
<1>5. QED
  BY <1>4, FS_CardinalityType DEF BytesOf

\* Nodes apart are charged for apart.
LEMMA BytesOfBoth ==
  ASSUME NEW f, NEW S, NEW T, IsFiniteSet(S), IsFiniteSet(T), S \cap T = {}
  PROVE  BytesOf(f, S \cup T) = BytesOf(f, S) + BytesOf(f, T)
<1>1. Charged(f, S \cup T) = Charged(f, S) \cup Charged(f, T)
  BY DEF Charged
<1>2. Charged(f, S) \cap Charged(f, T) = {}
  BY DEF Charged
<1>3. IsFiniteSet(Charged(f, S)) /\ IsFiniteSet(Charged(f, T))
  BY BytesAreFinite
<1>4. Cardinality({}) = 0 /\ BytesOf(f, S) \in Nat /\ BytesOf(f, T) \in Nat
  BY BytesAreFinite, FS_EmptySet
<1> DEFINE A == Charged(f, S)
           B == Charged(f, T)
<1>5. Cardinality(A \cup B) = Cardinality(A) + Cardinality(B) - Cardinality(A \cap B)
  BY <1>3, FS_Union
<1>6. BytesOf(f, S \cup T) = BytesOf(f, S) + BytesOf(f, T) - Cardinality({})
  BY <1>1, <1>2, <1>5, Zenon DEF BytesOf
<1> HIDE DEF A, B
<1>7. QED
  BY <1>4, <1>6

\* One node is charged for its entry.
LEMMA BytesOfOne ==
  ASSUME NEW f, NEW n, f[n].charge \in 1 .. MaxEntrySize
  PROVE  BytesOf(f, {n}) = f[n].charge
<1> DEFINE c == f[n].charge
           b == [i \in 1 .. c |-> <<n, i>>]
<1>1. c \in Nat /\ c <= MaxEntrySize /\ MaxEntrySize \in Nat
  BY DnsCacheAssumption DEF DnsCacheAssumption
<1>2. b \in [1 .. c -> Charged(f, {n})]
  BY <1>1 DEF Charged
<1>3. \A i, j \in 1 .. c : b[i] = b[j] => i = j
  OBVIOUS
<1>4. \A x \in Charged(f, {n}) : \E i \in 1 .. c : b[i] = x
  <2> SUFFICES ASSUME NEW x \in Charged(f, {n}) PROVE \E i \in 1 .. c : b[i] = x
    OBVIOUS
  <2>1. x = <<n, x[2]>> /\ x[2] \in 1 .. c
    BY <1>1 DEF Charged
  <2>2. QED
    BY <2>1
<1>5. b \in Bijection(1 .. c, Charged(f, {n}))
  BY <1>2, <1>3, <1>4 DEF Bijection, Injection, IsInjective, Surjection
<1>6. ExistsBijection(1 .. c, Charged(f, {n}))
  BY <1>5 DEF ExistsBijection
<1> HIDE DEF c, b
<1>7. Cardinality(Charged(f, {n})) = c
  BY <1>1, <1>6, FS_CountingElements
<1>8. QED
  BY <1>7 DEF BytesOf, c

\* What is charged for are the nodes' charges and nothing else.
LEMMA SameBytes ==
  ASSUME NEW f, NEW g, NEW S, \A n \in S : f[n].charge = g[n].charge
  PROVE  BytesOf(f, S) = BytesOf(g, S)
<1>1. Charged(f, S) = Charged(g, S)
  BY DEF Charged
<1>2. QED
  BY <1>1 DEF BytesOf

LEMMA NoBytes == \A f : BytesOf(f, {}) = 0
<1>1. \A f : Charged(f, {}) = {}
  BY DEF Charged
<1>2. QED
  BY <1>1, FS_EmptySet DEF BytesOf

-----------------------------------------------------------------------------
(***************************************************************************)
(* The inductive invariant: the list holds every entry once, the index     *)
(* finds each by its key and nothing else, the counter is exact and no     *)
(* record outlives what its owner, an override and max-ttl allow.          *)
(***************************************************************************)

Record == [owner : Nat, role : {"decides", "follows"}, born : Nat, expire : Int]
Entry  == [key : Keys, expire : Int, charge : 1 .. MaxEntrySize, records : SUBSET Record]

Shape ==
  /\ now \in 0 .. Horizon
  /\ items \in Seq(Nodes)
  /\ item \in [Nodes -> Entry \cup {NullItem}]
  /\ index \in [Keys -> Nodes \cup {Null}]

Matched ==
  /\ Distinct(items)
  /\ \A n \in ToSet(items) : item[n] \in Entry /\ index[item[n].key] = n
  /\ \A k \in Keys : index[k] # Null => index[k] \in ToSet(items) /\ item[index[k]].key = k

Counted ==
  /\ bytes = BytesOf(item, ToSet(items))
  /\ bytes <= MaxBytes
  /\ Len(items) <= MaxEntries

\* The seconds a record may be kept for, and a record of the entry i with that limit on
\* the time it ends at: if it decides how long the entry lives, they end together.
Bound(r, k)   == Lesser(Greater(r.owner, Override[k]), MaxTtl)
Limited(r, i) == /\ r.expire <= r.born + Bound(r, i.key) * Second
                 /\ r.role = "decides" => r.expire = i.expire
Dated         == \A n \in ToSet(items) : \A r \in item[n].records : Limited(r, item[n])

CacheInv == Shape /\ Matched /\ Counted /\ Dated

LEMMA CountsAreNat ==
  ASSUME CacheInv
  PROVE  bytes \in 0 .. MaxBytes /\ Len(items) \in 0 .. MaxEntries
<1>1. BytesOf(item, ToSet(items)) \in Nat /\ Len(items) \in Nat
  BY ListsAreFinite, BytesAreFinite, Holds DEF CacheInv, Shape
<1>2. QED
  BY <1>1, DnsCacheAssumption DEF CacheInv, Counted, DnsCacheAssumption

\* A set of numbers has a least one.
LEMMA MinIsIn ==
  ASSUME NEW S \in SUBSET Nat, S # {}
  PROVE  Min(S) \in S /\ \A y \in S : Min(S) <= y
<1> DEFINE R == OpToRel(<, Nat)
<1>1. IsWellFoundedOn(R, Nat)
  BY NatLessThanWellFounded
<1>2. \A x, y \in Nat : x < y => <<x, y>> \in R
  BY DEF OpToRel
<1> HIDE DEF R
<1>3. PICK x \in S : \A y \in S : ~(<<y, x>> \in R)
  BY <1>1, WFMin
<1>4. ASSUME NEW y \in S PROVE x <= y
  <2>1. x \in Nat /\ y \in Nat /\ ~(<<y, x>> \in R)
    BY <1>3
  <2>2. ~(y < x)
    BY <1>2, <2>1
  <2>3. QED
    BY <2>1, <2>2
<1>5. QED
  BY <1>4 DEF Min

\* Whether an override applies or not, no time to live gets shorter, and each stays a
\* number.
LEMMA Raised ==
  ASSUME NEW k \in Keys, NEW m \in Message, NEW x \in Nat
  PROVE  /\ Greater(LeastAnswer(k, m), x) \in Nat /\ Greater(LeastSoa(k, m), x) \in Nat
         /\ Lesser(Greater(LeastAnswer(k, m), x), MaxTtl) <= Lesser(Greater(x, Override[k]), MaxTtl)
         /\ Lesser(Greater(LeastSoa(k, m), x), MaxTtl) <= Lesser(Greater(x, Override[k]), MaxTtl)
         /\ Lesser(Greater(x, Override[k]), MaxTtl) \in Nat
<1>1. Override[k] \in Int /\ MaxTtl \in Nat
  BY DnsCacheAssumption DEF DnsCacheAssumption
<1>2. /\ LeastAnswer(k, m) \in {-1, Lesser(Override[k], MaxTtl)}
      /\ LeastSoa(k, m) \in {-1, Lesser(Override[k], MaxTtl)}
  BY DEF LeastAnswer, LeastSoa
<1>3. ASSUME NEW y \in {-1, Lesser(Override[k], MaxTtl)}
      PROVE  /\ Greater(y, x) \in Nat
             /\ Lesser(Greater(y, x), MaxTtl) <= Lesser(Greater(x, Override[k]), MaxTtl)
  BY <1>1, <1>3 DEF Lesser, Greater
<1>4. Lesser(Greater(x, Override[k]), MaxTtl) \in Nat
  BY <1>1 DEF Lesser, Greater
<1>5. QED
  BY <1>2, <1>3, <1>4

\* An override makes a message of a message, and a denial of a denial.
LEMMA ReceivedIsMessage ==
  ASSUME NEW k \in Keys, NEW m \in Message
  PROVE  /\ modify_received(k, m) \in Message
         /\ modify_received(k, m).rcode = m.rcode
         /\ modify_received(k, m).answers = {Greater(LeastAnswer(k, m), t) : t \in m.answers}
         /\ modify_received(k, m).soa = {[ttl |-> Greater(LeastSoa(k, m), s.ttl),
                                          minimum |-> Greater(LeastSoa(k, m), s.minimum)] :
                                           s \in m.soa}
         /\ Negative(modify_received(k, m)) <=> Negative(m)
<1> DEFINE A == {Greater(LeastAnswer(k, m), t) : t \in m.answers}
           S == {[ttl |-> Greater(LeastSoa(k, m), s.ttl),
                  minimum |-> Greater(LeastSoa(k, m), s.minimum)] : s \in m.soa}
<1>1. m.answers \subseteq Nat /\ \A s \in m.soa : s.ttl \in Nat /\ s.minimum \in Nat
  BY DEF Message
<1>2. A \in SUBSET Nat /\ S \in SUBSET [ttl : Nat, minimum : Nat]
  BY <1>1, Raised
<1>3. A = {} <=> m.answers = {}
  OBVIOUS
<1>4. modify_received(k, m) = [m EXCEPT !.answers = A, !.soa = S]
  BY DEF modify_received
<1> HIDE DEF A, S
<1>5. modify_received(k, m) \in Message
  BY <1>2, <1>4 DEF Message
<1>6. /\ modify_received(k, m).rcode = m.rcode /\ modify_received(k, m).answers = A
      /\ modify_received(k, m).soa = S
  BY <1>4 DEF Message
<1>7. QED
  BY <1>3, <1>5, <1>6 DEF A, S, Negative

\* How long a message is kept for is a number, also where there is no limit of its own.
LEMMA LifetimeIsNat ==
  ASSUME NEW m \in Message
  PROVE  Lifetime(m) \in Nat
<1>1. m.answers \subseteq Nat /\ \A s \in m.soa : s.ttl \in Nat /\ s.minimum \in Nat
  BY DEF Message
<1> DEFINE L == {Lesser(s.ttl, s.minimum) : s \in m.soa}
<1>2. L \in SUBSET Nat
  BY <1>1 DEF Lesser
<1>3. CASE Negative(m) /\ m.soa # {}
  <2>1. L # {}
    BY <1>3
  <2>2. Lifetime(m) = Min(L)
    BY <1>3 DEF Lifetime
  <2> HIDE DEF L
  <2>3. QED
    BY <1>2, <2>1, <2>2, MinIsIn
<1>4. CASE m.rcode = "NOERROR" /\ ~Negative(m)
  <2>1. m.answers # {} /\ Lifetime(m) = Min(m.answers)
    BY <1>4 DEF Lifetime, Negative
  <2>2. QED
    BY <1>1, <2>1, MinIsIn
<1>5. CASE ~(Negative(m) /\ m.soa # {}) /\ ~(m.rcode = "NOERROR" /\ ~Negative(m))
  BY <1>5 DEF Lifetime
<1>6. QED
  BY <1>3, <1>4, <1>5

\* An answer is kept for no longer than any record of it that decides, once an override
\* was applied; and for no longer than the owner of the SOA of a denial allows.
LEMMA LifetimeIsLeast ==
  ASSUME NEW k \in Keys, NEW m \in Message
  PROVE  /\ m.rcode = "NOERROR" => \A t \in m.answers :
              Lifetime(modify_received(k, m)) <= Greater(LeastAnswer(k, m), t)
         /\ Negative(m) => \A s \in m.soa :
              /\ Lifetime(modify_received(k, m)) <= Greater(LeastSoa(k, m), s.ttl)
              /\ Lifetime(modify_received(k, m)) <= Greater(LeastSoa(k, m), Allowed(m, s))
<1> DEFINE n == modify_received(k, m)
<1>1. /\ n \in Message /\ n.rcode = m.rcode /\ (Negative(n) <=> Negative(m))
      /\ n.answers = {Greater(LeastAnswer(k, m), t) : t \in m.answers}
      /\ n.soa = {[ttl |-> Greater(LeastSoa(k, m), s.ttl),
                   minimum |-> Greater(LeastSoa(k, m), s.minimum)] : s \in m.soa}
  BY ReceivedIsMessage
<1> HIDE DEF n
<1>2. ASSUME m.rcode = "NOERROR", NEW t \in m.answers
      PROVE  Lifetime(n) <= Greater(LeastAnswer(k, m), t)
  <2>1. n.answers \in SUBSET Nat /\ Greater(LeastAnswer(k, m), t) \in n.answers
    BY <1>1, <1>2 DEF Message
  <2>2. n.rcode = "NOERROR" /\ ~Negative(n) /\ Lifetime(n) = Min(n.answers)
    BY <1>1, <1>2, <2>1 DEF Lifetime, Negative
  <2>3. QED
    BY <2>1, <2>2, MinIsIn
<1>3. ASSUME Negative(m), NEW s \in m.soa
      PROVE  /\ Lifetime(n) <= Greater(LeastSoa(k, m), s.ttl)
             /\ Lifetime(n) <= Greater(LeastSoa(k, m), Allowed(m, s))
  <2> DEFINE L == {Lesser(u.ttl, u.minimum) : u \in n.soa}
             a == Greater(LeastSoa(k, m), s.ttl)
             b == Greater(LeastSoa(k, m), s.minimum)
  <2>1. s.ttl \in Nat /\ s.minimum \in Nat
    BY <1>3 DEF Message
  <2>2. a \in Nat /\ b \in Nat
    BY <2>1, Raised
  <2>3. [ttl |-> a, minimum |-> b] \in n.soa
    BY <1>1, <1>3
  <2>4. Lesser(a, b) \in L
    BY <2>3
  <2>5. L \in SUBSET Nat
    BY <1>1 DEF Message, Lesser
  <2>6. Lifetime(n) = Min(L)
    BY <1>1, <1>3, <2>3 DEF Lifetime
  <2> HIDE DEF L
  <2> DEFINE c == Lesser(a, b)
  <2>10. c \in L
    BY <2>4
  <2> HIDE DEF a, b, c
  <2>7. Lifetime(n) <= c /\ Lifetime(n) \in Nat
    <3>1. L # {}
      BY <2>10
    <3>2. Min(L) \in L /\ \A y \in L : Min(L) <= y
      BY <2>5, <3>1, MinIsIn
    <3>3. QED
      BY <2>5, <2>6, <2>10, <3>2
  <2>8. Greater(LeastSoa(k, m), Allowed(m, s)) \in {a, b}
    BY <1>3 DEF Allowed, Lesser, a, b
  <2>9. Lifetime(n) <= a /\ Lifetime(n) <= b
    BY <2>2, <2>7 DEF Lesser, c
  <2>11. QED
    BY <2>8, <2>9 DEF a
<1>4. QED
  BY <1>2, <1>3 DEF n

\* The time m is kept for in an entry for k: a failure is kept for any time.
LivesFor(k, m, ttl) ==
  m.rcode = "other" \/ ttl = Lesser(Lifetime(modify_received(k, m)), MaxTtl)

\* One record in an entry that ends at expire.
LEMMA OneRecord ==
  ASSUME NEW k \in Keys, NEW owner \in Nat, NEW ttl \in Nat, NEW decides, NEW expire \in Int,
         now \in Nat, Lesser(Greater(owner, Override[k]), MaxTtl) \in Nat,
         \/ Lesser(ttl, MaxTtl) <= Lesser(Greater(owner, Override[k]), MaxTtl)
         \/ expire <= now + Lesser(Greater(owner, Override[k]), MaxTtl) * Second,
         decides => expire <= now + Lesser(ttl, MaxTtl) * Second,
         NEW i, i.key = k, i.expire = expire
  PROVE  /\ RecordOf(owner, ttl, decides, expire) \in Record
         /\ Limited(RecordOf(owner, ttl, decides, expire), i)
<1> DEFINE r == RecordOf(owner, ttl, decides, expire)
           x == Lesser(ttl, MaxTtl)
           y == Lesser(Greater(owner, Override[k]), MaxTtl)
           p == x * Second
           q == y * Second
<1>1. x \in Nat /\ Second \in Nat
  BY DnsCacheAssumption DEF DnsCacheAssumption, Lesser
<1>2. p \in Nat /\ q \in Nat /\ (x <= y => p <= q)
  <2>1. \A a, b, c \in Nat : a * c \in Nat /\ b * c \in Nat /\ (a <= b => a * c <= b * c)
    OBVIOUS
  <2> HIDE DEF x, y
  <2>2. QED
    BY <1>1, <2>1 DEF y
<1>3. x <= y \/ expire <= now + q
  OBVIOUS
<1>4. decides => expire <= now + p
  OBVIOUS
<1>5. /\ r.owner = owner /\ r.born = now /\ r.expire = Lesser(expire, now + p)
      /\ r.role = IF decides THEN "decides" ELSE "follows"
      /\ r = [owner |-> r.owner, role |-> r.role, born |-> r.born, expire |-> r.expire]
  BY DEF RecordOf
<1>6. Bound(r, i.key) * Second = q
  BY <1>5 DEF Bound
<1> HIDE DEF r, x, y, p, q
<1>7. r.expire \in Int /\ r.expire <= now + q
  BY <1>2, <1>3, <1>5 DEF Lesser
<1>8. r.role = "decides" => r.expire = expire
  BY <1>2, <1>4, <1>5 DEF Lesser
<1>9. r.role \in {"decides", "follows"}
  BY <1>5
<1>10. r \in Record
  BY <1>5, <1>7, <1>9 DEF Record
<1>11. Limited(r, i)
  BY <1>5, <1>6, <1>7, <1>8 DEF Limited
<1>12. QED
  BY <1>10, <1>11 DEF r

\* A record is kept no longer than its owner or an override allows, nor than its entry,
\* and exactly as long as its entry if it decides.
LEMMA RecordsAreLimited ==
  ASSUME NEW k \in Keys, NEW m \in Message, NEW ttl \in Nat, LivesFor(k, m, ttl), now \in Nat,
         NEW expire, expire = now + ttl * Second, NEW i, i.key = k, i.expire = expire
  PROVE  Records(k, m, expire) \subseteq Record /\ \A r \in Records(k, m, expire) : Limited(r, i)
<1> DEFINE life == Lifetime(modify_received(k, m))
<1>1. Second \in Nat /\ MaxTtl \in Nat /\ life \in Nat
  BY ReceivedIsMessage, LifetimeIsNat, DnsCacheAssumption DEF DnsCacheAssumption
<1>2. \A a, b, c \in Nat : a * c \in Nat /\ (a <= b => a * c <= b * c)
  OBVIOUS
<1>3. expire \in Int
  BY <1>1, <1>2
<1>4. ASSUME NEW x \in Nat, ttl <= Lesser(x, MaxTtl)
      PROVE  expire <= now + Lesser(x, MaxTtl) * Second
  <2>1. Lesser(x, MaxTtl) \in Nat
    BY <1>1 DEF Lesser
  <2> DEFINE p == ttl * Second
             q == Lesser(x, MaxTtl) * Second
  <2>2. p \in Nat /\ q \in Nat /\ p <= q
    BY <1>1, <1>2, <1>4, <2>1
  <2>3. expire = now + p
    OBVIOUS
  <2> HIDE DEF p, q
  <2>4. QED
    BY <2>2, <2>3 DEF q
<1>5. m.rcode # "other" => \A x \in Nat : life <= x => ttl <= Lesser(x, MaxTtl)
  <2> HIDE DEF life
  <2>1. m.rcode # "other" => ttl = Lesser(life, MaxTtl)
    BY DEF LivesFor, life
  <2>2. QED
    BY <1>1, <2>1 DEF Lesser
<1>6. ASSUME NEW t \in m.answers
      PROVE  LET r == RecordOf(t, Greater(LeastAnswer(k, m), t), m.rcode = "NOERROR", expire)
             IN  r \in Record /\ Limited(r, i)
  <2> DEFINE x == Greater(LeastAnswer(k, m), t)
  <2>1. t \in Nat
    BY <1>6 DEF Message
  <2>2. /\ x \in Nat /\ Lesser(x, MaxTtl) <= Lesser(Greater(t, Override[k]), MaxTtl)
        /\ Lesser(Greater(t, Override[k]), MaxTtl) \in Nat
    BY <2>1, Raised
  <2>3. m.rcode = "NOERROR" => life <= x
    BY <1>6, LifetimeIsLeast
  <2> DEFINE d == m.rcode = "NOERROR"
             r == RecordOf(t, x, d, expire)
  <2> HIDE DEF life
  <2>4. d => expire <= now + Lesser(x, MaxTtl) * Second
    <3> HIDE DEF x
    <3>1. QED
      BY <1>4, <1>5, <2>2, <2>3
  <2> HIDE DEF x, d
  <2>5. r \in Record /\ Limited(r, i)
    BY <1>3, <2>1, <2>2, <2>4, OneRecord
  <2>6. QED
    BY <2>5 DEF x, d
<1>7. ASSUME NEW s \in m.soa
      PROVE  LET r == RecordOf(Allowed(m, s), Greater(LeastSoa(k, m), s.ttl), Negative(m), expire)
             IN  r \in Record /\ Limited(r, i)
  <2> DEFINE a == Allowed(m, s)
             x == Greater(LeastSoa(k, m), s.ttl)
             y == Greater(LeastSoa(k, m), a)
             b == Lesser(Greater(a, Override[k]), MaxTtl)
  <2>1. s.ttl \in Nat /\ s.minimum \in Nat
    BY <1>7 DEF Message
  <2>2. a \in Nat
    BY <2>1 DEF Allowed, Lesser
  <2>3. x \in Nat /\ y \in Nat /\ Lesser(y, MaxTtl) <= b /\ b \in Nat
    BY <2>1, <2>2, Raised
  <2>4. CASE Negative(m)
    <3>1. life <= x /\ life <= y /\ m.rcode # "other"
      BY <1>7, <2>4, LifetimeIsLeast DEF Negative
    <3> HIDE DEF x, y, a, b, life
    <3>2. ttl <= Lesser(x, MaxTtl) /\ ttl <= Lesser(y, MaxTtl)
      BY <1>5, <2>3, <3>1
    <3>3. expire <= now + Lesser(x, MaxTtl) * Second
      BY <1>4, <2>3, <3>2
    <3>4. ttl <= b
      BY <1>1, <2>3, <3>2 DEF Lesser
    <3>5. ttl * Second <= b * Second /\ ttl * Second \in Nat /\ b * Second \in Nat
      BY <1>1, <1>2, <2>3, <3>4
    <3>6. expire <= now + b * Second
      BY <3>5
    <3>7. QED
      BY <1>3, <2>2, <2>3, <3>3, <3>6, OneRecord DEF a, x, b
  <2>5. CASE ~Negative(m)
    <3>1. a = s.ttl
      BY <2>5 DEF Allowed
    <3>2. Lesser(x, MaxTtl) <= b
      BY <2>3, <3>1
    <3> HIDE DEF a, x, b
    <3>3. QED
      BY <1>3, <2>2, <2>3, <2>5, <3>2, OneRecord DEF a, x, b
  <2>6. QED
    BY <2>4, <2>5
<1>8. QED
  BY <1>6, <1>7 DEF Records

\* What is left when the nodes of S are erased from list, index and counter.
LEMMA Erased ==
  ASSUME CacheInv, NEW S \in SUBSET ToSet(items)
  PROVE  LET K == ToSet(items) \ S IN
         /\ BytesWithout(S) = BytesOf(item, K) /\ BytesWithout(S) \in 0 .. bytes
         /\ ItemWithout(S) \in [Nodes -> Entry \cup {NullItem}]
         /\ \A n \in K : ItemWithout(S)[n] = item[n]
         /\ IndexWithout(S) \in [Keys -> Nodes \cup {Null}]
         /\ \A n \in K : IndexWithout(S)[item[n].key] = n
         /\ \A k \in Keys : IF index[k] \in S THEN IndexWithout(S)[k] = Null
                            ELSE IndexWithout(S)[k] = index[k]
<1> DEFINE K == ToSet(items) \ S
<1>1. ToSet(items) \subseteq Nodes /\ IsFiniteSet(ToSet(items))
  BY Holds, ListsAreFinite DEF CacheInv, Shape
<1>2. IsFiniteSet(S) /\ IsFiniteSet(K) /\ K \cap S = {} /\ K \cup S = ToSet(items)
  BY <1>1, FS_Subset
<1>3. bytes = BytesOf(item, K) + BytesOf(item, S)
  BY <1>2, BytesOfBoth DEF CacheInv, Counted
<1>4. BytesOf(item, K) \in Nat /\ BytesOf(item, S) \in Nat /\ Charge(S) = BytesOf(item, S)
  BY <1>2, BytesAreFinite, ChargeIsBytes
<1>5. BytesWithout(S) = BytesOf(item, K) /\ BytesWithout(S) \in 0 .. bytes
  BY <1>3, <1>4 DEF BytesWithout
<1>6. /\ ItemWithout(S) \in [Nodes -> Entry \cup {NullItem}]
      /\ \A n \in K : ItemWithout(S)[n] = item[n]
  BY <1>1 DEF ItemWithout, CacheInv, Shape
<1>7. IndexWithout(S) \in [Keys -> Nodes \cup {Null}]
  BY DEF IndexWithout, CacheInv, Shape
<1>8. ASSUME NEW k \in Keys
      PROVE  IF index[k] \in S THEN IndexWithout(S)[k] = Null
             ELSE IndexWithout(S)[k] = index[k]
  <2>1. (\E n \in S : item[n].key = k) <=> index[k] \in S
    <3>1. \A n \in S : item[n].key = k => index[k] = n
      BY DEF CacheInv, Matched
    <3>2. index[k] \in S => item[index[k]].key = k
      BY <1>1, DnsCacheAssumption DEF CacheInv, Matched, DnsCacheAssumption
    <3>3. QED
      BY <3>1, <3>2
  <2>2. QED
    BY <2>1 DEF IndexWithout
<1>9. ASSUME NEW n \in K PROVE IndexWithout(S)[item[n].key] = n
  <2>1. item[n].key \in Keys /\ index[item[n].key] = n /\ n \notin S
    BY DEF CacheInv, Matched, Entry
  <2>2. QED
    BY <1>8, <2>1
<1>10. QED
  BY <1>5, <1>6, <1>7, <1>8, <1>9

\* Below the modulus unsigned arithmetic is exact.
LEMMA NoWrap ==
  ASSUME NEW x \in Nat, NEW n \in Nat, x < n
  PROVE  x % n = x
  OBVIOUS

\* A new front in a list that leaves room for it.
LEMMA PushFrontKeeps ==
  ASSUME CacheInv, NEW kept \in Seq(Nodes), Distinct(kept), NEW S,
         ToSet(kept) \cap S = {}, ToSet(kept) \cup S = ToSet(items),
         NEW i \in Entry, \A n \in ToSet(kept) : item[n].key # i.key,
         Len(kept) < MaxEntries, BytesOf(item, ToSet(kept)) + i.charge <= MaxBytes,
         \A r \in i.records : Limited(r, i),
         PushFront(kept, S, i), now' = now
  PROVE  CacheInv'
<1>1. PICK n \in Nodes \ {kept[j] : j \in DOMAIN kept} :
        /\ items' = <<n>> \o kept
        /\ item' = [ItemWithout(S) EXCEPT ![n] = i]
        /\ index' = [IndexWithout(S) EXCEPT ![i.key] = n]
        /\ bytes' = (BytesWithout(S) + i.charge) % SizeModulus
  BY DEF PushFront
<1> DEFINE K == ToSet(kept)
<1>2. n \in Nodes /\ n \notin K /\ K \subseteq Nodes /\ IsFiniteSet(K)
  BY <1>1, Holds, ListsAreFinite DEF ToSet
<1>3. S \in SUBSET ToSet(items) /\ ToSet(items) \ S = K
  OBVIOUS
<1>4. /\ BytesWithout(S) = BytesOf(item, K) /\ BytesWithout(S) \in 0 .. bytes
      /\ ItemWithout(S) \in [Nodes -> Entry \cup {NullItem}]
      /\ \A m \in K : ItemWithout(S)[m] = item[m]
      /\ IndexWithout(S) \in [Keys -> Nodes \cup {Null}]
      /\ \A m \in K : IndexWithout(S)[item[m].key] = m
      /\ \A k \in Keys : IF index[k] \in S THEN IndexWithout(S)[k] = Null
                         ELSE IndexWithout(S)[k] = index[k]
  BY <1>3, Erased
<1>5. /\ items' \in Seq(Nodes) /\ Distinct(items') /\ Len(items') = Len(kept) + 1
      /\ ToSet(items') = {n} \cup K
  BY <1>1, <1>2, Pushed
<1>6. /\ item' \in [Nodes -> Entry \cup {NullItem}] /\ item'[n] = i
      /\ \A m \in K : item'[m] = item[m]
  BY <1>1, <1>2, <1>4
<1>7. i.key \in Keys /\ i.charge \in 1 .. MaxEntrySize
  BY DEF Entry
<1>8. /\ index' \in [Keys -> Nodes \cup {Null}] /\ index'[i.key] = n
      /\ \A k \in Keys \ {i.key} : index'[k] = IndexWithout(S)[k]
  BY <1>1, <1>2, <1>4, <1>7
<1>9. Shape'
  BY <1>5, <1>6, <1>8 DEF CacheInv, Shape
<1>10. Matched'
  <2>1. ASSUME NEW m \in {n} \cup K PROVE item'[m] \in Entry /\ index'[item'[m].key] = m
    <3>1. CASE m = n
      BY <1>6, <1>8, <3>1
    <3>2. CASE m \in K
      <4>1. item[m] \in Entry /\ item[m].key \in Keys \ {i.key}
        BY <1>3, <3>2 DEF CacheInv, Matched, Entry
      <4>2. QED
        BY <1>4, <1>6, <1>8, <3>2, <4>1
    <3>3. QED
      BY <3>1, <3>2
  <2>2. ASSUME NEW k \in Keys, index'[k] # Null
        PROVE  index'[k] \in {n} \cup K /\ item'[index'[k]].key = k
    <3>1. CASE k = i.key
      BY <1>6, <1>8, <3>1
    <3>2. CASE k # i.key
      <4>1. index'[k] = index[k] /\ index[k] \notin S
        BY <1>4, <1>8, <2>2, <3>2
      <4>2. index[k] \in K /\ item[index[k]].key = k
        BY <1>3, <2>2, <4>1 DEF CacheInv, Matched
      <4>3. QED
        BY <1>6, <4>1, <4>2
    <3>3. QED
      BY <3>1, <3>2
  <2>3. QED
    BY <1>5, <2>1, <2>2 DEF Matched
<1>11. Counted'
  <2>1. BytesOf(item', {n}) = i.charge
    BY <1>6, <1>7, BytesOfOne
  <2>2. BytesOf(item', K) = BytesOf(item, K) /\ BytesOf(item, K) \in Nat
    BY <1>2, <1>6, SameBytes, BytesAreFinite
  <2>3. BytesOf(item', {n} \cup K) = BytesOf(item', {n}) + BytesOf(item', K)
    <3>1. IsFiniteSet({n}) /\ {n} \cap K = {}
      BY <1>2, FS_Singleton
    <3> HIDE DEF K
    <3>2. QED
      BY <1>2, <3>1, BytesOfBoth
  <2>4. BytesOf(item', ToSet(items')) = i.charge + BytesOf(item, K)
    BY <1>5, <2>1, <2>2, <2>3
  <2>5. bytes' = BytesOf(item, K) + i.charge
    <3>1. /\ BytesOf(item, K) + i.charge < SizeModulus /\ SizeModulus \in Nat
          /\ BytesOf(item, K) + i.charge \in Nat
      BY <1>7, <2>2, DnsCacheAssumption DEF DnsCacheAssumption
    <3>2. (BytesOf(item, K) + i.charge) % SizeModulus = BytesOf(item, K) + i.charge
      BY <3>1, NoWrap
    <3>3. QED
      BY <1>1, <1>4, <3>2
  <2>6. Len(items') <= MaxEntries
    BY <1>5, Holds, DnsCacheAssumption DEF DnsCacheAssumption
  <2>7. QED
    BY <1>7, <2>2, <2>4, <2>5, <2>6 DEF Counted
<1>12. Dated'
  <2>1. \A m \in {n} \cup K : \A r \in item'[m].records : Limited(r, item'[m])
    BY <1>3, <1>6 DEF CacheInv, Dated
  <2>2. QED
    BY <1>5, <2>1 DEF Dated, Limited, Bound
<1>13. QED
  BY <1>9, <1>10, <1>11, <1>12 DEF CacheInv

\* What is left of the list when the node of a key is taken out, cut at l.
Rest(k)    == ListWithout(index[k])
Gone(k, l) == NodeOf(k) \cup {Rest(k)[i] : i \in l + 1 .. Len(Rest(k))}

LEMMA RestOfList ==
  ASSUME CacheInv, NEW k \in Keys
  PROVE  /\ Rest(k) \in Seq(Nodes) /\ Distinct(Rest(k)) /\ Len(Rest(k)) \in Nat
         /\ ToSet(Rest(k)) = ToSet(items) \ {index[k]}
         /\ NodeOf(k) \subseteq ToSet(items)
         /\ ToSet(Rest(k)) = ToSet(items) \ NodeOf(k)
         /\ \A n \in ToSet(Rest(k)) : item[n].key # k
<1>1. /\ Rest(k) \in Seq(Nodes) /\ Distinct(Rest(k))
      /\ ToSet(Rest(k)) = ToSet(items) \ {index[k]}
  BY Without DEF CacheInv, Shape, Matched, Rest, ListWithout
<1>2. ToSet(items) \subseteq Nodes /\ Null \notin ToSet(items)
  BY Holds, DnsCacheAssumption DEF CacheInv, Shape, DnsCacheAssumption
<1>3. NodeOf(k) \subseteq ToSet(items) /\ ToSet(Rest(k)) = ToSet(items) \ NodeOf(k)
  BY <1>1, <1>2 DEF NodeOf, CacheInv, Matched
<1>4. \A n \in ToSet(Rest(k)) : item[n].key # k
  BY <1>1 DEF CacheInv, Matched
<1>5. QED
  BY <1>1, <1>3, <1>4, Holds

\* The front of l entries that an insertion keeps, and what is erased with it.
LEMMA CutAt ==
  ASSUME CacheInv, NEW k \in Keys, NEW l \in 0 .. Len(Rest(k))
  PROVE  LET kept == SubSeq(Rest(k), 1, l) IN
         /\ kept \in Seq(Nodes) /\ Distinct(kept) /\ Len(kept) = l
         /\ ToSet(kept) \cap Gone(k, l) = {} /\ ToSet(kept) \cup Gone(k, l) = ToSet(items)
         /\ \A n \in ToSet(kept) : item[n].key # k
         /\ BytesWithout(Gone(k, l)) = BytesOf(item, ToSet(kept))
         /\ BytesOf(item, ToSet(kept)) \in 0 .. bytes
<1> DEFINE rest == Rest(k)
           kept == SubSeq(rest, 1, l)
           back == {rest[i] : i \in l + 1 .. Len(rest)}
<1>1. /\ rest \in Seq(Nodes) /\ Distinct(rest) /\ Len(rest) \in Nat
      /\ NodeOf(k) \subseteq ToSet(items) /\ ToSet(rest) = ToSet(items) \ NodeOf(k)
      /\ \A n \in ToSet(rest) : item[n].key # k
  BY RestOfList
<1>1a. l \in 0 .. Len(rest) /\ Gone(k, l) = NodeOf(k) \cup back
  BY DEF Gone
<1> HIDE DEF rest
<1>2. /\ kept \in Seq(Nodes) /\ Distinct(kept) /\ Len(kept) = l
      /\ ToSet(kept) = {rest[i] : i \in 1 .. l}
  BY <1>1, <1>1a, FrontOfList
<1>3. ToSet(rest) = {rest[i] : i \in 1 .. Len(rest)}
  BY <1>1, Holds
<1>4. {rest[i] : i \in 1 .. l} \cap back = {}
  BY <1>1, <1>1a DEF Distinct
<1>5. {rest[i] : i \in 1 .. l} \cup back = ToSet(rest)
  <2>1. 1 .. Len(rest) = (1 .. l) \cup (l + 1 .. Len(rest))
    BY <1>1, <1>1a
  <2>2. QED
    BY <1>3, <2>1
<1> HIDE DEF kept, back
<1>6. ToSet(kept) \cap Gone(k, l) = {} /\ ToSet(kept) \cup Gone(k, l) = ToSet(items)
  BY <1>1, <1>1a, <1>2, <1>4, <1>5
<1>7. \A n \in ToSet(kept) : item[n].key # k
  BY <1>1, <1>2, <1>5
<1>8. Gone(k, l) \in SUBSET ToSet(items) /\ ToSet(items) \ Gone(k, l) = ToSet(kept)
  BY <1>6
<1>9. /\ BytesWithout(Gone(k, l)) = BytesOf(item, ToSet(kept))
      /\ BytesWithout(Gone(k, l)) \in 0 .. bytes
  BY <1>8, Erased
<1>10. QED
  BY <1>2, <1>6, <1>7, <1>9 DEF kept, rest

\* The eviction loop stops where the entry fits, and its subtraction is exact.
LEMMA RoomIsRoom ==
  ASSUME NEW l \in Nat, NEW b \in 0 .. MaxBytes, NEW charge \in 1 .. MaxBytes, l = 0 => b = 0
  PROVE  HasRoom(l, b, charge) <=> l < MaxEntries /\ b + charge <= MaxBytes
<1>1. MaxBytes - b \in Nat /\ SizeModulus \in Nat /\ MaxBytes - b < SizeModulus
  BY DnsCacheAssumption DEF DnsCacheAssumption
<1>2. (MaxBytes - b) % SizeModulus = MaxBytes - b
  BY <1>1, NoWrap
<1>3. MaxBytes \in Nat /\ MaxEntries \in Nat \ {0}
  BY DnsCacheAssumption DEF DnsCacheAssumption
<1>4. HasRoom(l, b, charge) <=> l = 0 \/ (l < MaxEntries /\ charge <= MaxBytes - b)
  BY <1>2 DEF HasRoom
<1>5. QED
  BY <1>3, <1>4

\* An insertion that keeps the l most recent entries.
NewEntry(k, m, ttl) ==
  [key |-> k, expire |-> now + ttl * Second, charge |-> m.size,
   records |-> Records(k, m, now + ttl * Second)]
Roomy(k, m, l)  == HasRoom(l, BytesWithout(Gone(k, l)), m.size)
Stored(k, m, ttl, l) ==
  /\ Storable(m, ttl)
  /\ Roomy(k, m, l) /\ \A j \in l + 1 .. Len(Rest(k)) : ~Roomy(k, m, j)
  /\ PushFront(SubSeq(Rest(k), 1, l), Gone(k, l), NewEntry(k, m, ttl))

LEMMA InsertChoices ==
  ASSUME NEW k \in Keys, NEW m, NEW asked, insert_with_ttl(k, m, asked)
  PROVE  \/ UNCHANGED <<items, item, index, bytes>>
         \/ \E l \in 0 .. Len(Rest(k)) : Stored(k, m, Lesser(asked, MaxTtl), l)
<1> DEFINE ttl == Lesser(asked, MaxTtl)
<1>1. CASE ~Storable(m, ttl)
  BY <1>1 DEF insert_with_ttl
<1>2. CASE Storable(m, ttl)
  <2>1. PICK l \in 0 .. Len(Rest(k)) :
          /\ Roomy(k, m, l) /\ \A j \in l + 1 .. Len(Rest(k)) : ~Roomy(k, m, j)
          /\ PushFront(SubSeq(Rest(k), 1, l), Gone(k, l), NewEntry(k, m, ttl))
    BY <1>2 DEF insert_with_ttl, Rest, Gone, Roomy, NewEntry
  <2>2. QED
    BY <1>2, <2>1 DEF Stored
<1>3. QED
  BY <1>1, <1>2

\* The entry of a message that may be stored, and when it has room.
LEMMA EntryFits ==
  ASSUME CacheInv, NEW k \in Keys, NEW m \in Message, NEW ttl \in Nat, Storable(m, ttl),
         LivesFor(k, m, ttl)
  PROVE  /\ NewEntry(k, m, ttl) \in Entry /\ NewEntry(k, m, ttl).key = k
         /\ NewEntry(k, m, ttl).charge = m.size /\ m.size \in 1 .. MaxBytes
         /\ NewEntry(k, m, ttl).expire = now + ttl * Second
         /\ now + ttl * Second \in Nat /\ now < now + ttl * Second
         /\ \A r \in NewEntry(k, m, ttl).records : Limited(r, NewEntry(k, m, ttl))
         /\ \A l \in 0 .. Len(Rest(k)) :
              Roomy(k, m, l) <=>
                l < MaxEntries /\ BytesOf(item, ToSet(SubSeq(Rest(k), 1, l))) + m.size <= MaxBytes
<1> DEFINE p == ttl * Second
           e == now + p
<1>1. m.size \in 1 .. MaxEntrySize /\ m.size \in 1 .. MaxBytes /\ ttl # 0
  BY DnsCacheAssumption DEF DnsCacheAssumption, Storable, Message
<1>2. \A x, y \in Nat \ {0} : x * y \in Nat \ {0}
  OBVIOUS
<1>3. p \in Nat \ {0}
  BY <1>1, <1>2, DnsCacheAssumption DEF DnsCacheAssumption
<1> HIDE DEF p
<1>4. now \in Nat /\ e \in Nat /\ now < e
  BY <1>3, DnsCacheAssumption DEF CacheInv, Shape, DnsCacheAssumption
<1>5. NewEntry(k, m, ttl) = [key |-> k, expire |-> e, charge |-> m.size, records |-> Records(k, m, e)]
  BY DEF NewEntry, p
<1> HIDE DEF e
<1>6. /\ Records(k, m, e) \subseteq Record
      /\ \A r \in Records(k, m, e) : Limited(r, NewEntry(k, m, ttl))
  <2>1. e = now + ttl * Second /\ NewEntry(k, m, ttl).key = k /\ NewEntry(k, m, ttl).expire = e
    BY <1>5 DEF e, p
  <2>2. QED
    BY <1>4, <2>1, RecordsAreLimited
<1>7. NewEntry(k, m, ttl) \in Entry
  BY <1>1, <1>4, <1>5, <1>6 DEF Entry
<1>8. ASSUME NEW l \in 0 .. Len(Rest(k))
      PROVE  Roomy(k, m, l) <=>
               l < MaxEntries /\ BytesOf(item, ToSet(SubSeq(Rest(k), 1, l))) + m.size <= MaxBytes
  <2> DEFINE b == BytesOf(item, ToSet(SubSeq(Rest(k), 1, l)))
  <2>1. BytesWithout(Gone(k, l)) = b /\ b \in 0 .. bytes /\ l \in Nat
    BY CutAt, RestOfList
  <2>2. l = 0 => b = 0
    <3>1. l = 0 => SubSeq(Rest(k), 1, l) = <<>>
      BY SubSeqEmpty
    <3>2. ToSet(<<>>) = {}
      BY DEF ToSet
    <3>3. QED
      BY <3>1, <3>2, NoBytes
  <2>3. b \in 0 .. MaxBytes
    BY <2>1, CountsAreNat, DnsCacheAssumption DEF DnsCacheAssumption
  <2> HIDE DEF b
  <2>4. HasRoom(l, b, m.size) <=> l < MaxEntries /\ b + m.size <= MaxBytes
    BY <1>1, <2>1, <2>2, <2>3, RoomIsRoom
  <2>5. QED
    BY <2>1, <2>4 DEF Roomy, b
<1>9. QED
  BY <1>1, <1>4, <1>5, <1>6, <1>7, <1>8 DEF p, e

\* Storing a message keeps the invariant.
LEMMA StoredKeeps ==
  ASSUME CacheInv, NEW k \in Keys, NEW m \in Message, NEW ttl \in Nat,
         NEW l \in 0 .. Len(Rest(k)), Stored(k, m, ttl, l), LivesFor(k, m, ttl), now' = now
  PROVE  CacheInv'
<1> DEFINE kept == SubSeq(Rest(k), 1, l)
           i    == NewEntry(k, m, ttl)
<1>1. Storable(m, ttl) /\ Roomy(k, m, l) /\ PushFront(kept, Gone(k, l), i)
  BY DEF Stored
<1>2. /\ i \in Entry /\ i.key = k /\ i.charge = m.size
      /\ \A r \in i.records : Limited(r, i)
      /\ l < MaxEntries /\ BytesOf(item, ToSet(kept)) + m.size <= MaxBytes
  BY <1>1, EntryFits
<1>3. /\ kept \in Seq(Nodes) /\ Distinct(kept) /\ Len(kept) = l
      /\ ToSet(kept) \cap Gone(k, l) = {} /\ ToSet(kept) \cup Gone(k, l) = ToSet(items)
      /\ \A n \in ToSet(kept) : item[n].key # k
  BY CutAt
<1> HIDE DEF kept, i
<1>4. QED
  BY <1>1, <1>2, <1>3, PushFrontKeeps

\* So does whatever changes nothing but the clock.
LEMMA SameCache ==
  ASSUME CacheInv, UNCHANGED <<items, item, index, bytes>>, now' \in 0 .. Horizon, now <= now'
  PROVE  CacheInv'
<1>1. now \in Int /\ now' \in Int
  BY DEF CacheInv, Shape
<1>2. Shape' /\ Counted'
  BY DEF CacheInv, Shape, Counted
<1>2a. Matched'
  BY DEF CacheInv, Matched
<1>4. Dated'
  BY DEF CacheInv, Dated, Limited, Bound
<1>5. QED
  BY <1>2, <1>2a, <1>4 DEF CacheInv

LEMMA InsertKeeps ==
  ASSUME CacheInv, NEW k \in Keys, NEW m \in Message, NEW asked \in Nat,
         insert_with_ttl(k, m, asked), LivesFor(k, m, Lesser(asked, MaxTtl)), now' = now
  PROVE  CacheInv'
<1>1. Lesser(asked, MaxTtl) \in Nat
  BY DnsCacheAssumption DEF DnsCacheAssumption, Lesser
<1>2. CASE UNCHANGED <<items, item, index, bytes>>
  <2>1. now' \in 0 .. Horizon /\ now <= now'
    BY DEF CacheInv, Shape
  <2>2. QED
    BY <1>2, <2>1, SameCache
<1>3. CASE \E l \in 0 .. Len(Rest(k)) : Stored(k, m, Lesser(asked, MaxTtl), l)
  BY <1>1, <1>3, StoredKeeps
<1>4. QED
  BY <1>2, <1>3, InsertChoices

\* A hit changes the order only.
LEMMA HitKeeps ==
  ASSUME CacheInv, NEW k \in Keys, Hit(k), now' = now
  PROVE  CacheInv'
<1> DEFINE n == index[k]
           t == RemoveFirst(items, n)
<1>1. /\ n # Null /\ n \in Nodes /\ n \in ToSet(items)
      /\ items' = <<n>> \o t /\ UNCHANGED <<item, index, bytes>>
  BY DEF Hit, ListWithout, CacheInv, Shape, Matched
<1>2. /\ t \in Seq(Nodes) /\ Distinct(t) /\ ToSet(t) = ToSet(items) \ {n}
      /\ Len(t) = Len(items) - 1
  BY <1>1, Without DEF CacheInv, Shape, Matched
<1> HIDE DEF n, t
<1>3. /\ items' \in Seq(Nodes) /\ Distinct(items') /\ Len(items') = Len(t) + 1
      /\ ToSet(items') = {n} \cup ToSet(t)
  BY <1>1, <1>2, Pushed
<1>4. ToSet(items') = ToSet(items) /\ Len(items') = Len(items)
  <2>1. ToSet(items') = ToSet(items)
    BY <1>1, <1>2, <1>3
  <2>2. Len(items) \in Nat
    BY CountsAreNat
  <2>3. Len(items') = Len(items)
    BY <1>2, <1>3, <2>2
  <2>4. QED
    BY <2>1, <2>3
<1>5. Shape' /\ Counted'
  BY <1>1, <1>3, <1>4 DEF CacheInv, Shape, Counted
<1>6. Matched'
  BY <1>1, <1>3, <1>4 DEF CacheInv, Matched
<1>7. Dated'
  BY <1>1, <1>4 DEF CacheInv, Dated, Limited, Bound
<1>8. QED
  BY <1>5, <1>6, <1>7 DEF CacheInv

\* A miss erases what has expired.
LEMMA MissKeeps ==
  ASSUME CacheInv, NEW k \in Keys, Miss(k), now' = now
  PROVE  CacheInv'
<1> DEFINE S == NodeOf(k)
           K == ToSet(items) \ S
<1>1. /\ items' = Rest(k) /\ item' = ItemWithout(S) /\ index' = IndexWithout(S)
      /\ bytes' = BytesWithout(S)
  BY DEF Miss, Rest
<1>2. /\ Rest(k) \in Seq(Nodes) /\ Distinct(Rest(k)) /\ S \subseteq ToSet(items)
      /\ ToSet(Rest(k)) = K
  BY RestOfList
<1>3. /\ BytesWithout(S) = BytesOf(item, K) /\ BytesWithout(S) \in 0 .. bytes
      /\ ItemWithout(S) \in [Nodes -> Entry \cup {NullItem}]
      /\ \A n \in K : ItemWithout(S)[n] = item[n]
      /\ IndexWithout(S) \in [Keys -> Nodes \cup {Null}]
      /\ \A n \in K : IndexWithout(S)[item[n].key] = n
      /\ \A j \in Keys : IF index[j] \in S THEN IndexWithout(S)[j] = Null
                         ELSE IndexWithout(S)[j] = index[j]
  BY <1>2, Erased
<1> HIDE DEF S
<1>4. Shape'
  BY <1>1, <1>2, <1>3 DEF CacheInv, Shape
<1>5. Matched'
  <2>1. \A n \in K : item'[n] \in Entry /\ index'[item'[n].key] = n
    BY <1>1, <1>3 DEF CacheInv, Matched
  <2>2. ASSUME NEW j \in Keys, index'[j] # Null PROVE index'[j] \in K /\ item'[index'[j]].key = j
    <3>1. index'[j] = index[j] /\ index[j] \notin S
      BY <1>1, <1>3, <2>2
    <3>2. index[j] \in K /\ item[index[j]].key = j
      BY <2>2, <3>1 DEF CacheInv, Matched
    <3>3. QED
      BY <1>1, <1>3, <3>1, <3>2
  <2>3. QED
    BY <1>1, <1>2, <2>1, <2>2 DEF Matched
<1>6. Counted'
  <2>1. BytesOf(item', K) = BytesOf(item, K)
    BY <1>1, <1>3, SameBytes
  <2>2. Len(Rest(k)) <= Len(items)
    BY Without, Holds DEF Rest, ListWithout, CacheInv, Shape, Matched
  <2>3. Len(items) \in Nat /\ Len(Rest(k)) \in Nat
    BY <1>2, Holds DEF CacheInv, Shape
  <2>4. bytes' <= MaxBytes /\ Len(items') <= MaxEntries
    BY <1>1, <1>3, <2>2, <2>3, CountsAreNat, DnsCacheAssumption DEF DnsCacheAssumption
  <2>5. QED
    BY <1>1, <1>2, <1>3, <2>1, <2>4 DEF Counted
<1>7. Dated'
  <2>1. \A n \in K : \A r \in item'[n].records : Limited(r, item'[n])
    BY <1>1, <1>3 DEF CacheInv, Dated
  <2>2. QED
    BY <1>1, <1>2, <2>1 DEF Dated, Limited, Bound
<1>8. QED
  BY <1>4, <1>5, <1>6, <1>7 DEF CacheInv

\* CacheInv is inductive.
LEMMA CacheInit == Init => CacheInv
<1> SUFFICES ASSUME Init PROVE CacheInv
  OBVIOUS
<1>1. ToSet(items) = {} /\ items \in Seq(Nodes) /\ Len(items) = 0
  BY DEF Init, ToSet
<1>2. Shape
  BY <1>1, DnsCacheAssumption DEF Init, Shape, DnsCacheAssumption
<1>3. Matched
  BY <1>1 DEF Init, Matched, Distinct
<1>4. Counted
  <2>1. bytes = BytesOf(item, ToSet(items))
    BY <1>1, NoBytes DEF Init
  <2>2. bytes <= MaxBytes /\ Len(items) <= MaxEntries
    BY <1>1, DnsCacheAssumption DEF Init, DnsCacheAssumption
  <2>3. QED
    BY <2>1, <2>2 DEF Counted
<1>5. QED
  BY <1>1, <1>2, <1>3, <1>4 DEF CacheInv, Dated

LEMMA CacheStep == CacheInv /\ [Next]_vars => CacheInv'
<1> SUFFICES ASSUME CacheInv, [Next]_vars PROVE CacheInv'
  OBVIOUS
<1>0. Messages \subseteq Message /\ FailureTtls \subseteq Nat
  BY DnsCacheAssumption DEF DnsCacheAssumption
<1>1. ASSUME NEW k \in Keys, NEW m \in Messages, insert(k, m) PROVE CacheInv'
  <2>1. modify_received(k, m) \in Message
    BY <1>0, ReceivedIsMessage
  <2>2. Lifetime(modify_received(k, m)) \in Nat /\ m \in Message
    BY <1>0, <2>1, LifetimeIsNat
  <2>3. /\ insert_with_ttl(k, m, Lifetime(modify_received(k, m)))
        /\ now' = now
    BY <1>1 DEF insert
  <2>4. LivesFor(k, m, Lesser(Lifetime(modify_received(k, m)), MaxTtl))
    BY DEF LivesFor
  <2>5. QED
    BY <2>2, <2>3, <2>4, InsertKeeps
<1>2. ASSUME NEW k \in Keys, NEW m \in Messages, NEW ttl \in FailureTtls,
             insert_failure(k, m, ttl)
      PROVE  CacheInv'
  <2> DEFINE asked == Lesser(300, IF ttl = 0 THEN 1 ELSE ttl)
  <2>1. asked \in Nat
    BY <1>0 DEF Lesser
  <2>2. insert_with_ttl(k, m, asked) /\ now' = now /\ m \in Message
    BY <1>0, <1>2 DEF insert_failure
  <2>3. LivesFor(k, m, Lesser(asked, MaxTtl))
    BY <1>2 DEF insert_failure, LivesFor
  <2> HIDE DEF asked
  <2>4. QED
    BY <2>1, <2>2, <2>3, InsertKeeps
<1>3. ASSUME NEW k \in Keys, find(k) PROVE CacheInv'
  BY <1>3, HitKeeps, MissKeeps DEF find
<1>4. CASE Tick
  <2>1. now' \in 0 .. Horizon /\ now <= now' /\ UNCHANGED <<items, item, index, bytes>>
    BY <1>4, DnsCacheAssumption DEF Tick, CacheInv, Shape, DnsCacheAssumption
  <2>2. QED
    BY <2>1, SameCache
<1>5. CASE UNCHANGED vars
  <2>1. now' \in 0 .. Horizon /\ now <= now' /\ UNCHANGED <<items, item, index, bytes>>
    BY <1>5 DEF vars, CacheInv, Shape
  <2>2. QED
    BY <2>1, SameCache
<1>6. QED
  BY <1>1, <1>2, <1>3, <1>4, <1>5 DEF Next

-----------------------------------------------------------------------------
(***************************************************************************)
(* What calls return. Every call sets it, so what is returned is about the *)
(* cache as it is.                                                         *)
(***************************************************************************)

Returned == found.node \in Nodes \cup {Null}

\* What is left is rounded down, so nothing is gained by dividing it.
LEMMA RoundedDown ==
  ASSUME NEW a \in Int, NEW b \in Int, NEW e \in Int, NEW limit \in Nat, NEW s \in Nat \ {0},
         a < e, e <= b + limit * s
  PROVE  (a - b) + s * ((e - a) \div s) <= s * limit
<1> DEFINE x == e - a
           q == x \div s
           p == s * q
           c == limit * s
<1>1. x \in Nat /\ c \in Int /\ s * limit = c
  OBVIOUS
<1>2. q \in Nat /\ p \in Nat /\ p <= x
  <2>1. \A y \in Nat : y \div s \in Nat /\ s * (y \div s) \in Nat /\ s * (y \div s) <= y
    OBVIOUS
  <2> HIDE DEF x
  <2>2. QED
    BY <1>1, <2>1
<1> HIDE DEF p, c, q
<1>3. (a - b) + p <= c
  BY <1>1, <1>2 DEF c
<1>4. QED
  BY <1>1, <1>3 DEF p, q

\* A hit serves no record for longer than it may be kept.
LEMMA ServedInTime ==
  ASSUME CacheInv, NEW k \in Keys, Hit(k), now' = now
  PROVE  TtlNeverInflated'
<1> DEFINE R == item[index[k]].records
<1>1. index[k] \in ToSet(items) /\ found' = [node |-> index[k], served |-> update_ttls(R)]
  BY DEF Hit, CacheInv, Matched
<1>2. /\ \A r \in R : r \in Record /\ Limited(r, item[index[k]])
      /\ item[index[k]].key = k /\ now < item[index[k]].expire /\ UNCHANGED item
  BY <1>1 DEF CacheInv, Matched, Dated, Entry, Hit
<1> HIDE DEF R
<1>3. SUFFICES ASSUME NEW r \in update_ttls(R)
               PROVE  LET limit == Second * Lesser(Greater(r.owner, Override[k]), MaxTtl)
                          age   == now - r.born
                      IN  /\ r.expire > 0 => age + Second * r.expire <= limit
                          /\ r.role = "decides" => age < limit
  BY <1>1, <1>2 DEF TtlNeverInflated
<1>4. PICK w \in R : r = [w EXCEPT !.expire = IF now < w.expire
                                              THEN (w.expire - now) \div Second ELSE 0]
  BY DEF update_ttls
<1>5. w \in Record /\ Limited(w, item[index[k]])
  BY <1>2
<1>6. /\ r.owner = w.owner /\ r.born = w.born /\ r.role = w.role
      /\ r.expire = IF now < w.expire THEN (w.expire - now) \div Second ELSE 0
  BY <1>4, <1>5 DEF Record
<1> DEFINE limit == Lesser(Greater(w.owner, Override[k]), MaxTtl)
<1>7. now \in Int /\ w.born \in Int /\ w.expire \in Int /\ w.owner \in Nat /\ Second \in Nat \ {0}
  BY <1>5, DnsCacheAssumption DEF CacheInv, Shape, Record, DnsCacheAssumption
<1>8. limit \in Nat
  BY <1>7, DnsCacheAssumption DEF DnsCacheAssumption, Lesser, Greater
<1>9. w.expire <= w.born + limit * Second
  BY <1>2, <1>5 DEF Limited, Bound
<1>10. limit * Second \in Int /\ Second * limit = limit * Second
  BY <1>7, <1>8
<1> HIDE DEF limit
<1>11. ASSUME r.expire > 0
       PROVE  (now - r.born) + Second * r.expire <= Second * limit
  <2>1. now < w.expire /\ r.expire = (w.expire - now) \div Second
    BY <1>6, <1>11
  <2>2. (now - w.born) + Second * ((w.expire - now) \div Second) <= Second * limit
    BY <1>7, <1>8, <1>9, <2>1, RoundedDown
  <2>3. QED
    BY <1>6, <2>1, <2>2
<1>12. ASSUME r.role = "decides"
       PROVE  now - r.born < Second * limit
  <2>1. w.expire = item[index[k]].expire
    BY <1>5, <1>6, <1>12 DEF Limited
  <2>2. now < w.expire
    BY <1>2, <2>1
  <2>3. QED
    BY <1>6, <1>7, <1>9, <1>10, <2>2
<1>13. QED
  BY <1>6, <1>11, <1>12 DEF limit

LEMMA ReturnedStep ==
  CacheInv /\ Returned /\ TtlNeverInflated /\ [Next]_vars => Returned' /\ TtlNeverInflated'
<1> SUFFICES ASSUME CacheInv, Returned, TtlNeverInflated, [Next]_vars
             PROVE  Returned' /\ TtlNeverInflated'
  OBVIOUS
<1>1. ASSUME found' = NotFound PROVE Returned' /\ TtlNeverInflated'
  BY <1>1 DEF Returned, TtlNeverInflated, NotFound
<1>2. ASSUME NEW k \in Keys, find(k) PROVE Returned' /\ TtlNeverInflated'
  <2>1. CASE Hit(k)
    <3>1. now' = now
      BY <1>2 DEF find
    <3>2. Returned'
      BY <2>1 DEF Hit, Returned, CacheInv, Shape
    <3>3. QED
      BY <2>1, <3>1, <3>2, ServedInTime
  <2>2. CASE Miss(k)
    BY <1>1, <2>2 DEF Miss
  <2>3. QED
    BY <1>2, <2>1, <2>2 DEF find
<1>3. CASE UNCHANGED vars
  BY <1>3 DEF vars, Returned, TtlNeverInflated
<1>4. QED
  BY <1>1, <1>2, <1>3 DEF Next, insert, insert_failure, Tick

LEMMA ReturnedInit == Init => Returned /\ TtlNeverInflated
  BY DEF Init, Returned, TtlNeverInflated, NotFound

\* Every reachable state is typed.
THEOREM TypeCorrect == Spec => []TypeOK
<1>1. CacheInv /\ Returned => TypeOK
  <2> SUFFICES ASSUME CacheInv, Returned PROVE TypeOK
    OBVIOUS
  <2>1. bytes \in 0 .. SizeModulus - 1
    BY CountsAreNat, DnsCacheAssumption DEF DnsCacheAssumption
  <2>2. \A n \in Nodes : item[n] = NullItem \/ /\ item[n].key \in Keys
                                               /\ item[n].charge \in 1 .. MaxEntrySize
    BY DEF CacheInv, Shape, Entry
  <2>3. QED
    BY <2>1, <2>2 DEF CacheInv, Shape, Returned, TypeOK
<1>2. QED
  BY <1>1, CacheInit, CacheStep, ReturnedInit, ReturnedStep, PTL DEF Spec

\* Through replacement, expiry, eviction and the splice of a hit the index finds every
\* entry of the list by its key and nothing else.
THEOREM IndexCorrect == Spec => []IndexMatchesList
<1>1. CacheInv => IndexMatchesList
  <2> SUFFICES ASSUME CacheInv PROVE IndexMatchesList
    OBVIOUS
  <2>1. /\ DOMAIN items = 1 .. Len(items)
        /\ ToSet(items) = {items[i] : i \in 1 .. Len(items)}
    BY Holds DEF CacheInv, Shape
  <2>2. \A k \in Keys : index[k] # Null => /\ \E i \in DOMAIN items : items[i] = index[k]
                                           /\ item[index[k]].key = k
    BY <2>1 DEF CacheInv, Matched
  <2>3. \A i \in DOMAIN items : index[item[items[i]].key] = items[i]
    BY <2>1 DEF CacheInv, Matched
  <2>4. \A i, j \in DOMAIN items : items[i] = items[j] => i = j
    BY <2>1 DEF CacheInv, Matched, Distinct
  <2>5. QED
    BY <2>2, <2>3, <2>4 DEF IndexMatchesList
<1>2. QED
  BY <1>1, CacheInit, CacheStep, PTL DEF Spec

\* The byte counter is the sum of what the list holds and within its limit, so that the
\* unsigned subtraction of the eviction loop never wraps.
THEOREM BytesCorrect == Spec => []BytesExact
<1>1. CacheInv => BytesExact
  <2> SUFFICES ASSUME CacheInv PROVE BytesExact
    OBVIOUS
  <2>1. {items[i] : i \in DOMAIN items} = ToSet(items)
    BY DEF ToSet
  <2>2. bytes = Charge({items[i] : i \in DOMAIN items})
    BY <2>1, ChargeIsBytes DEF CacheInv, Counted
  <2>3. QED
    BY <2>2 DEF BytesExact, CacheInv, Counted
<1>2. QED
  BY <1>1, CacheInit, CacheStep, PTL DEF Spec

\* No record is served with more time to live than its owner, or an override for the
\* name, left it, nor is one that decides how long its entry lives served any later.
THEOREM TtlCorrect == Spec => []TtlNeverInflated
  BY CacheInit, CacheStep, ReturnedInit, ReturnedStep, PTL DEF Spec

-----------------------------------------------------------------------------
(***************************************************************************)
(* The cache implements CacheService. Its list of keys is the list of      *)
(* nodes read through their entries; what is done to the one is done to    *)
(* the other at the same position.                                         *)
(***************************************************************************)

Keyed(f, s) == [i \in DOMAIN s |-> f[s[i]].key]

LEMMA KeyedList ==
  ASSUME NEW f, NEW s \in Seq(Nodes), \A n \in ToSet(s) : f[n].key \in Keys
  PROVE  /\ Keyed(f, s) \in Seq(Keys) /\ Len(Keyed(f, s)) = Len(s)
         /\ \A i \in 1 .. Len(s) : Keyed(f, s)[i] = f[s[i]].key
         /\ ToSet(Keyed(f, s)) = {f[n].key : n \in ToSet(s)}
<1> DEFINE t == Keyed(f, s)
<1>1. /\ Len(s) \in Nat /\ DOMAIN s = 1 .. Len(s)
      /\ ToSet(s) = {s[i] : i \in 1 .. Len(s)}
      /\ \A i \in 1 .. Len(s) : s[i] \in ToSet(s)
  BY Holds
<1>2. t \in [1 .. Len(s) -> Keys] /\ \A i \in 1 .. Len(s) : t[i] = f[s[i]].key
  BY <1>1 DEF Keyed
<1> HIDE DEF t
<1>3. t \in Seq(Keys)
  <2>1. Seq(Keys) = UNION {[1 .. n -> Keys] : n \in Nat}
    BY SeqDef
  <2>2. [1 .. Len(s) -> Keys] \in {[1 .. n -> Keys] : n \in Nat}
    BY <1>1
  <2>3. QED
    BY <1>2, <2>1, <2>2
<1>4. DOMAIN t = 1 .. Len(t) /\ DOMAIN t = 1 .. Len(s) /\ Len(t) \in Nat
  BY <1>2, <1>3, LenProperties
<1>5. Len(t) = Len(s)
  <2>1. \A a, b \in Nat : a < b => 1 .. a # 1 .. b
    <3>1. \A a, b \in Nat : a < b => b \in 1 .. b /\ b \notin 1 .. a
      OBVIOUS
    <3>2. QED
      BY <3>1
  <2> DEFINE a == Len(t)
             b == Len(s)
  <2>2. a \in Nat /\ b \in Nat /\ 1 .. a = 1 .. b
    BY <1>1, <1>4
  <2> HIDE DEF a, b
  <2>3. a = b
    BY <2>1, <2>2
  <2>4. QED
    BY <2>3 DEF a, b
<1>6. ToSet(t) = {f[n].key : n \in ToSet(s)}
  BY <1>1, <1>2, <1>4 DEF ToSet
<1>7. QED
  BY <1>2, <1>3, <1>5, <1>6 DEF t

\* Different nodes with different keys make different keys.
LEMMA KeyedDistinct ==
  ASSUME NEW f, NEW s \in Seq(Nodes), \A n \in ToSet(s) : f[n].key \in Keys, Distinct(s),
         \A n, o \in ToSet(s) : f[n].key = f[o].key => n = o
  PROVE  Distinct(Keyed(f, s))
  BY KeyedList, Holds DEF Distinct

LEMMA KeyedFront ==
  ASSUME NEW f, NEW s \in Seq(Nodes), \A n \in ToSet(s) : f[n].key \in Keys, Distinct(s),
         \A n, o \in ToSet(s) : f[n].key = f[o].key => n = o,
         NEW l \in 0 .. Len(s)
  PROVE  Keyed(f, SubSeq(s, 1, l)) = SubSeq(Keyed(f, s), 1, l)
<1> DEFINE t == SubSeq(s, 1, l)
           u == Keyed(f, s)
           v == SubSeq(u, 1, l)
<1>1. /\ t \in Seq(Nodes) /\ Len(t) = l /\ \A i \in 1 .. l : t[i] = s[i]
      /\ ToSet(t) = {s[i] : i \in 1 .. l}
  BY FrontOfList
<1>2. Len(s) \in Nat /\ ToSet(s) = {s[i] : i \in 1 .. Len(s)} /\ 1 .. l \subseteq 1 .. Len(s)
  BY Holds
<1>3. /\ u \in Seq(Keys) /\ Len(u) = Len(s) /\ Distinct(u)
      /\ \A i \in 1 .. Len(s) : u[i] = f[s[i]].key
  BY KeyedList, KeyedDistinct
<1> HIDE DEF u, t
<1>4. \A n \in ToSet(t) : f[n].key \in Keys
  BY <1>1, <1>2
<1>5. /\ Keyed(f, t) \in Seq(Keys) /\ Len(Keyed(f, t)) = l
      /\ \A i \in 1 .. l : Keyed(f, t)[i] = f[t[i]].key
  BY <1>1, <1>4, KeyedList
<1>6. v \in Seq(Keys) /\ Len(v) = l /\ \A i \in 1 .. l : v[i] = u[i]
  BY <1>3, FrontOfList
<1> HIDE DEF v
<1>7. \A i \in 1 .. l : Keyed(f, t)[i] = v[i]
  BY <1>1, <1>2, <1>3, <1>5, <1>6
<1>8. Keyed(f, t) = v
  BY <1>5, <1>6, <1>7, SeqEqual
<1>9. QED
  BY <1>8 DEF t, u, v

LEMMA KeyedPushed ==
  ASSUME NEW f, NEW s \in Seq(Nodes), \A n \in ToSet(s) : f[n].key \in Keys, Distinct(s),
         \A n, o \in ToSet(s) : f[n].key = f[o].key => n = o,
         NEW e \in Nodes, e \notin ToSet(s), f[e].key \in Keys,
         \A n \in ToSet(s) : f[n].key # f[e].key
  PROVE  Keyed(f, <<e>> \o s) = <<f[e].key>> \o Keyed(f, s)
<1> DEFINE t == <<e>> \o s
           u == Keyed(f, s)
           v == <<f[e].key>> \o u
<1>1. /\ t \in Seq(Nodes) /\ Len(t) = Len(s) + 1 /\ ToSet(t) = {e} \cup ToSet(s)
      /\ t[1] = e /\ \A i \in 1 .. Len(s) : t[i + 1] = s[i]
  BY Pushed
<1>2. Len(s) \in Nat
  BY Holds
<1>3. /\ u \in Seq(Keys) /\ Len(u) = Len(s) /\ Distinct(u)
      /\ \A i \in 1 .. Len(s) : u[i] = f[s[i]].key
      /\ f[e].key \notin ToSet(u)
  BY KeyedList, KeyedDistinct
<1> HIDE DEF u, t
<1>4. \A n \in ToSet(t) : f[n].key \in Keys
  BY <1>1
<1>5. /\ Keyed(f, t) \in Seq(Keys) /\ Len(Keyed(f, t)) = Len(s) + 1
      /\ \A i \in 1 .. Len(s) + 1 : Keyed(f, t)[i] = f[t[i]].key
  BY <1>1, <1>4, KeyedList
<1>6. /\ v \in Seq(Keys) /\ Len(v) = Len(s) + 1
      /\ v[1] = f[e].key /\ \A i \in 1 .. Len(s) : v[i + 1] = u[i]
  BY <1>3, Pushed
<1> HIDE DEF v
<1>7. ASSUME NEW i \in 1 .. Len(s) + 1 PROVE Keyed(f, t)[i] = v[i]
  <2>1. CASE i = 1
    BY <1>1, <1>5, <1>6, <2>1
  <2>2. CASE i # 1
    <3>1. PICK j \in 1 .. Len(s) : i = j + 1
      <4>1. i - 1 \in 1 .. Len(s) /\ i = (i - 1) + 1
        BY <1>2, <2>2
      <4>2. QED
        BY <4>1
    <3>2. QED
      BY <1>1, <1>3, <1>5, <1>6, <3>1
  <2>3. QED
    BY <2>1, <2>2
<1>8. Keyed(f, t) = v
  BY <1>5, <1>6, <1>7, SeqEqual
<1>9. QED
  BY <1>8 DEF t, u, v

LEMMA KeyedWithout ==
  ASSUME NEW f, NEW s \in Seq(Nodes), \A n \in ToSet(s) : f[n].key \in Keys, Distinct(s),
         \A n, o \in ToSet(s) : f[n].key = f[o].key => n = o,
         NEW e, NEW k, \A n \in ToSet(s) : n = e <=> f[n].key = k
  PROVE  Keyed(f, RemoveFirst(s, e)) = RemoveFirst(Keyed(f, s), k)
<1> DEFINE t == RemoveFirst(s, e)
           u == Keyed(f, s)
           v == RemoveFirst(u, k)
<1>1. /\ u \in Seq(Keys) /\ Len(u) = Len(s) /\ Distinct(u)
      /\ \A i \in 1 .. Len(s) : u[i] = f[s[i]].key
      /\ ToSet(u) = {f[n].key : n \in ToSet(s)}
  BY KeyedList, KeyedDistinct
<1>2. /\ Len(s) \in Nat /\ ToSet(s) = {s[i] : i \in 1 .. Len(s)}
      /\ \A i \in 1 .. Len(s) : s[i] \in ToSet(s)
  BY Holds
<1> HIDE DEF u
<1>3. CASE e \notin ToSet(s)
  <2>1. k \notin ToSet(u)
    BY <1>1, <1>3
  <2>2. t = s /\ v = u
    BY <1>1, <1>3, <2>1, RemoveFirstIs
  <2>3. QED
    BY <2>2 DEF u
<1>4. CASE e \in ToSet(s)
  <2>1. PICK i \in 1 .. Len(s) : s[i] = e
    BY <1>2, <1>4
  <2>2. i \in 1 .. Len(u) /\ u[i] = k
    BY <1>1, <1>2, <2>1
  <2>3. t = RemoveAt(s, i) /\ v = RemoveAt(u, i)
    BY <1>1, <2>1, <2>2, RemoveFirstIs
  <2>4. /\ t \in Seq(Nodes) /\ Len(t) = Len(s) - 1
        /\ \A j \in 1 .. Len(s) - 1 : t[j] = IF j < i THEN s[j] ELSE s[j + 1]
    BY <2>3, RemoveAtResult
  <2>5. /\ v \in Seq(Keys) /\ Len(v) = Len(s) - 1
        /\ \A j \in 1 .. Len(s) - 1 : v[j] = IF j < i THEN u[j] ELSE u[j + 1]
    <3>1. /\ RemoveAt(u, i) \in Seq(Keys) /\ Len(RemoveAt(u, i)) = Len(u) - 1
          /\ \A j \in 1 .. Len(u) - 1 : RemoveAt(u, i)[j] = IF j < i THEN u[j] ELSE u[j + 1]
      BY <1>1, <2>2, RemoveAtResult
    <3> HIDE DEF v
    <3>2. QED
      BY <1>1, <2>3, <3>1
  <2>6. ToSet(t) \subseteq ToSet(s)
    BY Without
  <2> HIDE DEF t, v
  <2>7. /\ Keyed(f, t) \in Seq(Keys) /\ Len(Keyed(f, t)) = Len(s) - 1
        /\ \A j \in 1 .. Len(s) - 1 : Keyed(f, t)[j] = f[t[j]].key
    BY <2>4, <2>6, KeyedList
  <2>8. ASSUME NEW j \in 1 .. Len(s) - 1 PROVE Keyed(f, t)[j] = v[j]
    <3>1. j \in 1 .. Len(s) /\ j + 1 \in 1 .. Len(s)
      BY <1>2
    <3>2. u[j] = f[s[j]].key /\ u[j + 1] = f[s[j + 1]].key
      BY <1>1, <3>1
    <3>3. QED
      BY <2>4, <2>5, <2>7, <3>2
  <2>9. Keyed(f, t) = v
    BY <2>5, <2>7, <2>8, SeqEqual
  <2>10. QED
    BY <2>9 DEF t, u, v
<1>5. QED
  BY <1>3, <1>4

LEMMA KeyedSame ==
  ASSUME NEW f, NEW g, NEW s \in Seq(Nodes), \A n \in ToSet(s) : f[n].key = g[n].key
  PROVE  Keyed(f, s) = Keyed(g, s)
<1>1. \A i \in DOMAIN s : f[s[i]].key = g[s[i]].key
  BY Holds
<1>2. QED
  BY <1>1 DEF Keyed

-----------------------------------------------------------------------------
\* What the cache looks like to its caller.
Recent  == Keyed(item, items)
EntryOf == [k \in Keys |-> IF index[k] = Null THEN [charge |-> 0, expire |-> 0]
                           ELSE [charge |-> item[index[k]].charge,
                                 expire |-> item[index[k]].expire]]
FoundOf == IF found.node = Null THEN "none" ELSE item[found.node].key

\* The instance has its own copies of the library's operators.
LEMMA SameOperators ==
  /\ \A S : Promised!Max(S) = Max(S)
  /\ \A S : Promised!Cardinality(S) = Cardinality(S)
  /\ \A s : Promised!ToSet(s) = ToSet(s)
  /\ \A s, e : Promised!Contains(s, e) <=> Contains(s, e)
  /\ \A s, e : Promised!RemoveFirst(s, e) = RemoveFirst(s, e)
<1>1. \A S : Promised!Max(S) = Max(S)
  BY DEF Promised!Max, Max
<1>2. \A S : Promised!Cardinality(S) = Cardinality(S)
  BY DEF Promised!Cardinality, Cardinality
<1>3. \A s : Promised!ToSet(s) = ToSet(s)
  BY DEF Promised!ToSet, ToSet
<1>4. \A s, e : Promised!Contains(s, e) <=> Contains(s, e)
  BY DEF Promised!Contains, Contains
<1>5. \A s, e : Promised!RemoveFirst(s, e) = RemoveFirst(s, e)
  BY DEF Promised!RemoveFirst, RemoveFirst, Promised!RemoveAt, RemoveAt,
         Promised!SelectInSeq, SelectInSeq, Promised!Min, Min
<1>6. QED
  BY <1>1, <1>2, <1>3, <1>4, <1>5

\* The keys of the list are those the index finds.
LEMMA ListedKeys ==
  ASSUME CacheInv
  PROVE  /\ items \in Seq(Nodes) /\ Distinct(items)
         /\ \A n \in ToSet(items) : item[n].key \in Keys /\ n # Null
         /\ \A n, o \in ToSet(items) : item[n].key = item[o].key => n = o
         /\ Recent \in Seq(Keys) /\ Distinct(Recent) /\ Len(Recent) = Len(items)
         /\ \A k : Contains(Recent, k) <=> \E n \in ToSet(items) : item[n].key = k
         /\ \A k \in Keys : Contains(Recent, k) <=> index[k] # Null
<1>1. items \in Seq(Nodes) /\ Distinct(items)
  BY DEF CacheInv, Shape, Matched
<1>2. \A n \in ToSet(items) : item[n].key \in Keys /\ n # Null
  BY <1>1, Holds, DnsCacheAssumption DEF CacheInv, Matched, Entry, DnsCacheAssumption
<1>3. \A n, o \in ToSet(items) : item[n].key = item[o].key => n = o
  BY DEF CacheInv, Matched
<1>4. /\ Recent \in Seq(Keys) /\ Distinct(Recent) /\ Len(Recent) = Len(items)
      /\ ToSet(Recent) = {item[n].key : n \in ToSet(items)}
  BY <1>1, <1>2, <1>3, KeyedList, KeyedDistinct DEF Recent
<1>5. \A k : Contains(Recent, k) <=> k \in ToSet(Recent)
  <2>1. ToSet(Recent) = {Recent[i] : i \in 1 .. Len(Recent)}
    BY <1>4, Holds
  <2>2. QED
    BY <2>1 DEF Contains
<1>6. \A k : Contains(Recent, k) <=> \E n \in ToSet(items) : item[n].key = k
  BY <1>4, <1>5
<1>7. \A k \in Keys : Contains(Recent, k) <=> index[k] # Null
  BY <1>2, <1>6 DEF CacheInv, Matched
<1>8. QED
  BY <1>1, <1>2, <1>3, <1>4, <1>6, <1>7

Found == \A k \in Keys : Contains(Recent, k) <=> index[k] # Null

LEMMA KeysAreFound == CacheInv => Found
  BY ListedKeys DEF Found

\* Taking a key out of the list is taking out its node.
LEMMA RecentWithout ==
  ASSUME CacheInv, NEW k \in Keys
  PROVE  Keyed(item, Rest(k)) = RemoveFirst(Recent, k)
<1>1. /\ items \in Seq(Nodes) /\ Distinct(items)
      /\ \A n \in ToSet(items) : item[n].key \in Keys
      /\ \A n, o \in ToSet(items) : item[n].key = item[o].key => n = o
  BY ListedKeys
<1>2. \A n \in ToSet(items) : n = index[k] <=> item[n].key = k
  BY ListedKeys DEF CacheInv, Matched
<1>3. QED
  BY <1>1, <1>2, KeyedWithout DEF Rest, ListWithout, Recent

\* Keys are charged for as their nodes are.
ChargesOf(s) == Cardinality({c \in ToSet(s) \X (1 .. MaxBytes) : c[2] <= EntryOf[c[1]].charge})

LEMMA ChargesAreBytes ==
  ASSUME CacheInv, NEW s \in Seq(Nodes), ToSet(s) \subseteq ToSet(items)
  PROVE  ChargesOf(Keyed(item, s)) = BytesOf(item, ToSet(s))
<1> DEFINE K == ToSet(s)
           J == ToSet(Keyed(item, s))
           C == {c \in J \X (1 .. MaxBytes) : c[2] <= EntryOf[c[1]].charge}
           D == Charged(item, K)
           b == [d \in D |-> <<item[d[1]].key, d[2]>>]
<1>1. /\ \A n \in ToSet(items) : item[n].key \in Keys /\ n # Null
      /\ \A n, o \in ToSet(items) : item[n].key = item[o].key => n = o
  BY ListedKeys
<1>2. J = {item[n].key : n \in K}
  BY <1>1, KeyedList
<1>3. \A n \in K : /\ EntryOf[item[n].key].charge = item[n].charge
                   /\ item[n].charge \in 1 .. MaxEntrySize
  BY <1>1 DEF EntryOf, CacheInv, Matched, Entry
<1>4. MaxEntrySize \in Nat /\ MaxBytes \in Nat /\ MaxEntrySize <= MaxBytes
  BY DnsCacheAssumption DEF DnsCacheAssumption
<1> HIDE DEF J, K
<1>5. ASSUME NEW d \in D
      PROVE  d[1] \in K /\ d = <<d[1], d[2]>> /\ <<item[d[1]].key, d[2]>> \in C
  <2>1. d[1] \in K /\ d[2] \in 1 .. MaxEntrySize /\ d[2] <= item[d[1]].charge
        /\ d = <<d[1], d[2]>>
    BY DEF Charged
  <2>2. item[d[1]].key \in J /\ d[2] \in 1 .. MaxBytes
    BY <1>2, <1>4, <2>1
  <2>3. d[2] <= EntryOf[item[d[1]].key].charge
    BY <1>3, <2>1
  <2>4. QED
    BY <2>1, <2>2, <2>3
<1>6. ASSUME NEW c \in C PROVE \E d \in D : <<item[d[1]].key, d[2]>> = c
  <2>1. PICK n \in K : item[n].key = c[1]
    BY <1>2
  <2>2. c[2] <= item[n].charge /\ c[2] \in 1 .. MaxEntrySize /\ c = <<c[1], c[2]>>
    BY <1>3, <1>4, <2>1
  <2>3. <<n, c[2]>> \in D
    BY <2>2 DEF Charged
  <2>4. QED
    BY <2>1, <2>2, <2>3
<1>7. b \in [D -> C]
  BY <1>5
<1>8. \A d, e \in D : b[d] = b[e] => d = e
  <2> SUFFICES ASSUME NEW d \in D, NEW e \in D, b[d] = b[e] PROVE d = e
    OBVIOUS
  <2>1. item[d[1]].key = item[e[1]].key /\ d[2] = e[2]
    OBVIOUS
  <2>2. d[1] \in K /\ e[1] \in K /\ d = <<d[1], d[2]>> /\ e = <<e[1], e[2]>>
    BY <1>5
  <2>3. d[1] = e[1]
    BY <1>1, <2>1, <2>2 DEF K
  <2>4. QED
    BY <2>1, <2>2, <2>3
<1>9. \A c \in C : \E d \in D : b[d] = c
  BY <1>6
<1>10. b \in Bijection(D, C)
  BY <1>7, <1>8, <1>9 DEF Bijection, Injection, IsInjective, Surjection
<1>11. IsFiniteSet(D)
  BY ListsAreFinite, BytesAreFinite DEF K
<1> HIDE DEF b, C, D
<1>12. Cardinality(C) = Cardinality(D)
  BY <1>10, <1>11, FS_Bijection DEF ExistsBijection
<1>13. QED
  BY <1>12 DEF C, D, J, K, ChargesOf, BytesOf

\* The longest front of keys that fits is the one the eviction loop leaves.
LEMMA KeptIsFront ==
  ASSUME CacheInv, NEW k \in Keys, NEW m \in Message, NEW ttl \in Nat,
         NEW l \in 0 .. Len(Rest(k)), Stored(k, m, ttl, l), LivesFor(k, m, ttl)
  PROVE  Promised!Kept(RemoveFirst(Recent, k), m.size) = Keyed(item, SubSeq(Rest(k), 1, l))
<1> DEFINE rest == Rest(k)
           t    == RemoveFirst(Recent, k)
           R    == {n \in 0 .. Len(t) : Promised!Fits(SubSeq(t, 1, n), m.size)}
<1>1. /\ rest \in Seq(Nodes) /\ Distinct(rest) /\ Len(rest) \in Nat
      /\ ToSet(rest) \subseteq ToSet(items)
  BY RestOfList
<1>2. /\ \A n \in ToSet(rest) : item[n].key \in Keys
      /\ \A n, o \in ToSet(rest) : item[n].key = item[o].key => n = o
  BY <1>1, ListedKeys
<1>3. t = Keyed(item, rest) /\ Len(t) = Len(rest)
  BY <1>1, <1>2, RecentWithout, KeyedList
<1>4. ASSUME NEW n \in 0 .. Len(rest)
      PROVE  /\ SubSeq(t, 1, n) = Keyed(item, SubSeq(rest, 1, n))
             /\ Promised!Fits(SubSeq(t, 1, n), m.size) <=> Roomy(k, m, n)
  <2> DEFINE s == SubSeq(rest, 1, n)
  <2>1. SubSeq(t, 1, n) = Keyed(item, s)
    BY <1>1, <1>2, <1>3, KeyedFront
  <2>2. /\ s \in Seq(Nodes) /\ Len(s) = n /\ ToSet(s) \subseteq ToSet(rest)
    <3>1. ToSet(rest) = {rest[i] : i \in 1 .. Len(rest)} /\ 1 .. n \subseteq 1 .. Len(rest)
      BY <1>1, Holds
    <3>2. s \in Seq(Nodes) /\ Len(s) = n /\ ToSet(s) = {rest[i] : i \in 1 .. n}
      BY <1>1, FrontOfList
    <3>3. QED
      BY <3>1, <3>2
  <2>3. /\ Len(Keyed(item, s)) = n
        /\ ChargesOf(Keyed(item, s)) = BytesOf(item, ToSet(s))
    BY <1>1, <1>2, <2>2, KeyedList, ChargesAreBytes
  <2>4. Promised!Charges(Keyed(item, s)) = ChargesOf(Keyed(item, s))
    BY SameOperators DEF Promised!Charges, ChargesOf, EntryOf
  <2>5. Roomy(k, m, n) <=> n < MaxEntries /\ BytesOf(item, ToSet(s)) + m.size <= MaxBytes
    BY EntryFits DEF Stored
  <2> HIDE DEF s, t
  <2>6. Promised!Fits(SubSeq(t, 1, n), m.size) <=> Roomy(k, m, n)
    BY <2>1, <2>3, <2>4, <2>5 DEF Promised!Fits
  <2>7. QED
    BY <2>1, <2>6 DEF s
<1>5. l \in R /\ \A n \in R : l >= n
  <2>1. Roomy(k, m, l) /\ \A j \in l + 1 .. Len(rest) : ~Roomy(k, m, j)
    BY DEF Stored
  <2>2. l \in R
    BY <1>3, <1>4, <2>1
  <2>3. ASSUME NEW n \in R PROVE l >= n
    <3>1. n \in 0 .. Len(rest) /\ Roomy(k, m, n)
      BY <1>3, <1>4
    <3>2. n \notin l + 1 .. Len(rest)
      BY <2>1, <3>1
    <3>3. QED
      BY <1>1, <3>1, <3>2
  <2>4. QED
    BY <2>2, <2>3
<1>6. Max(R) = l
  <2>1. R \subseteq Int
    OBVIOUS
  <2> HIDE DEF R
  <2>2. \A x \in R : (\A y \in R : x >= y) => x = l
    BY <1>5, <2>1
  <2>3. QED
    BY <1>5, <2>2 DEF Max
<1>7. Promised!Kept(t, m.size) = SubSeq(t, 1, Max(R))
  BY SameOperators DEF Promised!Kept
<1>8. QED
  BY <1>4, <1>6, <1>7

LEMMA EntriesOfKeys ==
  \A k \in Keys : EntryOf[k] = IF index[k] = Null THEN [charge |-> 0, expire |-> 0]
                             ELSE [charge |-> item[index[k]].charge,
                                   expire |-> item[index[k]].expire]
  BY DEF EntryOf

\* The entries of keys that keep their nodes, and of those that do not, are what
\* Forget makes of them.
LEMMA ForgetIs ==
  ASSUME CacheInv, CacheInv', NEW k,
         \A j \in Keys \ {k} : index'[j] # Null => index'[j] = index[j] /\ item'[index[j]] = item[index[j]]
  PROVE  \A j \in Keys \ {k} : EntryOf'[j] = Promised!Forget(Recent')[j]
<1> SUFFICES ASSUME NEW j \in Keys \ {k} PROVE EntryOf'[j] = Promised!Forget(Recent')[j]
  OBVIOUS
<1>1. Found'
  BY KeysAreFound, PTL
<1>2. Contains(Recent', j) <=> index'[j] # Null
  BY <1>1 DEF Found
<1>3. Promised!Forget(Recent')[j] = IF Contains(Recent', j) THEN EntryOf[j]
                                    ELSE [charge |-> 0, expire |-> 0]
  BY SameOperators DEF Promised!Forget, Promised!Nothing, EntryOf
<1>4. EntryOf'[j] = IF index'[j] = Null THEN [charge |-> 0, expire |-> 0]
                    ELSE [charge |-> item'[index'[j]].charge, expire |-> item'[index'[j]].expire]
  BY DEF EntryOf
<1>5. QED
  BY <1>2, <1>3, <1>4, EntriesOfKeys

\* Storing a message is storing an entry.
LEMMA StoreStep ==
  ASSUME CacheInv, CacheInv', NEW k \in Keys, NEW m \in Message, NEW ttl \in Nat,
         NEW l \in 0 .. Len(Rest(k)), Stored(k, m, ttl, l), LivesFor(k, m, ttl),
         now' = now, found' = NotFound
  PROVE  Promised!Store(k)
<1> DEFINE kept == SubSeq(Rest(k), 1, l)
           e    == NewEntry(k, m, ttl)
           K    == ToSet(kept)
           S    == Gone(k, l)
<1>1. /\ Storable(m, ttl) /\ PushFront(kept, S, e)
  BY DEF Stored
<1>2. /\ e \in Entry /\ e.key = k /\ e.charge = m.size /\ m.size \in 1 .. MaxBytes
      /\ e.expire \in Nat /\ now < e.expire
  BY <1>1, EntryFits
<1>3. /\ kept \in Seq(Nodes) /\ Distinct(kept)
      /\ K \cap S = {} /\ K \cup S = ToSet(items)
      /\ \A n \in K : item[n].key # k
  BY CutAt
<1> HIDE DEF kept, e, S
<1>4. PICK n \in Nodes \ K :
        /\ items' = <<n>> \o kept
        /\ item' = [ItemWithout(S) EXCEPT ![n] = e]
        /\ index' = [IndexWithout(S) EXCEPT ![k] = n]
  BY <1>1, <1>2 DEF PushFront, ToSet
<1>5. S \in SUBSET ToSet(items) /\ ToSet(items) \ S = K
  BY <1>3
<1>6. /\ ItemWithout(S) \in [Nodes -> Entry \cup {NullItem}]
      /\ \A o \in K : ItemWithout(S)[o] = item[o]
      /\ IndexWithout(S) \in [Keys -> Nodes \cup {Null}]
      /\ \A j \in Keys : IF index[j] \in S THEN IndexWithout(S)[j] = Null
                         ELSE IndexWithout(S)[j] = index[j]
  BY <1>5, Erased
<1> HIDE DEF K
<1>7. item'[n] = e /\ \A o \in K : item'[o] = item[o]
  BY <1>4, <1>6
<1>8. index'[k] = n /\ n # Null /\ \A j \in Keys \ {k} : index'[j] = IndexWithout(S)[j]
  BY <1>4, <1>6, DnsCacheAssumption DEF DnsCacheAssumption
<1>9. EntryOf'[k] = [charge |-> m.size, expire |-> e.expire]
  BY <1>2, <1>7, <1>8 DEF EntryOf
<1>10. Recent' = <<k>> \o Promised!Kept(RemoveFirst(Recent, k), m.size)
  <2>1. Recent' = Keyed(item', <<n>> \o kept)
    BY <1>4 DEF Recent, Keyed
  <2>2. /\ \A o \in K : item'[o].key \in Keys /\ item'[o].key # item'[n].key
        /\ \A o, p \in K : item'[o].key = item'[p].key => o = p
        /\ item'[n].key = k
    BY <1>2, <1>3, <1>5, <1>7, ListedKeys
  <2>3. Keyed(item', <<n>> \o kept) = <<k>> \o Keyed(item', kept)
    <3> DEFINE f == item'
    <3>1. /\ \A o \in ToSet(kept) : f[o].key \in Keys /\ f[o].key # f[n].key
          /\ \A o, p \in ToSet(kept) : f[o].key = f[p].key => o = p
          /\ n \in Nodes /\ n \notin ToSet(kept) /\ f[n].key = k /\ f[n].key \in Keys
      BY <1>4, <2>2 DEF K
    <3> HIDE DEF f
    <3>2. Keyed(f, <<n>> \o kept) = <<f[n].key>> \o Keyed(f, kept)
      BY <1>3, <3>1, KeyedPushed
    <3>3. QED
      BY <3>1, <3>2 DEF f
  <2>4. Keyed(item', kept) = Keyed(item, kept)
    BY <1>3, <1>7, KeyedSame DEF K
  <2>5. Promised!Kept(RemoveFirst(Recent, k), m.size) = Keyed(item, kept)
    BY KeptIsFront DEF kept
  <2>6. QED
    BY <2>1, <2>3, <2>4, <2>5
<1>11. \A j \in Keys \ {k} : index'[j] # Null => index'[j] = index[j] /\ item'[index[j]] = item[index[j]]
  <2> SUFFICES ASSUME NEW j \in Keys \ {k}, index'[j] # Null
               PROVE  index'[j] = index[j] /\ item'[index[j]] = item[index[j]]
    OBVIOUS
  <2>1. index'[j] = index[j] /\ index[j] \notin S
    BY <1>6, <1>8
  <2>2. index[j] \in K
    BY <1>5, <2>1 DEF CacheInv, Matched
  <2>3. QED
    BY <1>7, <2>1, <2>2
<1>12. \A j \in Keys \ {k} : EntryOf'[j] = Promised!Forget(Recent')[j]
  BY <1>11, ForgetIs
<1>13. EntryOf' = [Promised!Forget(Recent') EXCEPT ![k] = EntryOf'[k]]
  <2> DEFINE F == Promised!Forget(Recent')
  <2>1. DOMAIN F = Keys /\ F = [j \in Keys |-> F[j]]
    BY DEF Promised!Forget
  <2>2. EntryOf' = [j \in Keys |-> EntryOf'[j]]
    BY DEF EntryOf
  <2> HIDE DEF F
  <2>3. [F EXCEPT ![k] = EntryOf'[k]] = [j \in Keys |-> IF j = k THEN EntryOf'[k] ELSE F[j]]
    BY <2>1
  <2>4. \A j \in Keys : EntryOf'[j] = IF j = k THEN EntryOf'[k] ELSE F[j]
    BY <1>12 DEF F
  <2>5. QED
    BY <2>2, <2>3, <2>4 DEF F
<1>14. FoundOf' = "none"
  BY DEF FoundOf, NotFound
<1>15. QED
  BY <1>2, <1>9, <1>10, <1>13, <1>14, SameOperators
  DEF Promised!Store, Promised!NoKey, Recent, EntryOf, FoundOf, Keyed

\* Finding a key that is held moves it to the front.
LEMMA HitStep ==
  ASSUME CacheInv, NEW k \in Keys, Hit(k), now' = now
  PROVE  Promised!Hit(k)
<1> DEFINE n == index[k]
           t == Rest(k)
<1>1. /\ n # Null /\ now < item[n].expire /\ found'.node = n
      /\ items' = <<n>> \o t /\ item' = item /\ index' = index
  BY DEF Hit, Rest
<1>2. n \in ToSet(items) /\ item[n].key = k /\ n \in Nodes
  BY <1>1 DEF CacheInv, Matched, Shape
<1>3. /\ t \in Seq(Nodes) /\ Distinct(t) /\ ToSet(t) = ToSet(items) \ {n}
      /\ \A o \in ToSet(t) : item[o].key # k
  BY RestOfList
<1>4. t \in Seq(Nodes) /\ Keyed(item, t) = RemoveFirst(Recent, k)
  BY <1>3, RecentWithout
<1>5. /\ \A o \in ToSet(t) : item[o].key \in Keys /\ item[o].key # item[n].key
      /\ \A o, p \in ToSet(t) : item[o].key = item[p].key => o = p
      /\ n \notin ToSet(t) /\ item[n].key \in Keys
  BY <1>2, <1>3, ListedKeys
<1> HIDE DEF n, t
<1>6. Keyed(item, <<n>> \o t) = <<item[n].key>> \o Keyed(item, t)
  BY <1>2, <1>3, <1>5, KeyedPushed
<1>7. Recent' = <<k>> \o RemoveFirst(Recent, k)
  BY <1>1, <1>2, <1>4, <1>6 DEF Recent, Keyed
<1>8. Contains(Recent, k)
  BY <1>1, ListedKeys DEF n
<1>9. EntryOf[k].expire = item[n].expire /\ EntryOf' = EntryOf
  BY <1>1 DEF EntryOf, n
<1>10. FoundOf' = k
  BY <1>1, <1>2 DEF FoundOf
<1>11. QED
  BY <1>1, <1>7, <1>8, <1>9, <1>10, SameOperators
  DEF Promised!Hit, Recent, EntryOf, FoundOf, Keyed

\* A key that is not held or has expired is not found, nor held any longer.
LEMMA MissStep ==
  ASSUME CacheInv, CacheInv', NEW k \in Keys, Miss(k), now' = now
  PROVE  Promised!Miss(k)
<1> DEFINE S == NodeOf(k)
<1>1. /\ items' = Rest(k) /\ item' = ItemWithout(S) /\ index' = IndexWithout(S)
      /\ found' = NotFound
  BY DEF Miss, Rest
<1>2. /\ S \subseteq ToSet(items) /\ ToSet(Rest(k)) = ToSet(items) \ S
      /\ Rest(k) \in Seq(Nodes)
  BY RestOfList
<1>3. /\ \A o \in ToSet(items) \ S : ItemWithout(S)[o] = item[o]
      /\ \A j \in Keys : IF index[j] \in S THEN IndexWithout(S)[j] = Null
                         ELSE IndexWithout(S)[j] = index[j]
  BY <1>2, Erased
<1>4. index'[k] = Null
  BY <1>1, <1>3 DEF NodeOf
<1> HIDE DEF S
<1>5. Recent' = RemoveFirst(Recent, k)
  <2>1. Keyed(item', Rest(k)) = Keyed(item, Rest(k))
    BY <1>1, <1>2, <1>3, KeyedSame
  <2>2. Recent' = Keyed(item', Rest(k))
    BY <1>1 DEF Recent, Keyed
  <2>3. QED
    BY <2>1, <2>2, RecentWithout
<1>6. \A j \in Keys \ {k} : index'[j] # Null => index'[j] = index[j] /\ item'[index[j]] = item[index[j]]
  <2> SUFFICES ASSUME NEW j \in Keys \ {k}, index'[j] # Null
               PROVE  index'[j] = index[j] /\ item'[index[j]] = item[index[j]]
    OBVIOUS
  <2>1. index'[j] = index[j] /\ index[j] \notin S
    BY <1>1, <1>3
  <2>2. index[j] \in ToSet(items) \ S
    BY <2>1 DEF CacheInv, Matched
  <2>3. QED
    BY <1>1, <1>3, <2>1, <2>2
<1>7. \A j \in Keys \ {k} : EntryOf'[j] = Promised!Forget(Recent')[j]
  BY <1>6, ForgetIs
<1>8. EntryOf'[k] = Promised!Forget(Recent')[k]
  <2>1. Found'
    BY KeysAreFound, PTL
  <2>2. ~Contains(Recent', k)
    BY <1>4, <2>1 DEF Found
  <2>3. Promised!Forget(Recent')[k] = [charge |-> 0, expire |-> 0]
    BY <2>2, SameOperators DEF Promised!Forget, Promised!Nothing
  <2>4. EntryOf'[k] = [charge |-> 0, expire |-> 0]
    BY <1>4 DEF EntryOf
  <2>5. QED
    BY <2>3, <2>4
<1>9. EntryOf' = Promised!Forget(Recent')
  <2> DEFINE F == Promised!Forget(Recent')
  <2>1. F = [j \in Keys |-> F[j]]
    BY DEF Promised!Forget
  <2>2. EntryOf' = [j \in Keys |-> EntryOf'[j]]
    BY DEF EntryOf
  <2>3. \A j \in Keys : EntryOf'[j] = F[j]
    BY <1>7, <1>8
  <2> HIDE DEF F
  <2>4. QED
    BY <2>1, <2>2, <2>3 DEF F
<1>10. FoundOf' = "none"
  BY <1>1 DEF FoundOf, NotFound
<1>11. Contains(Recent, k) => now >= EntryOf[k].expire
  <2>1. index[k] # Null => now >= item[index[k]].expire
    BY DEF Miss
  <2>2. ASSUME index[k] # Null PROVE EntryOf[k].expire = item[index[k]].expire
    BY <2>2 DEF EntryOf
  <2>3. Contains(Recent, k) => index[k] # Null
    BY ListedKeys
  <2>4. QED
    BY <2>1, <2>2, <2>3
<1>12. QED
  BY <1>5, <1>9, <1>10, <1>11, SameOperators
  DEF Promised!Miss, Promised!NoKey, Recent, EntryOf, FoundOf, Keyed

\* Where nothing is stored, refused or in time, the caller sees nothing else.
LEMMA SameEntries ==
  ASSUME UNCHANGED <<items, item, index>>
  PROVE  Recent' = Recent /\ EntryOf' = EntryOf
  BY DEF Recent, Keyed, EntryOf

LEMMA InsertStep ==
  ASSUME CacheInv, CacheInv', NEW k \in Keys, NEW m \in Message, NEW asked \in Nat,
         insert_with_ttl(k, m, asked), LivesFor(k, m, Lesser(asked, MaxTtl)),
         now' = now, found' = NotFound
  PROVE  Promised!Store(k) \/ Promised!Refuse
<1>1. CASE UNCHANGED <<items, item, index, bytes>>
  <2>1. Recent' = Recent /\ EntryOf' = EntryOf
    BY <1>1, SameEntries
  <2>2. FoundOf' = "none"
    BY DEF FoundOf, NotFound
  <2>3. QED
    BY <2>1, <2>2 DEF Promised!Refuse, Promised!NoKey, Recent, EntryOf, FoundOf, Keyed
<1>2. CASE \E l \in 0 .. Len(Rest(k)) : Stored(k, m, Lesser(asked, MaxTtl), l)
  <2>1. Lesser(asked, MaxTtl) \in Nat
    BY DnsCacheAssumption DEF DnsCacheAssumption, Lesser
  <2>2. QED
    BY <1>2, <2>1, StoreStep
<1>3. QED
  BY <1>1, <1>2, InsertChoices

LEMMA ServiceInit == Init => Promised!Init
<1> SUFFICES ASSUME Init PROVE Promised!Init
  OBVIOUS
<1>1. Recent = <<>>
  <2>1. Recent \in Seq(Keys) /\ Len(Recent) = 0
    BY CacheInit, ListedKeys DEF Init
  <2>2. QED
    BY <2>1, EmptySeq
<1>2. EntryOf = [k \in Keys |-> [charge |-> 0, expire |-> 0]]
  BY DEF Init, EntryOf
<1>3. FoundOf = "none"
  BY DEF Init, FoundOf, NotFound
<1>4. QED
  BY <1>1, <1>2, <1>3
  DEF Init, Promised!Init, Promised!NoKey, Promised!Nothing, Recent, EntryOf, FoundOf, Keyed

LEMMA ServiceStep == CacheInv /\ CacheInv' /\ [Next]_vars => [Promised!Next]_(Promised!vars)
<1> SUFFICES ASSUME CacheInv, CacheInv', [Next]_vars PROVE [Promised!Next]_(Promised!vars)
  OBVIOUS
<1>0. Messages \subseteq Message /\ FailureTtls \subseteq Nat
  BY DnsCacheAssumption DEF DnsCacheAssumption
<1>1. ASSUME NEW k \in Keys, NEW m \in Messages, insert(k, m)
      PROVE  Promised!Store(k) \/ Promised!Refuse
  <2>1. modify_received(k, m) \in Message
    BY <1>0, ReceivedIsMessage
  <2>2. Lifetime(modify_received(k, m)) \in Nat /\ m \in Message
    BY <1>0, <2>1, LifetimeIsNat
  <2>3. /\ insert_with_ttl(k, m, Lifetime(modify_received(k, m)))
        /\ now' = now /\ found' = NotFound
    BY <1>1 DEF insert
  <2>4. LivesFor(k, m, Lesser(Lifetime(modify_received(k, m)), MaxTtl))
    BY DEF LivesFor
  <2>5. QED
    BY <2>2, <2>3, <2>4, InsertStep
<1>2. ASSUME NEW k \in Keys, NEW m \in Messages, NEW ttl \in FailureTtls,
             insert_failure(k, m, ttl)
      PROVE  Promised!Store(k) \/ Promised!Refuse
  <2> DEFINE asked == Lesser(300, IF ttl = 0 THEN 1 ELSE ttl)
  <2>1. asked \in Nat
    BY <1>0 DEF Lesser
  <2>2. insert_with_ttl(k, m, asked) /\ now' = now /\ found' = NotFound /\ m \in Message
    BY <1>0, <1>2 DEF insert_failure
  <2>3. LivesFor(k, m, Lesser(asked, MaxTtl))
    BY <1>2 DEF insert_failure, LivesFor
  <2> HIDE DEF asked
  <2>4. QED
    BY <2>1, <2>2, <2>3, InsertStep
<1>3. ASSUME NEW k \in Keys, find(k) PROVE Promised!Hit(k) \/ Promised!Miss(k)
  BY <1>3, HitStep, MissStep DEF find
<1>4. ASSUME Tick PROVE Promised!Tick
  <2>1. now' > now /\ found' = NotFound
    BY <1>4 DEF Tick, CacheInv, Shape
  <2>2. Recent' = Recent /\ EntryOf' = EntryOf
    BY <1>4, SameEntries DEF Tick
  <2>3. FoundOf' = "none"
    BY <2>1 DEF FoundOf, NotFound
  <2>4. QED
    BY <2>1, <2>2, <2>3 DEF Promised!Tick, Promised!NoKey, Recent, EntryOf, FoundOf, Keyed
<1>5. ASSUME UNCHANGED vars PROVE UNCHANGED Promised!vars
  <2>1. Recent' = Recent /\ EntryOf' = EntryOf
    BY <1>5, SameEntries DEF vars
  <2>2. FoundOf' = FoundOf /\ now' = now
    BY <1>5 DEF FoundOf, vars
  <2>3. QED
    BY <2>1, <2>2 DEF Promised!vars, Recent, EntryOf, FoundOf, Keyed
<1>6. QED
  BY <1>1, <1>2, <1>3, <1>4, <1>5 DEF Next, Promised!Next

\* The cache, list, index, byte counter and all, is a bounded map that forgets the least
\* recently used first and no more than it must, and never finds what has expired.
THEOREM CacheCorrect == Spec => ImplementsCacheService
  BY CacheInit, CacheStep, ServiceInit, ServiceStep, PTL
  DEF Spec, ImplementsCacheService, Promised!Spec
=============================================================================
