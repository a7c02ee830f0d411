------------------------- MODULE LocalAnswer_proofs -------------------------
(***************************************************************************)
(* Theorems about LocalAnswer and DomainFilter, for every configuration of *)
(* rules, static entries and hosts files, and every name.                  *)
(***************************************************************************)
EXTENDS LocalAnswer, SequenceTheorems, FiniteSetTheorems, WellFoundedInduction, TLAPS

-----------------------------------------------------------------------------
(***************************************************************************)
(* The inductive invariant.                                                *)
(***************************************************************************)

\* What files have held, and what tables may hold.
Contents == {v[2] : v \in Versions}
LinesMap(lines, i) == parse_hosts_file_data(lines, HostsFiles[i].suffix)
MapOf(v, i) == LinesMap(LinesOf[v], i)
Maps == {LinesMap(lines, i) : lines \in Seq(HostLine), i \in DOMAIN HostsFiles}
          \cup {parse_hosts_file_data(StaticHosts, <<>>)}
HostTable == [path : Paths \cup {""}, map : Maps, mtime : Nat]

PathOf(i) == HostsFiles[i].path
Once(i)   == PathOf(i) \in ListedOnce
Replaced(i) == PathOf(i) \in ListedOnce \ Rewritten
Usable(v) == v # Missing /\ Valid(LinesOf[v])

\* The place of the table of a listing: after the static one.
Slot(i) == Len(StaticTable) + i

Shape ==
  /\ rules \in Seq(Rules) /\ Len(rules) <= MaxEntries
  /\ pc \in {"options", "start", "idle", "check", "stat", "load", "read", "lookup"}
  /\ question \in [name : Names \cup {<<>>}, type : Types, reverse : BOOLEAN]
  /\ scan \in 1 .. Len(HostsFiles)
  /\ pc \notin {"stat", "load", "read"} => scan = 1

Files ==
  /\ file \in [Paths -> [version : Contents \cup {Missing}, mtime : Nat]]
  /\ \A p \in Paths : file[p].version = Missing \/ <<p, file[p].version>> \in Versions
  /\ pc = "options" => \A p \in Paths : Usable(file[p].version)
  /\ versions \in [Paths -> SUBSET Contents]
  /\ \A p \in Paths : file[p].version = Missing \/ file[p].version \in versions[p]
  /\ saved \in [Paths -> Nat] /\ newer \in [Paths -> BOOLEAN]

\* The clock is ahead of every time.
Clocks ==
  /\ now \in Nat /\ last_hosts_check \in 0 .. now /\ asked \in 0 .. now
  /\ started \in 0 .. now
  /\ pc \in {"options", "start"} => last_hosts_check = 0 /\ started = 0
  /\ newest \in [Paths -> Nat]
  /\ \A p \in Paths : file[p].mtime <= newest[p] /\ newest[p] <= now \div Second
  /\ st_mtime \in 0 .. newest[PathOf(scan)]

\* There is a table for each listing, in order, as old as the file once was.
Tables ==
  pc # "options" =>
    /\ hosts \in Seq(HostTable)
    /\ Len(hosts) = Len(StaticTable) + Len(HostsFiles)
    /\ \A j \in 1 .. Len(StaticTable) : hosts[j] = StaticTable[j]
    /\ \A i \in 1 .. Len(HostsFiles) :
         /\ hosts[Slot(i)].path = PathOf(i)
         /\ hosts[Slot(i)].mtime <= newest[PathOf(i)]
         /\ Replaced(i) => \E v \in versions[PathOf(i)] :
                             Valid(LinesOf[v]) /\ hosts[Slot(i)].map = MapOf(v, i)

\* A file that was saved in a later second than its earlier versions, and its table.
Trusted(i) == Once(i) /\ newer[PathOf(i)] /\ Usable(file[PathOf(i)].version)
Agrees(i)  == hosts[Slot(i)].map = MapOf(file[PathOf(i)].version, i)

\* Such a file is either in its table or newer than it, so that the next
\* inspection reads it.
Seen(i) ==
  Trusted(i) /\ hosts[Slot(i)].mtime >= file[PathOf(i)].mtime => Agrees(i)

\* It is in its table once an inspection that began after the save has passed it.
Passed(i) ==
  /\ saved[PathOf(i)] < last_hosts_check /\ started < last_hosts_check
  /\ pc \in {"stat", "load", "read"} => i < scan
Followed(i) == Trusted(i) /\ Passed(i) => Agrees(i)

\* The inspection a query relies on began within an interval of the query.
Prompt == pc \in {"stat", "load", "read", "lookup"} => asked < last_hosts_check + Interval

Fresh == /\ Prompt
         /\ pc # "options" =>
              \A i \in 1 .. Len(HostsFiles) : Seen(i) /\ Followed(i)

\* What is being read of a file that is replaced is one of its versions, however late.
\* What is being read of any trusted file is what it holds now, unless it was saved after
\* the inspection began and has a later mtime than stat() gave.
Reader ==
  /\ reading.lines \in Seq(HostLine) /\ reading.got \in 0 .. Len(reading.lines)
  /\ pc # "read" => reading = NotReading
  /\ pc = "read" /\ PathOf(scan) \notin Rewritten =>
       /\ ~reading.shared
       /\ \E v \in versions[PathOf(scan)] : reading.lines = LinesOf[v]
  /\ /\ pc = "read" /\ Trusted(scan)
     /\ \/ st_mtime >= file[PathOf(scan)].mtime
        \/ saved[PathOf(scan)] < last_hosts_check
     => reading.lines = LinesOf[file[PathOf(scan)].version]

LocalInv == Shape /\ Files /\ Clocks /\ Tables /\ Fresh /\ Reader

-----------------------------------------------------------------------------
(***************************************************************************)
(* Tables and their places.                                                *)
(***************************************************************************)

\* The least of a set of numbers.
LEMMA MinIsIn ==
  ASSUME NEW S \in SUBSET Nat, S # {}
  PROVE  Min(S) \in S /\ \A y \in S : Min(S) <= y
<1> DEFINE R == OpToRel(<, Nat)
<1>1. IsWellFoundedOn(R, Nat)
  BY NatLessThanWellFounded
<1>2. \A x, y \in Nat : x < y => <<x, y>> \in R
  BY DEF OpToRel
<1> HIDE DEF R
<1>3. PICK x \in S : \A y \in S : ~(<<y, x>> \in R)
  BY <1>1, WFMin
<1>4. ASSUME NEW y \in S PROVE x <= y
  <2>1. x \in Nat /\ y \in Nat /\ ~(<<y, x>> \in R)
    BY <1>3
  <2>2. ~(y < x)
    BY <1>2, <2>1
  <2>3. QED
    BY <2>1, <2>2
<1>5. QED
  BY <1>4 DEF Min

LEMMA OneElement ==
  ASSUME NEW S, NEW e \in S
  PROVE  <<e>> \in Seq(S) /\ Len(<<e>>) = 1 /\ <<e>>[1] = e
OBVIOUS

LEMMA Times ==
  /\ Second \in Nat /\ Second > 0
  /\ Interval \in Nat /\ Interval > 0
  /\ MaxEntries \in Nat
<1>1. Second \in Nat \ {0} /\ Interval \in Nat \ {0} /\ MaxEntries \in Nat
  BY ParametersAssumption
<1>2. QED
  BY <1>1

\* The listings, each of a file with a path.
LEMMA Listings ==
  /\ Len(HostsFiles) \in Nat \ {0} /\ DOMAIN HostsFiles = 1 .. Len(HostsFiles)
  /\ \A i \in 1 .. Len(HostsFiles) : PathOf(i) \in Paths /\ PathOf(i) # ""
<1>1. HostsFiles \in Seq(Listing) /\ HostsFiles # <<>>
  BY ParametersAssumption
<1>2. Len(HostsFiles) \in Nat \ {0} /\ DOMAIN HostsFiles = 1 .. Len(HostsFiles)
  BY <1>1, EmptySeq, LenProperties
<1>3. ASSUME NEW i \in 1 .. Len(HostsFiles) PROVE HostsFiles[i] \in Listing
  BY <1>1, ElementOfSeq
<1>4. QED
  BY <1>2, <1>3, ParametersAssumption DEF Listing, PathOf

LEMMA ContentsHaveLines == \A v \in Contents : LinesOf[v] \in Seq(HostLine)
BY ParametersAssumption DEF Contents

\* A path that is listed once is the path of one listing.
LEMMA OncePlaced ==
  ASSUME NEW i \in 1 .. Len(HostsFiles), Once(i),
         NEW j \in 1 .. Len(HostsFiles), PathOf(j) = PathOf(i)
  PROVE  i = j
<1> DEFINE same == {k \in DOMAIN HostsFiles : HostsFiles[k].path = PathOf(i)}
<1>1. IsFiniteSet(1 .. Len(HostsFiles)) /\ DOMAIN HostsFiles = 1 .. Len(HostsFiles)
  <2>1. HostsFiles \in Seq(Listing)
    BY ParametersAssumption
  <2>2. Len(HostsFiles) \in Int /\ DOMAIN HostsFiles = 1 .. Len(HostsFiles)
    BY <2>1, LenProperties
  <2>3. QED
    BY <2>2, FS_Interval
<1>2. same \in SUBSET (1 .. Len(HostsFiles))
  BY <1>1
<1>3. Cardinality(same) = 1
  BY DEF Once, ListedOnce
<1>4. i \in same /\ j \in same
  BY <1>1 DEF PathOf
<1> HIDE DEF same
<1>5. IsFiniteSet(same)
  BY <1>1, <1>2, FS_Subset
<1>6. PICK x : same = {x}
  BY <1>3, <1>5, FS_Singleton
<1>7. QED
  BY <1>4, <1>6

\* The static table is at most one, and has no path.
LEMMA StaticPlaced ==
  /\ StaticTable \in Seq(HostTable) /\ Len(StaticTable) \in Nat
  /\ \A j \in 1 .. Len(StaticTable) : StaticTable[j].path = ""
<1> DEFINE t == Table("", StaticHosts, <<>>, 0)
<1>1. t \in HostTable /\ t.path = ""
  BY DEF Table, HostTable, Maps
<1>2. StaticTable = <<>> \/ StaticTable = <<t>>
  BY DEF StaticTable
<1> HIDE DEF t
<1>3. CASE StaticTable = <<>>
  <2>1. StaticTable \in Seq(HostTable) /\ Len(StaticTable) = 0
    BY <1>3, EmptySeq
  <2>2. QED
    BY <2>1
<1>4. CASE StaticTable = <<t>>
  <2>1. StaticTable \in Seq(HostTable) /\ Len(StaticTable) = 1 /\ StaticTable[1] = t
    BY <1>1, <1>4, OneElement
  <2>2. \A j \in 1 .. 1 : j = 1
    OBVIOUS
  <2>3. Len(StaticTable) \in Nat /\ \A j \in 1 .. Len(StaticTable) : StaticTable[j] = t
    BY <2>1, <2>2
  <2>4. QED
    BY <1>1, <2>1, <2>3
<1>5. QED
  BY <1>2, <1>3, <1>4

LEMMA Sizes ==
  /\ Len(StaticTable) \in Nat
  /\ Len(HostsFiles) \in Nat /\ 1 <= Len(HostsFiles)
<1>1. Len(StaticTable) \in Nat
  BY StaticPlaced
<1>2. Len(HostsFiles) \in Nat \ {0}
  BY Listings
<1>3. QED
  BY <1>1, <1>2

\* The place of a listing's table.
LEMMA Slots ==
  ASSUME NEW i \in 1 .. Len(HostsFiles)
  PROVE  /\ Slot(i) \in Len(StaticTable) + 1 .. Len(StaticTable) + Len(HostsFiles)
         /\ Slot(i) \in 1 .. Len(StaticTable) + Len(HostsFiles)
         /\ Slot(i) - Len(StaticTable) = i
         /\ \A j \in 1 .. Len(HostsFiles) : Slot(i) = Slot(j) => i = j
BY Sizes DEF Slot

\* The tables of files are in the order of the listings.
LEMMA TablesOfFiles ==
  ASSUME NEW fs,
         \A i \in 1 .. Len(HostsFiles) : /\ fs[PathOf(i)].version \in Contents
                                         /\ fs[PathOf(i)].mtime \in Nat
  PROVE  /\ TablesOf(fs) \in Seq(HostTable)
         /\ Len(TablesOf(fs)) = Len(StaticTable) + Len(HostsFiles)
         /\ \A j \in 1 .. Len(StaticTable) : TablesOf(fs)[j] = StaticTable[j]
         /\ \A i \in 1 .. Len(HostsFiles) :
              TablesOf(fs)[Slot(i)] = [path  |-> PathOf(i),
                                       map   |-> MapOf(fs[PathOf(i)].version, i),
                                       mtime |-> fs[PathOf(i)].mtime]
<1> DEFINE entry(i) == [path  |-> PathOf(i),
                        map   |-> MapOf(fs[PathOf(i)].version, i),
                        mtime |-> fs[PathOf(i)].mtime]
           list == [i \in 1 .. Len(HostsFiles) |-> entry(i)]
<1>1. ASSUME NEW i \in 1 .. Len(HostsFiles) PROVE entry(i) \in HostTable
  <2>1. PathOf(i) \in Paths /\ i \in DOMAIN HostsFiles
    BY Listings
  <2>2. MapOf(fs[PathOf(i)].version, i) \in Maps
    BY <2>1, ContentsHaveLines DEF Maps, MapOf
  <2>3. QED
    BY <2>1, <2>2 DEF HostTable
<1>2. TablesOf(fs) = StaticTable \o list
  BY Listings DEF TablesOf, Table, MapOf, LinesMap, PathOf
<1>3. \A i \in 1 .. Len(HostsFiles) : list[i] = entry(i)
  OBVIOUS
<1>4. list \in Seq(HostTable) /\ Len(list) = Len(HostsFiles)
  <2>1. Len(HostsFiles) \in Nat /\ list \in [1 .. Len(HostsFiles) -> HostTable]
    BY <1>1, Listings
  <2> HIDE DEF list
  <2>2. QED
    BY <2>1
<1> HIDE DEF list
<1>5. /\ StaticTable \o list \in Seq(HostTable)
      /\ Len(StaticTable \o list) = Len(StaticTable) + Len(list)
      /\ \A k \in 1 .. Len(StaticTable) + Len(list) :
           (StaticTable \o list)[k] = IF k <= Len(StaticTable) THEN StaticTable[k]
                                      ELSE list[k - Len(StaticTable)]
  BY <1>4, StaticPlaced, ConcatProperties
<1>6. ASSUME NEW j \in 1 .. Len(StaticTable) PROVE TablesOf(fs)[j] = StaticTable[j]
  <2>1. j \in 1 .. Len(StaticTable) + Len(list) /\ j <= Len(StaticTable)
    BY <1>4, Sizes
  <2>2. QED
    BY <1>2, <1>5, <2>1
<1>7. ASSUME NEW i \in 1 .. Len(HostsFiles) PROVE TablesOf(fs)[Slot(i)] = entry(i)
  <2>1. /\ Slot(i) \in 1 .. Len(StaticTable) + Len(list) /\ ~(Slot(i) <= Len(StaticTable))
        /\ Slot(i) - Len(StaticTable) = i
    BY <1>4, Slots, Sizes
  <2>2. (StaticTable \o list)[Slot(i)] = list[i]
    BY <1>5, <2>1
  <2>3. QED
    BY <1>2, <1>3, <2>2
<1>8. QED
  BY <1>2, <1>4, <1>5, <1>6, <1>7

\* The search for a path ends at a table of that path, its own if it is listed once.
LEMMA Found ==
  ASSUME Tables, pc # "options", NEW i \in 1 .. Len(HostsFiles)
  PROVE  /\ IndexOf(PathOf(i)) \in Len(StaticTable) + 1 .. Len(hosts)
         /\ IndexOf(PathOf(i)) \in 1 .. Len(hosts)
         /\ hosts[IndexOf(PathOf(i))].path = PathOf(i)
         /\ \E k \in 1 .. Len(HostsFiles) :
              IndexOf(PathOf(i)) = Slot(k) /\ PathOf(k) = PathOf(i)
         /\ Once(i) => IndexOf(PathOf(i)) = Slot(i)
<1> DEFINE S == {k \in DOMAIN hosts : hosts[k].path = PathOf(i)}
           m == Min(S)
<1>1. /\ hosts \in Seq(HostTable) /\ Len(hosts) = Len(StaticTable) + Len(HostsFiles)
      /\ \A j \in 1 .. Len(StaticTable) : hosts[j] = StaticTable[j]
      /\ \A k \in 1 .. Len(HostsFiles) : hosts[Slot(k)].path = PathOf(k)
  BY DEF Tables
<1>2. DOMAIN hosts = 1 .. Len(hosts)
  BY <1>1, LenProperties
<1>3. Slot(i) \in S /\ S \in SUBSET Nat
  BY <1>1, <1>2, Slots
<1>4. m \in S
  BY <1>3, MinIsIn
<1>5. m = IndexOf(PathOf(i))
  BY DEF IndexOf
<1>6. m \in 1 .. Len(hosts) /\ hosts[m].path = PathOf(i)
  BY <1>2, <1>4
<1> HIDE DEF m, S
<1>7. ~(m <= Len(StaticTable))
  <2>1. SUFFICES ASSUME m <= Len(StaticTable) PROVE FALSE
    OBVIOUS
  <2>2. m \in 1 .. Len(StaticTable)
    BY <1>6, <2>1, Sizes
  <2>3. hosts[m].path = ""
    BY <1>1, <2>2, StaticPlaced
  <2>4. QED
    BY <1>6, <2>3, Listings
<1>8. PICK k \in 1 .. Len(HostsFiles) : m = Slot(k)
  <2>1. m - Len(StaticTable) \in 1 .. Len(HostsFiles)
    <3>1. Len(hosts) = Len(StaticTable) + Len(HostsFiles)
      BY <1>1
    <3>2. QED
      BY <1>6, <1>7, <3>1, Sizes
  <2>2. m = Slot(m - Len(StaticTable))
    BY <1>6, Sizes DEF Slot
  <2>3. QED
    BY <2>1, <2>2
<1>9. PathOf(k) = PathOf(i)
  BY <1>1, <1>6, <1>8
<1>10. Once(i) => k = i
  BY <1>9, OncePlaced
<1>11. m \in Len(StaticTable) + 1 .. Len(hosts)
  <2>1. Len(hosts) = Len(StaticTable) + Len(HostsFiles)
    BY <1>1
  <2>2. QED
    BY <1>6, <1>7, <2>1, Sizes
<1>12. QED
  BY <1>5, <1>6, <1>8, <1>9, <1>10, <1>11

-----------------------------------------------------------------------------
(***************************************************************************)
(* What leaves a part of the invariant alone.                              *)
(***************************************************************************)

\* A later time is in no earlier second.
LEMMA SecondsGrow ==
  ASSUME NEW a \in Nat, NEW b \in Nat, a <= b
  PROVE  a \div Second \in Nat /\ a \div Second <= b \div Second
<1>1. Second \in Nat /\ Second > 0
  BY Times
<1>2. QED
  BY <1>1

LEMMA FilesKept ==
  ASSUME Files, UNCHANGED <<file, versions, saved, newer>>, pc' = "options" => pc = "options"
  PROVE  Files'
BY DEF Files, Usable

LEMMA TablesKept ==
  ASSUME Tables, UNCHANGED <<hosts, newest, versions>>, pc' # "options" => pc # "options"
  PROVE  Tables'
BY DEF Tables

LEMMA ClocksKept ==
  ASSUME Clocks, UNCHANGED <<now, last_hosts_check, asked, started, newest, file, st_mtime, scan>>,
         pc' \in {"options", "start"} => pc \in {"options", "start"}
  PROVE  Clocks'
BY DEF Clocks

\* What is newly passed is in its table.
LEMMA FreshKept ==
  ASSUME Fresh, UNCHANGED <<hosts, file, newer>>, Prompt',
         pc' # "options" => pc # "options",
         \A i \in 1 .. Len(HostsFiles) :
           Passed(i)' => Passed(i) \/ (Trusted(i) => Agrees(i))
  PROVE  Fresh'
<1>1. ASSUME NEW i \in 1 .. Len(HostsFiles), pc' # "options"
      PROVE  Seen(i)' /\ Followed(i)'
  <2>1. /\ Seen(i) /\ Followed(i)
        /\ Passed(i)' => Passed(i) \/ (Trusted(i) => Agrees(i))
    BY <1>1 DEF Fresh
  <2>2. Trusted(i)' = Trusted(i) /\ Agrees(i)' = Agrees(i)
    BY DEF Trusted, Agrees
  <2>3. Seen(i)'
    BY <2>1, <2>2 DEF Seen
  <2>4. Followed(i)'
    BY <2>1, <2>2 DEF Followed
  <2>5. QED
    BY <2>3, <2>4
<1>2. QED
  BY <1>1 DEF Fresh

\* Between the inspections of files nothing is being read.
LEMMA NotReadingYet ==
  ASSUME reading' = NotReading, pc' # "read"
  PROVE  Reader'
<1>1. NotReading.lines \in Seq(HostLine) /\ NotReading.got \in 0 .. Len(NotReading.lines)
  BY EmptySeq DEF NotReading
<1>2. QED
  BY <1>1 DEF Reader

LEMMA NothingRead ==
  ASSUME Reader, pc # "read", pc' # "read", reading' = reading
  PROVE  Reader'
BY NotReadingYet DEF Reader

LEMMA ReaderKept ==
  ASSUME Reader, UNCHANGED <<reading, pc, scan, versions, file, newer, saved, st_mtime,
                             last_hosts_check>>
  PROVE  Reader'
BY DEF Reader, Trusted

-----------------------------------------------------------------------------
(***************************************************************************)
(* The steps.                                                              *)
(***************************************************************************)

LEMMA InitLocal == Init => LocalInv
<1> SUFFICES ASSUME Init PROVE LocalInv
  OBVIOUS
<1> USE DEF Init
<1>1. Shape
  <2>1. rules \in Seq(Rules) /\ Len(rules) = 0
    OBVIOUS
  <2>2. question \in [name : Names \cup {<<>>}, type : Types, reverse : BOOLEAN]
    BY DEF NoQuestion, Types
  <2>3. scan \in 1 .. Len(HostsFiles)
    BY Sizes
  <2>4. MaxEntries \in Nat
    BY Times
  <2>5. QED
    BY <2>1, <2>2, <2>3, <2>4 DEF Shape
<1>2. file \in [Paths -> [version : Contents, mtime : {0}]]
  BY DEF Contents
<1>3. \A p \in Paths : /\ file[p].version \in Contents /\ file[p].mtime = 0
                       /\ <<p, file[p].version>> \in Versions
                       /\ Valid(LinesOf[file[p].version])
  BY <1>2
<1>4. ASSUME NEW v \in Contents PROVE v # Missing
  BY ParametersAssumption DEF Contents
<1>5. Files
  <2>1. file \in [Paths -> [version : Contents \cup {Missing}, mtime : Nat]]
    BY <1>2
  <2>2. /\ versions = [p \in Paths |-> {file[p].version}]
        /\ saved = [p \in Paths |-> 0] /\ newer = [p \in Paths |-> TRUE]
    OBVIOUS
  <2>3. versions \in [Paths -> SUBSET Contents]
    <3>1. \A p \in Paths : {file[p].version} \in SUBSET Contents
      BY <1>3
    <3> HIDE DEF Init
    <3>2. QED
      BY <2>2, <3>1
  <2>4. saved \in [Paths -> Nat] /\ newer \in [Paths -> BOOLEAN]
    BY <2>2
  <2>5. \A p \in Paths : /\ file[p].version \in versions[p] /\ Usable(file[p].version)
                         /\ <<p, file[p].version>> \in Versions
    BY <1>3, <1>4, <2>2 DEF Usable
  <2> HIDE DEF Init
  <2>6. QED
    BY <2>1, <2>3, <2>4, <2>5 DEF Files
<1>6. Clocks
  <2>1. 0 \div Second \in Nat
    BY SecondsGrow
  <2>2. /\ now = 0 /\ last_hosts_check = 0 /\ asked = 0 /\ started = 0 /\ st_mtime = 0
        /\ newest = [p \in Paths |-> 0] /\ scan = 1
    OBVIOUS
  <2>3. newest \in [Paths -> Nat] /\ \A p \in Paths : newest[p] = 0 /\ file[p].mtime = 0
    BY <1>3, <2>2
  <2>4. PathOf(1) \in Paths
    <3>1. 1 \in 1 .. Len(HostsFiles)
      BY Sizes
    <3>2. QED
      BY <3>1, Listings
  <2> HIDE DEF Init
  <2>5. 0 <= 0 \div Second
    BY <2>1
  <2>6. st_mtime \in 0 .. newest[PathOf(scan)]
    BY <2>2, <2>3, <2>4
  <2>7. /\ now \in Nat /\ last_hosts_check \in 0 .. now /\ asked \in 0 .. now
        /\ started \in 0 .. now
    BY <2>2
  <2>8. \A p \in Paths : file[p].mtime <= newest[p] /\ newest[p] <= now \div Second
    BY <2>2, <2>3, <2>5
  <2>9. QED
    BY <2>2, <2>3, <2>6, <2>7, <2>8 DEF Clocks
<1>7. Tables /\ Fresh
  BY DEF Tables, Fresh, Prompt
<1>8. Reader
  <2>1. NotReading.lines \in Seq(HostLine) /\ NotReading.got \in 0 .. Len(NotReading.lines)
    BY EmptySeq DEF NotReading
  <2>2. QED
    BY <2>1 DEF Reader
<1>9. QED
  BY <1>1, <1>5, <1>6, <1>7, <1>8 DEF LocalInv

LEMMA AddEntryStep ==
  ASSUME LocalInv, NEW r \in Rules, add_entry(r)
  PROVE  LocalInv'
<1>1. /\ pc = "options" /\ pc' = "options" /\ Len(rules) < MaxEntries
      /\ Len(domain_filter) < MaxEntries => Len(rules) < MaxEntries
      /\ rules' = Append(rules, r)
      /\ UNCHANGED <<hosts, last_hosts_check, pc, scan, st_mtime, reading, question,
                     answer, asked, started, now, file, history>>
  <2>1. Len(domain_filter) = Len(rules)
    <3>1. rules \in Seq(Rules)
      BY DEF LocalInv, Shape
    <3>2. domain_filter \in [1 .. Len(rules) -> {RuleOf[x] : x \in Rules}] /\ Len(rules) \in Nat
      BY <3>1, LenProperties, ElementOfSeq DEF domain_filter
    <3> HIDE DEF domain_filter
    <3>3. QED
      BY <3>2
  <2>2. QED
    BY <2>1 DEF add_entry, HasRoomFor
<1>2. Shape'
  <2>1. /\ rules \in Seq(Rules) /\ pc = "options" /\ scan = 1 /\ scan \in 1 .. Len(HostsFiles)
        /\ question \in [name : Names \cup {<<>>}, type : Types, reverse : BOOLEAN]
    BY <1>1 DEF LocalInv, Shape
  <2>2. Append(rules, r) \in Seq(Rules) /\ Len(Append(rules, r)) = Len(rules) + 1
        /\ Len(rules) \in Nat
    BY <2>1
  <2>3. Len(rules') <= MaxEntries
    BY <1>1, <2>2, Times
  <2>4. QED
    BY <1>1, <2>1, <2>2, <2>3 DEF Shape
<1>3. Files' /\ Clocks'
  BY <1>1, FilesKept, ClocksKept DEF LocalInv, history
<1>4. Tables' /\ Fresh' /\ Reader'
  BY <1>1, NothingRead DEF LocalInv, Tables, Fresh, Prompt
<1>5. QED
  BY <1>2, <1>3, <1>4 DEF LocalInv

LEMMA ValidateStep ==
  ASSUME LocalInv, validate_runtime_inputs
  PROVE  LocalInv'
<1>1. /\ pc = "options" /\ pc' = "start" /\ hosts' = TablesOf(file)
      /\ UNCHANGED <<rules, last_hosts_check, scan, st_mtime, reading, question, answer,
                     asked, started, now, file, saves, saved, newer, newest, versions>>
  BY DEF validate_runtime_inputs, history
<1>2. Shape'
  BY <1>1 DEF LocalInv, Shape
<1>3. Files' /\ Clocks'
  BY <1>1, FilesKept, ClocksKept DEF LocalInv
<1>4. ASSUME NEW i \in 1 .. Len(HostsFiles)
      PROVE  LET v == file[PathOf(i)].version IN
             /\ v \in Contents /\ Valid(LinesOf[v]) /\ v \in versions[PathOf(i)]
             /\ file[PathOf(i)].mtime \in Nat
             /\ file[PathOf(i)].mtime <= newest[PathOf(i)]
  <2>1. PathOf(i) \in Paths
    BY Listings
  <2>2. file[PathOf(i)].mtime <= newest[PathOf(i)]
    BY <2>1 DEF LocalInv, Clocks
  <2>3. QED
    BY <1>1, <2>1, <2>2 DEF LocalInv, Files, Usable
<1>5. /\ hosts' \in Seq(HostTable)
      /\ Len(hosts') = Len(StaticTable) + Len(HostsFiles)
      /\ \A j \in 1 .. Len(StaticTable) : hosts'[j] = StaticTable[j]
      /\ \A i \in 1 .. Len(HostsFiles) :
           hosts'[Slot(i)] = [path  |-> PathOf(i),
                              map   |-> MapOf(file[PathOf(i)].version, i),
                              mtime |-> file[PathOf(i)].mtime]
  BY <1>1, <1>4, TablesOfFiles
<1>6. ASSUME NEW i \in 1 .. Len(HostsFiles)
      PROVE  /\ hosts'[Slot(i)].path = PathOf(i)
             /\ hosts'[Slot(i)].map = MapOf(file[PathOf(i)].version, i)
             /\ hosts'[Slot(i)].mtime = file[PathOf(i)].mtime
  <2>1. hosts'[Slot(i)] = [path  |-> PathOf(i),
                           map   |-> MapOf(file[PathOf(i)].version, i),
                           mtime |-> file[PathOf(i)].mtime]
    BY <1>5
  <2>2. QED
    BY <2>1
<1>7. Tables'
  <2>1. ASSUME NEW i \in 1 .. Len(HostsFiles)
        PROVE  /\ hosts'[Slot(i)].path = PathOf(i)
               /\ hosts'[Slot(i)].mtime <= newest'[PathOf(i)]
               /\ \E v \in versions'[PathOf(i)] :
                    Valid(LinesOf[v]) /\ hosts'[Slot(i)].map = MapOf(v, i)
    BY <1>1, <1>4, <1>6
  <2>2. QED
    BY <1>5, <2>1 DEF Tables
<1>8. Fresh'
  <2>1. \A i \in 1 .. Len(HostsFiles) : Seen(i)' /\ Followed(i)'
    BY <1>1, <1>6 DEF Seen, Followed, Agrees
  <2>2. QED
    BY <1>1, <2>1 DEF Fresh, Prompt
<1>9. Reader'
  BY <1>1, NothingRead DEF LocalInv
<1>10. QED
  BY <1>2, <1>3, <1>7, <1>8, <1>9 DEF LocalInv

LEMMA InitializeStep ==
  ASSUME LocalInv, initialize_hosts
  PROVE  LocalInv'
<1>1. /\ pc = "start" /\ pc' = "idle" /\ last_hosts_check' = now /\ started' = now
      /\ UNCHANGED <<rules, hosts, scan, st_mtime, reading, question, answer, asked, now,
                     file, saves, saved, newer, newest, versions>>
  BY DEF initialize_hosts, history
<1>2. Shape'
  BY <1>1 DEF LocalInv, Shape
<1>3. Files' /\ Tables'
  BY <1>1, FilesKept, TablesKept DEF LocalInv
<1>4. Clocks'
  BY <1>1 DEF LocalInv, Clocks
<1>5. Prompt' /\ \A i \in 1 .. Len(HostsFiles) : ~Passed(i)'
  <2>1. now \in Nat
    BY DEF LocalInv, Clocks
  <2>2. QED
    BY <1>1, <2>1 DEF Prompt, Passed
<1>6. Fresh' /\ Reader'
  BY <1>1, <1>5, FreshKept, NothingRead DEF LocalInv
<1>7. QED
  BY <1>2, <1>3, <1>4, <1>6 DEF LocalInv

LEMMA QueryStep ==
  ASSUME LocalInv, NEW q \in Questions, process_local_query(q[1], q[2])
  PROVE  LocalInv'
<1>1. /\ pc = "idle" /\ pc' \in {"idle", "check"}
      /\ UNCHANGED <<rules, hosts, last_hosts_check, scan, st_mtime, reading, started, now,
                     file, saves, saved, newer, newest, versions>>
      /\ asked' \in {asked, now}
      /\ \/ question' = question
         \/ question' = [name |-> q[1], type |-> q[2],
                         reverse |-> q[2] = "PTR" /\ q[1] \in DOMAIN ReverseNames]
  BY DEF process_local_query, history
<1>2. Shape'
  <2>1. q[1] \in Names /\ q[2] \in Types
    BY ParametersAssumption
  <2>2. question' \in [name : Names \cup {<<>>}, type : Types, reverse : BOOLEAN]
    <3> DEFINE reverse == q[2] = "PTR" /\ q[1] \in DOMAIN ReverseNames
    <3>1. question \in [name : Names \cup {<<>>}, type : Types, reverse : BOOLEAN]
      BY DEF LocalInv, Shape
    <3>2. reverse \in BOOLEAN
      OBVIOUS
    <3> HIDE DEF reverse
    <3>3. [name |-> q[1], type |-> q[2], reverse |-> reverse]
            \in [name : Names \cup {<<>>}, type : Types, reverse : BOOLEAN]
      BY <2>1, <3>2
    <3>4. QED
      BY <1>1, <3>1, <3>3 DEF reverse
  <2>3. QED
    BY <1>1, <2>2 DEF LocalInv, Shape
<1>3. Files' /\ Tables'
  BY <1>1, FilesKept, TablesKept DEF LocalInv
<1>4. Clocks'
  BY <1>1 DEF LocalInv, Clocks
<1>5. Prompt' /\ \A i \in 1 .. Len(HostsFiles) : Passed(i)' => Passed(i)
  BY <1>1 DEF Prompt, Passed
<1>6. Fresh' /\ Reader'
  BY <1>1, <1>5, FreshKept, NothingRead DEF LocalInv
<1>7. QED
  BY <1>2, <1>3, <1>4, <1>6 DEF LocalInv

LEMMA UpdateStep ==
  ASSUME LocalInv, update_hosts_files
  PROVE  LocalInv'
<1>1. /\ pc = "check"
      /\ \/ /\ pc' = "lookup" /\ now - last_hosts_check < Interval
            /\ last_hosts_check' = last_hosts_check
         \/ pc' = "stat" /\ last_hosts_check' = now
      /\ UNCHANGED <<rules, hosts, scan, st_mtime, reading, question, answer, asked,
                     started, now, file, saves, saved, newer, newest, versions>>
  BY DEF update_hosts_files, history
<1>2. /\ now \in Nat /\ last_hosts_check \in 0 .. now /\ asked \in 0 .. now
      /\ scan = 1 /\ Interval \in Nat /\ Interval > 0
  BY <1>1, Times DEF LocalInv, Clocks, Shape
<1>3. Shape'
  BY <1>1 DEF LocalInv, Shape
<1>4. Files' /\ Tables'
  BY <1>1, FilesKept, TablesKept DEF LocalInv
<1>5. Clocks'
  BY <1>1, <1>2 DEF LocalInv, Clocks
<1>6. Prompt'
  BY <1>1, <1>2 DEF Prompt
<1>7. ASSUME NEW i \in 1 .. Len(HostsFiles), Passed(i)' PROVE Passed(i)
  BY <1>1, <1>2, <1>7 DEF Passed
<1>8. Fresh' /\ Reader'
  BY <1>1, <1>6, <1>7, FreshKept, NothingRead DEF LocalInv
<1>9. QED
  BY <1>3, <1>4, <1>5, <1>8 DEF LocalInv

\* A file that is not read is not newer than its table.
LEMMA StatStep ==
  ASSUME LocalInv, StatFile
  PROVE  LocalInv'
<1> DEFINE path == PathOf(scan)
           later == hosts[IndexOf(path)].mtime < file[path].mtime
<1>1. /\ pc = "stat"
      /\ \/ /\ file[path].version # Missing /\ later
            /\ pc' = "load" /\ st_mtime' = file[path].mtime /\ scan' = scan
         \/ /\ ~(file[path].version # Missing /\ later)
            /\ st_mtime' = 0
            /\ \/ scan < Len(HostsFiles) /\ pc' = "stat" /\ scan' = scan + 1
               \/ ~(scan < Len(HostsFiles)) /\ pc' = "lookup" /\ scan' = 1
      /\ UNCHANGED <<rules, hosts, last_hosts_check, reading, question, answer, asked,
                     started, now, file, saves, saved, newer, newest, versions>>
  BY DEF StatFile, NextFile, PathOf, history
<1>2. /\ scan \in 1 .. Len(HostsFiles) /\ scan' \in 1 .. Len(HostsFiles)
      /\ path \in Paths /\ PathOf(scan') \in Paths
  <2>1. scan \in 1 .. Len(HostsFiles)
    BY DEF LocalInv, Shape
  <2>2. scan' \in 1 .. Len(HostsFiles)
    BY <1>1, <2>1, Sizes
  <2>3. QED
    BY <2>1, <2>2, Listings
<1>3. /\ Len(HostsFiles) \in Nat /\ file[path].mtime \in Nat
      /\ file[path].mtime <= newest[path] /\ \A p \in Paths : newest[p] \in Nat
      /\ hosts[Slot(scan)].mtime \in Nat
  <2>1. hosts[Slot(scan)] \in HostTable
    <3>1. hosts \in Seq(HostTable) /\ Slot(scan) \in 1 .. Len(hosts)
      BY <1>1, <1>2, Slots DEF LocalInv, Tables
    <3>2. QED
      BY <3>1, ElementOfSeq
  <2>2. hosts[Slot(scan)].mtime \in Nat
    BY <2>1 DEF HostTable
  <2>3. QED
    BY <1>2, <2>2, Sizes DEF LocalInv, Files, Clocks
<1>4. Shape'
  BY <1>1, <1>2 DEF LocalInv, Shape
<1>5. Files' /\ Tables'
  BY <1>1, FilesKept, TablesKept DEF LocalInv
<1>6. Clocks'
  <2>1. st_mtime' \in 0 .. newest'[PathOf(scan')]
    BY <1>1, <1>2, <1>3
  <2>2. QED
    BY <1>1, <2>1 DEF LocalInv, Clocks
<1>7. Prompt'
  BY <1>1 DEF LocalInv, Fresh, Prompt
<1>8. ASSUME NEW i \in 1 .. Len(HostsFiles), Passed(i)'
      PROVE  Passed(i) \/ (Trusted(i) => Agrees(i))
  <2>1. CASE i < scan
    BY <1>1, <1>8, <2>1 DEF Passed
  <2>2. CASE ~(i < scan)
    <3>1. i = scan /\ ~(file[path].version # Missing /\ later)
      BY <1>1, <1>2, <1>3, <1>8, <2>2 DEF Passed
    <3>2. SUFFICES ASSUME Trusted(i) PROVE Agrees(i)
      OBVIOUS
    <3>3. Once(scan) /\ file[path].version # Missing
      BY <3>1, <3>2 DEF Trusted, Usable
    <3>4. IndexOf(path) = Slot(scan)
      BY <1>1, <1>2, <3>3, Found DEF LocalInv
    <3>5. hosts[Slot(scan)].mtime >= file[path].mtime
      BY <1>3, <3>1, <3>3, <3>4
    <3>6. Seen(i)
      BY <1>1 DEF LocalInv, Fresh
    <3>7. QED
      BY <3>1, <3>2, <3>5, <3>6 DEF Seen
  <2>3. QED
    BY <2>1, <2>2
<1>9. Fresh' /\ Reader'
  <2> HIDE DEF later
  <2>1. QED
    BY <1>1, <1>7, <1>8, FreshKept, NothingRead DEF LocalInv
<1>10. QED
  BY <1>4, <1>5, <1>6, <1>9 DEF LocalInv

\* A file that is not there is not trusted; one that is there is read from its first line.
LEMMA OpenStep ==
  ASSUME LocalInv, OpenFile
  PROVE  LocalInv'
<1> DEFINE path == PathOf(scan)
<1>1. /\ pc = "load"
      /\ \/ /\ file[path].version = Missing
            /\ st_mtime' = 0 /\ reading' = reading
            /\ \/ scan < Len(HostsFiles) /\ pc' = "stat" /\ scan' = scan + 1
               \/ ~(scan < Len(HostsFiles)) /\ pc' = "lookup" /\ scan' = 1
         \/ /\ file[path].version # Missing
            /\ pc' = "read" /\ scan' = scan /\ st_mtime' = st_mtime
            /\ reading' = [lines |-> LinesOf[file[path].version], got |-> 0,
                           shared |-> path \in Rewritten]
      /\ UNCHANGED <<rules, hosts, last_hosts_check, question, answer, asked, started,
                     now, file, saves, saved, newer, newest, versions>>
  BY DEF OpenFile, NextFile, PathOf, history
<1>2. /\ scan \in 1 .. Len(HostsFiles) /\ scan' \in 1 .. Len(HostsFiles)
      /\ path \in Paths /\ PathOf(scan') \in Paths
  <2>1. scan \in 1 .. Len(HostsFiles)
    BY DEF LocalInv, Shape
  <2>2. scan' \in 1 .. Len(HostsFiles)
    BY <1>1, <2>1, Sizes
  <2>3. QED
    BY <2>1, <2>2, Listings
<1>3. Shape'
  BY <1>1, <1>2 DEF LocalInv, Shape
<1>4. Files' /\ Tables'
  BY <1>1, FilesKept, TablesKept DEF LocalInv
<1>5. Clocks'
  <2>1. st_mtime' \in 0 .. newest'[PathOf(scan')]
    <3>1. /\ st_mtime \in 0 .. newest[path] /\ newest[PathOf(scan')] \in Nat
          /\ newest' = newest
      BY <1>1, <1>2 DEF LocalInv, Clocks
    <3>2. QED
      BY <1>1, <3>1
  <2>2. QED
    BY <1>1, <2>1 DEF LocalInv, Clocks
<1>6. Prompt'
  BY <1>1 DEF LocalInv, Fresh, Prompt
<1>7. ASSUME NEW i \in 1 .. Len(HostsFiles), Passed(i)'
      PROVE  Passed(i) \/ (Trusted(i) => Agrees(i))
  <2>1. CASE i < scan
    BY <1>1, <2>1, <1>7 DEF Passed
  <2>2. CASE ~(i < scan)
    <3>1. i = scan /\ file[path].version = Missing
      BY <1>1, <1>2, <1>7, <2>2, Sizes DEF Passed
    <3>2. ~Trusted(i)
      BY <3>1 DEF Trusted, Usable
    <3>3. QED
      BY <3>2
  <2>3. QED
    BY <2>1, <2>2
<1>8. Fresh'
  BY <1>1, <1>6, <1>7, FreshKept DEF LocalInv
<1>9. Reader'
  <2>1. CASE file[path].version = Missing
    BY <1>1, <2>1, NothingRead DEF LocalInv
  <2>2. CASE file[path].version # Missing
    <3> DEFINE lines == LinesOf[file[path].version]
    <3>1. lines \in Seq(HostLine) /\ Len(lines) \in Nat
      <4>1. file[path].version \in Contents
        BY <1>2, <2>2 DEF LocalInv, Files
      <4>2. lines \in Seq(HostLine)
        BY <4>1, ContentsHaveLines
      <4>3. QED
        BY <4>2, LenProperties
    <3>2. file[path].version \in versions[path]
      BY <1>2, <2>2 DEF LocalInv, Files
    <3>3. /\ reading'.lines = lines /\ reading'.got = 0
          /\ reading'.shared = (path \in Rewritten)
          /\ pc' = "read" /\ scan' = scan /\ file' = file /\ versions' = versions
      BY <1>1, <2>2
    <3> HIDE DEF lines
    <3>4. reading'.lines \in Seq(HostLine) /\ reading'.got \in 0 .. Len(reading'.lines)
      BY <3>1, <3>3
    <3>5. reading'.lines = LinesOf[file'[PathOf(scan')].version]
      BY <3>3 DEF lines
    <3>6. PathOf(scan') \notin Rewritten =>
            ~reading'.shared /\ \E v \in versions'[PathOf(scan')] : reading'.lines = LinesOf[v]
      BY <3>2, <3>3 DEF lines
    <3>7. QED
      BY <3>3, <3>4, <3>5, <3>6 DEF Reader
  <2>3. QED
    BY <2>1, <2>2
<1>10. QED
  BY <1>3, <1>4, <1>5, <1>8, <1>9 DEF LocalInv

\* What was read goes into the table under an mtime the file once had.
LEMMA LoadStep ==
  ASSUME LocalInv, load_hosts_file
  PROVE  LocalInv'
<1> DEFINE path == PathOf(scan)
           lines == reading.lines
           t    == [path |-> path, map |-> LinesMap(lines, scan), mtime |-> st_mtime]
           x    == IndexOf(path)
<1>1. /\ pc = "read"
      /\ hosts' = IF Valid(lines) THEN [hosts EXCEPT ![x] = t] ELSE hosts
      /\ st_mtime' = 0 /\ reading' = NotReading
      /\ \/ scan < Len(HostsFiles) /\ pc' = "stat" /\ scan' = scan + 1
         \/ ~(scan < Len(HostsFiles)) /\ pc' = "lookup" /\ scan' = 1
      /\ UNCHANGED <<rules, last_hosts_check, question, answer, asked,
                     started, now, file, saves, saved, newer, newest, versions>>
  BY DEF load_hosts_file, Loaded, TableMtime, Table, LinesMap, NextFile, PathOf, history
<1>2. /\ scan \in 1 .. Len(HostsFiles) /\ scan' \in 1 .. Len(HostsFiles)
      /\ path \in Paths /\ PathOf(scan') \in Paths
  <2>1. scan \in 1 .. Len(HostsFiles)
    BY DEF LocalInv, Shape
  <2>2. scan' \in 1 .. Len(HostsFiles)
    BY <1>1, <2>1, Sizes
  <2>3. QED
    BY <2>1, <2>2, Listings
<1>3. /\ hosts \in Seq(HostTable)
      /\ Len(hosts) = Len(StaticTable) + Len(HostsFiles)
      /\ \A j \in 1 .. Len(StaticTable) : hosts[j] = StaticTable[j]
      /\ \A i \in 1 .. Len(HostsFiles) :
           /\ hosts[Slot(i)].path = PathOf(i)
           /\ hosts[Slot(i)].mtime <= newest[PathOf(i)]
           /\ Replaced(i) => \E w \in versions[PathOf(i)] :
                               Valid(LinesOf[w]) /\ hosts[Slot(i)].map = MapOf(w, i)
  BY <1>1 DEF LocalInv, Tables
<1>4. /\ x \in Len(StaticTable) + 1 .. Len(hosts) /\ x \in 1 .. Len(hosts)
      /\ \E k \in 1 .. Len(HostsFiles) : x = Slot(k) /\ PathOf(k) = path
  BY <1>1, <1>2, Found DEF LocalInv
<1>5. /\ st_mtime \in 0 .. newest[path] /\ newest[path] \in Nat
      /\ \A p \in Paths : newest[p] \in Nat
  BY <1>2 DEF LocalInv, Clocks
<1>6. t \in HostTable /\ lines \in Seq(HostLine)
  <2>1. lines \in Seq(HostLine) /\ scan \in DOMAIN HostsFiles
    BY <1>2, Listings DEF LocalInv, Reader
  <2>2. LinesMap(lines, scan) \in Maps
    BY <2>1 DEF Maps
  <2>3. st_mtime \in Nat
    BY <1>5
  <2> HIDE DEF lines
  <2>4. QED
    BY <1>2, <2>1, <2>2, <2>3 DEF HostTable
<1>7. t.path = path /\ t.map = LinesMap(lines, scan) /\ t.mtime = st_mtime
  OBVIOUS
<1> HIDE DEF x, t, lines
<1>8. /\ hosts' \in Seq(HostTable) /\ Len(hosts') = Len(hosts)
      /\ \A j \in 1 .. Len(hosts) :
           hosts'[j] = IF Valid(lines) /\ j = x THEN t ELSE hosts[j]
  <2>1. CASE Valid(lines)
    <3>1. /\ [hosts EXCEPT ![x] = t] \in Seq(HostTable)
          /\ Len([hosts EXCEPT ![x] = t]) = Len(hosts)
          /\ \A j \in 1 .. Len(hosts) :
               [hosts EXCEPT ![x] = t][j] = IF j = x THEN t ELSE hosts[j]
      BY <1>3, <1>4, <1>6, <2>1, ExceptSeq
    <3>2. QED
      BY <1>1, <2>1, <3>1
  <2>2. CASE ~Valid(lines)
    BY <1>1, <1>3, <2>2
  <2>3. QED
    BY <2>1, <2>2
<1>9. ASSUME NEW i \in 1 .. Len(HostsFiles)
      PROVE  /\ \/ hosts'[Slot(i)] = hosts[Slot(i)] /\ (Valid(lines) => x # Slot(i))
                \/ hosts'[Slot(i)] = hosts[Slot(i)] /\ ~Valid(lines)
                \/ hosts'[Slot(i)] = t /\ Valid(lines) /\ PathOf(i) = path
             /\ Once(i) /\ PathOf(i) = path => i = scan
             /\ Once(i) /\ i = scan => x = Slot(i)
  <2>1. Slot(i) \in 1 .. Len(hosts)
    BY <1>3, Slots
  <2>2. hosts'[Slot(i)] = IF Valid(lines) /\ Slot(i) = x THEN t ELSE hosts[Slot(i)]
    BY <1>8, <2>1
  <2>3. x = Slot(i) => PathOf(i) = path
    BY <1>4, Slots
  <2>4. Once(i) /\ PathOf(i) = path => i = scan
    BY <1>2, OncePlaced
  <2>5. Once(i) /\ i = scan => x = Slot(i)
    BY <1>1, Found DEF LocalInv, x
  <2>6. QED
    BY <2>2, <2>3, <2>4, <2>5
<1>10. Shape'
  BY <1>1, <1>2 DEF LocalInv, Shape
<1>11. Files'
  BY <1>1, FilesKept DEF LocalInv
<1>12. Clocks'
  <2>1. st_mtime' \in 0 .. newest'[PathOf(scan')]
    BY <1>1, <1>2, <1>5
  <2>2. QED
    BY <1>1, <2>1 DEF LocalInv, Clocks
<1>13. Tables'
  <2>1. ASSUME NEW j \in 1 .. Len(StaticTable) PROVE hosts'[j] = StaticTable[j]
    <3>1. j \in 1 .. Len(hosts) /\ j # x
      BY <1>3, <1>4, Sizes
    <3>2. QED
      BY <1>3, <1>8, <3>1
  <2>2. ASSUME NEW i \in 1 .. Len(HostsFiles)
        PROVE  /\ hosts'[Slot(i)].path = PathOf(i)
               /\ hosts'[Slot(i)].mtime <= newest'[PathOf(i)]
               /\ Replaced(i) => \E w \in versions'[PathOf(i)] :
                                   Valid(LinesOf[w]) /\ hosts'[Slot(i)].map = MapOf(w, i)
    <3>1. CASE hosts'[Slot(i)] = hosts[Slot(i)]
      BY <1>1, <1>3, <3>1
    <3>2. CASE hosts'[Slot(i)] = t /\ Valid(lines) /\ PathOf(i) = path
      <4>1. hosts'[Slot(i)].path = PathOf(i) /\ hosts'[Slot(i)].mtime = st_mtime
        BY <1>7, <3>2
      <4>2. st_mtime <= newest'[PathOf(i)]
        BY <1>1, <1>5, <3>2
      <4>3. ASSUME Replaced(i)
            PROVE  \E w \in versions'[PathOf(i)] :
                     Valid(LinesOf[w]) /\ hosts'[Slot(i)].map = MapOf(w, i)
        <5>1. i = scan /\ path \notin Rewritten
          BY <1>9, <3>2, <4>3 DEF Replaced, Once
        <5>2. PICK w \in versions[path] : lines = LinesOf[w]
          BY <1>1, <5>1 DEF LocalInv, Reader, lines
        <5>3. hosts'[Slot(i)].map = MapOf(w, i) /\ Valid(LinesOf[w])
          BY <1>7, <3>2, <5>1, <5>2 DEF MapOf
        <5>4. QED
          BY <1>1, <3>2, <5>2, <5>3
      <4>4. QED
        BY <4>1, <4>2, <4>3
    <3>3. QED
      BY <1>9, <3>1, <3>2
  <2>3. QED
    BY <1>3, <1>8, <2>1, <2>2 DEF Tables
<1>14. Prompt'
  BY <1>1 DEF LocalInv, Fresh, Prompt
<1>15. ASSUME NEW i \in 1 .. Len(HostsFiles)
       PROVE  Seen(i)' /\ Followed(i)'
  <2>1. SUFFICES ASSUME Trusted(i),
                        \/ hosts'[Slot(i)].mtime >= file[PathOf(i)].mtime
                        \/ Passed(i)'
                 PROVE  hosts'[Slot(i)].map = MapOf(file[PathOf(i)].version, i)
    BY <1>1 DEF Seen, Followed, Trusted, Agrees
  <2>2. Once(i) /\ Usable(file[PathOf(i)].version) /\ Seen(i) /\ Followed(i)
    BY <1>1, <2>1 DEF LocalInv, Fresh, Trusted
  <2>3. CASE i = scan
    <3>1. /\ \/ st_mtime >= file[path].mtime
             \/ saved[path] < last_hosts_check
          => lines = LinesOf[file[path].version]
      BY <1>1, <2>1, <2>3 DEF LocalInv, Reader, lines
    <3>2. Passed(i)' => saved[path] < last_hosts_check
      BY <1>1, <2>3 DEF Passed
    <3>3. lines = LinesOf[file[path].version] => Valid(lines)
      BY <2>2, <2>3 DEF Usable
    <3>4. CASE Valid(lines)
      <4>1. hosts'[Slot(i)] = t
        BY <1>9, <2>2, <2>3, <3>4
      <4>2. lines = LinesOf[file[path].version]
        BY <1>7, <2>1, <2>3, <3>1, <3>2, <4>1
      <4>3. QED
        BY <1>7, <2>3, <4>1, <4>2 DEF MapOf
    <3>5. CASE ~Valid(lines)
      <4>1. hosts'[Slot(i)] = hosts[Slot(i)]
        BY <1>9, <3>5
      <4>2. hosts[Slot(i)].mtime >= file[PathOf(i)].mtime
        BY <2>1, <2>3, <3>1, <3>2, <3>3, <3>5, <4>1
      <4>3. QED
        BY <2>1, <2>2, <4>1, <4>2 DEF Seen, Agrees
    <3>6. QED
      BY <3>4, <3>5
  <2>4. CASE i # scan
    <3>1. hosts'[Slot(i)] = hosts[Slot(i)]
      BY <1>9, <2>2, <2>4
    <3>2. Passed(i)' => Passed(i)
      BY <1>1, <1>2, <2>4, Sizes DEF Passed
    <3>3. Agrees(i)
      BY <2>1, <2>2, <3>1, <3>2 DEF Seen, Followed
    <3>4. QED
      BY <3>1, <3>3 DEF Agrees
  <2>5. QED
    BY <2>3, <2>4
<1>16. Fresh' /\ Reader'
  BY <1>1, <1>14, <1>15, NotReadingYet DEF Fresh
<1>17. QED
  BY <1>10, <1>11, <1>12, <1>13, <1>16 DEF LocalInv

LEMMA LookupStep ==
  ASSUME LocalInv, Lookup
  PROVE  LocalInv'
<1>1. /\ pc = "lookup"
      /\ \/ /\ pc' = "check" /\ asked' = asked
            /\ question' = [question EXCEPT !.reverse = FALSE]
         \/ pc' = "idle" /\ question' = NoQuestion /\ asked' = 0
      /\ UNCHANGED <<rules, hosts, last_hosts_check, scan, st_mtime, reading, started, now,
                     file, saves, saved, newer, newest, versions>>
  BY DEF Lookup, history
<1>2. question' \in [name : Names \cup {<<>>}, type : Types, reverse : BOOLEAN]
  <2>1. question \in [name : Names \cup {<<>>}, type : Types, reverse : BOOLEAN]
    BY DEF LocalInv, Shape
  <2>2. NoQuestion \in [name : Names \cup {<<>>}, type : Types, reverse : BOOLEAN]
    BY DEF NoQuestion, Types
  <2>3. QED
    BY <1>1, <2>1, <2>2
<1>3. Shape'
  BY <1>1, <1>2 DEF LocalInv, Shape
<1>4. Files' /\ Tables'
  BY <1>1, FilesKept, TablesKept DEF LocalInv
<1>5. Clocks'
  BY <1>1 DEF LocalInv, Clocks
<1>6. Prompt' /\ \A i \in 1 .. Len(HostsFiles) : Passed(i)' => Passed(i)
  BY <1>1 DEF Prompt, Passed
<1>7. Fresh' /\ Reader'
  BY <1>1, <1>6, FreshKept, NothingRead DEF LocalInv
<1>8. QED
  BY <1>3, <1>4, <1>5, <1>7 DEF LocalInv

LEMMA TickStep ==
  ASSUME LocalInv, Tick
  PROVE  LocalInv'
<1>1. /\ now' = now + 1 /\ pc # "options"
      /\ UNCHANGED <<rules, hosts, last_hosts_check, pc, scan, st_mtime, reading, question,
                     answer, asked, started, file, saves, saved, newer, newest, versions>>
  BY DEF Tick, server, history
<1>2. Shape' /\ Files' /\ Tables'
  BY <1>1, FilesKept, TablesKept DEF LocalInv, Shape
<1>3. Clocks'
  <2>1. now \in Nat /\ now' \in Nat /\ now <= now'
    BY <1>1 DEF LocalInv, Clocks
  <2>2. /\ now \div Second \in Nat /\ now' \div Second \in Nat
        /\ now \div Second <= now' \div Second
    BY <2>1, SecondsGrow
  <2> DEFINE s == now \div Second
             t == now' \div Second
  <2> HIDE DEF s, t
  <2>3. \A p \in Paths : newest[p] \in Nat /\ newest[p] <= s
    BY DEF LocalInv, Clocks, s
  <2>4. \A p \in Paths : newest[p] <= t
    BY <2>2, <2>3 DEF s, t
  <2>5. QED
    BY <1>1, <2>1, <2>4 DEF LocalInv, Clocks, t
<1>4. Prompt' /\ \A i \in 1 .. Len(HostsFiles) : Passed(i)' => Passed(i)
  BY <1>1 DEF LocalInv, Fresh, Prompt, Passed
<1>5. Fresh' /\ Reader'
  BY <1>1, <1>4, FreshKept, ReaderKept DEF LocalInv
<1>6. QED
  BY <1>2, <1>3, <1>5 DEF LocalInv

\* A file that changes is newer than its table, or not trusted.
LEMMA ChangeStep ==
  ASSUME LocalInv, NEW p \in Paths, NEW w, NEW m \in Nat, Changed(p, w, m),
         w = Missing \/ (<<p, w>> \in Versions /\ w \in Contents /\ w \in versions'[p]),
         versions' \in [Paths -> SUBSET Contents],
         \A q \in Paths : versions[q] \subseteq versions'[q],
         newest' \in [Paths -> Nat], m <= newest'[p],
         \A q \in Paths : newest[q] <= newest'[q] /\ newest'[q] <= now \div Second,
         newer' \in [Paths -> BOOLEAN],
         \A q \in Paths : q # p => newer'[q] = newer[q],
         newer'[p] /\ w # Missing => newest[p] < m,
         reading'.lines \in Seq(HostLine), reading'.got \in 0 .. Len(reading'.lines),
         pc # "read" => reading' = reading,
         \/ reading'.lines = reading.lines /\ (reading'.shared => reading.shared)
         \/ PathOf(scan) = p /\ reading.shared
  PROVE  LocalInv'
<1>1. /\ pc # "options" /\ saves' = saves + 1
      /\ file' = [file EXCEPT ![p] = [version |-> w, mtime |-> m]]
      /\ saved' = [saved EXCEPT ![p] = now]
      /\ UNCHANGED <<rules, hosts, last_hosts_check, pc, scan, st_mtime, question,
                     answer, asked, started, now>>
  BY DEF Changed
<1>2. /\ file \in [Paths -> [version : Contents \cup {Missing}, mtime : Nat]]
      /\ saved \in [Paths -> Nat] /\ now \in Nat /\ newest \in [Paths -> Nat]
      /\ last_hosts_check \in 0 .. now
  BY DEF LocalInv, Files, Clocks
<1>3. /\ file' \in [Paths -> [version : Contents \cup {Missing}, mtime : Nat]]
      /\ file'[p].version = w /\ file'[p].mtime = m
      /\ \A q \in Paths : q # p => file'[q] = file[q]
  BY <1>1, <1>2
<1>4. /\ saved' \in [Paths -> Nat] /\ saved'[p] = now
      /\ \A q \in Paths : q # p => saved'[q] = saved[q]
  BY <1>1, <1>2
<1>5. Shape'
  BY <1>1 DEF LocalInv, Shape
<1>6. Files'
  <2>1. ASSUME NEW q \in Paths
        PROVE  /\ file'[q].version = Missing \/ <<q, file'[q].version>> \in Versions
               /\ file'[q].version = Missing \/ file'[q].version \in versions'[q]
    <3>1. CASE q = p
      BY <1>3, <3>1
    <3>2. CASE q # p
      BY <1>3, <3>2 DEF LocalInv, Files
    <3>3. QED
      BY <3>1, <3>2
  <2>2. QED
    BY <1>1, <1>3, <1>4, <2>1 DEF Files
<1>7. PathOf(scan) \in Paths /\ \A i \in 1 .. Len(HostsFiles) : PathOf(i) \in Paths
  BY Listings DEF LocalInv, Shape
<1>8. Clocks'
  <2>1. ASSUME NEW q \in Paths PROVE file'[q].mtime <= newest'[q]
    <3>1. CASE q = p
      BY <1>3, <3>1
    <3>2. CASE q # p
      <4>1. file[q].mtime <= newest[q] /\ newest[q] <= newest'[q]
        BY DEF LocalInv, Clocks
      <4>2. file[q].mtime \in Nat /\ newest[q] \in Nat /\ newest'[q] \in Nat
        BY <1>2
      <4>3. QED
        BY <1>3, <3>2, <4>1, <4>2
    <3>3. QED
      BY <3>1, <3>2
  <2>2. st_mtime' \in 0 .. newest'[PathOf(scan')]
    <3>1. /\ st_mtime \in 0 .. newest[PathOf(scan)]
          /\ newest[PathOf(scan)] <= newest'[PathOf(scan)]
      BY <1>7 DEF LocalInv, Clocks
    <3>2. newest[PathOf(scan)] \in Nat /\ newest'[PathOf(scan)] \in Nat
      BY <1>2, <1>7
    <3>3. QED
      BY <1>1, <3>1, <3>2
  <2>3. QED
    BY <1>1, <2>1, <2>2 DEF LocalInv, Clocks
<1>9. /\ hosts \in Seq(HostTable)
      /\ Len(hosts) = Len(StaticTable) + Len(HostsFiles)
      /\ \A j \in 1 .. Len(StaticTable) : hosts[j] = StaticTable[j]
      /\ \A i \in 1 .. Len(HostsFiles) :
           /\ hosts[Slot(i)].path = PathOf(i)
           /\ hosts[Slot(i)].mtime <= newest[PathOf(i)]
           /\ Replaced(i) => \E v \in versions[PathOf(i)] :
                               Valid(LinesOf[v]) /\ hosts[Slot(i)].map = MapOf(v, i)
  BY <1>1 DEF LocalInv, Tables
<1>10. ASSUME NEW i \in 1 .. Len(HostsFiles) PROVE hosts[Slot(i)].mtime \in Nat
  <2>1. hosts[Slot(i)] \in HostTable
    <3>1. Slot(i) \in 1 .. Len(hosts)
      BY <1>9, Slots
    <3>2. QED
      BY <1>9, <3>1, ElementOfSeq
  <2>2. QED
    BY <2>1 DEF HostTable
<1>11. Tables'
  <2>1. ASSUME NEW i \in 1 .. Len(HostsFiles)
        PROVE  /\ hosts[Slot(i)].mtime <= newest'[PathOf(i)]
               /\ Replaced(i) => \E v \in versions'[PathOf(i)] :
                                   Valid(LinesOf[v]) /\ hosts[Slot(i)].map = MapOf(v, i)
    <3>1. /\ hosts[Slot(i)].mtime \in Nat /\ newest[PathOf(i)] \in Nat
          /\ newest'[PathOf(i)] \in Nat
          /\ hosts[Slot(i)].mtime <= newest[PathOf(i)]
          /\ newest[PathOf(i)] <= newest'[PathOf(i)]
      BY <1>2, <1>7, <1>9, <1>10
    <3>2. versions[PathOf(i)] \subseteq versions'[PathOf(i)]
      BY <1>7
    <3>3. hosts[Slot(i)].mtime <= newest'[PathOf(i)]
      BY <3>1
    <3>4. Replaced(i) => \E v \in versions[PathOf(i)] :
                          Valid(LinesOf[v]) /\ hosts[Slot(i)].map = MapOf(v, i)
      BY <1>9
    <3>5. QED
      BY <3>2, <3>3, <3>4
  <2>2. QED
    BY <1>1, <1>9, <2>1 DEF Tables
<1>12. Prompt'
  BY <1>1 DEF LocalInv, Fresh, Prompt
<1>13. ASSUME NEW i \in 1 .. Len(HostsFiles)
       PROVE  Seen(i)' /\ Followed(i)'
  <2>1. CASE PathOf(i) = p
    <3>1. SUFFICES ASSUME Trusted(i)'
                   PROVE  /\ ~(hosts[Slot(i)].mtime >= m)
                          /\ ~(now < last_hosts_check)
      BY <1>1, <1>3, <1>4, <2>1 DEF Seen, Followed, Passed
    <3>2. newest[p] < m
      BY <1>3, <2>1, <3>1 DEF Trusted, Usable
    <3>3. hosts[Slot(i)].mtime <= newest[p] /\ hosts[Slot(i)].mtime \in Nat
      BY <1>9, <1>10, <2>1
    <3>4. newest[p] \in Nat
      BY <1>2
    <3>5. QED
      BY <1>2, <3>2, <3>3, <3>4
  <2>2. CASE PathOf(i) # p
    <3>1. /\ file'[PathOf(i)] = file[PathOf(i)] /\ saved'[PathOf(i)] = saved[PathOf(i)]
          /\ newer'[PathOf(i)] = newer[PathOf(i)]
      BY <1>3, <1>4, <1>7, <2>2
    <3>2. Seen(i) /\ Followed(i)
      BY <1>1 DEF LocalInv, Fresh
    <3>3. (Trusted(i)' <=> Trusted(i)) /\ (Agrees(i)' <=> Agrees(i)) /\ (Passed(i)' <=> Passed(i))
      BY <1>1, <3>1 DEF Trusted, Agrees, Passed
    <3>4. QED
      BY <1>1, <3>1, <3>2, <3>3 DEF Seen, Followed
  <2>3. QED
    BY <2>1, <2>2
<1>14. Fresh'
  BY <1>12, <1>13 DEF Fresh
<1>15. Reader'
  <2> DEFINE path == PathOf(scan)
  <2>1. CASE pc # "read"
    BY <1>1, <2>1, NothingRead DEF LocalInv
  <2>2. CASE pc = "read"
    <3>1. path \in Paths /\ pc' = pc /\ scan' = scan /\ st_mtime' = st_mtime
          /\ last_hosts_check' = last_hosts_check
      BY <1>1, <1>7
    <3>2. ASSUME path \notin Rewritten
          PROVE  ~reading'.shared /\ \E v \in versions'[path] : reading'.lines = LinesOf[v]
      <4>1. ~reading.shared /\ \E v \in versions[path] : reading.lines = LinesOf[v]
        BY <2>2, <3>2 DEF LocalInv, Reader
      <4>2. versions[path] \subseteq versions'[path]
        BY <3>1
      <4>3. QED
        BY <4>1, <4>2
    <3>3. ASSUME Trusted(scan)',
                 \/ st_mtime >= file'[path].mtime
                 \/ saved'[path] < last_hosts_check
          PROVE  reading'.lines = LinesOf[file'[path].version]
      <4>1. CASE path = p
        <5>1. newest[p] < m
          BY <1>3, <3>1, <3>3, <4>1 DEF Trusted, Usable
        <5>2. st_mtime \in 0 .. newest[p] /\ newest[p] \in Nat
          BY <1>2, <4>1 DEF LocalInv, Clocks
        <5>3. ~(st_mtime >= m)
          BY <5>1, <5>2
        <5>4. ~(now < last_hosts_check)
          BY <1>2
        <5>5. QED
          BY <1>3, <1>4, <3>3, <4>1, <5>3, <5>4
      <4>2. CASE path # p
        <5>1. /\ file'[path] = file[path] /\ saved'[path] = saved[path]
              /\ newer'[path] = newer[path] /\ reading'.lines = reading.lines
          BY <1>3, <1>4, <3>1, <4>2
        <5>2. Trusted(scan)
          BY <3>1, <3>3, <5>1 DEF Trusted
        <5>3. reading.lines = LinesOf[file[path].version]
          BY <2>2, <3>3, <5>1, <5>2 DEF LocalInv, Reader
        <5>4. QED
          BY <5>1, <5>3
      <4>3. QED
        BY <4>1, <4>2
    <3>4. QED
      BY <2>2, <3>1, <3>2, <3>3 DEF Reader
  <2>3. QED
    BY <2>1, <2>2
<1>16. QED
  BY <1>5, <1>6, <1>8, <1>11, <1>14, <1>15 DEF LocalInv

\* What a file that is written over gives its reader are lines.
LEMMA OverwrittenIsLines ==
  ASSUME Reader, NEW lines \in Seq(HostLine), Overwritten(lines)
  PROVE  reading'.lines \in Seq(HostLine) /\ reading'.got \in 0 .. Len(reading'.lines)
<1>1. PICK k \in reading.got .. Len(reading.lines), j \in 1 .. Len(lines) + 1,
           t \in {<<>>} \cup {<<l>> : l \in Torn} :
        reading' = [lines |-> SubSeq(reading.lines, 1, k) \o t \o SubSeq(lines, j, Len(lines)),
                    got |-> k + Len(t), shared |-> TRUE]
  BY DEF Overwritten
<1> DEFINE a == SubSeq(reading.lines, 1, k)
           b == SubSeq(lines, j, Len(lines))
<1>2. /\ reading.lines \in Seq(HostLine) /\ Len(reading.lines) \in Nat /\ Len(lines) \in Nat
      /\ k \in Nat /\ k <= Len(reading.lines)
  <2>1. reading.lines \in Seq(HostLine) /\ reading.got \in 0 .. Len(reading.lines)
    BY DEF Reader
  <2>2. Len(reading.lines) \in Nat /\ Len(lines) \in Nat
    BY <2>1, LenProperties
  <2>3. QED
    BY <2>1, <2>2
<1>3. a \in Seq(HostLine) /\ Len(a) = k
  <2>1. 1 \in 1 .. Len(reading.lines) + 1 /\ k \in 1 - 1 .. Len(reading.lines)
    BY <1>2
  <2>2. a \in Seq(HostLine) /\ Len(a) = k - 1 + 1
    BY <1>2, <2>1, SubSeqProperties
  <2>3. QED
    BY <1>2, <2>2
<1>4. b \in Seq(HostLine) /\ Len(b) \in Nat
  <2>1. Len(lines) \in j - 1 .. Len(lines)
    BY <1>2
  <2>2. b \in Seq(HostLine)
    BY <2>1, SubSeqProperties
  <2>3. QED
    BY <2>2, LenProperties
<1>5. t \in Seq(HostLine) /\ Len(t) \in Nat
  <2>1. <<>> \in Seq(HostLine) /\ \A l \in Torn : <<l>> \in Seq(HostLine)
    <3>1. Torn \subseteq HostLine
      BY ParametersAssumption
    <3>2. QED
      BY <3>1, OneElement, EmptySeq
  <2>2. t \in Seq(HostLine)
    BY <2>1
  <2>3. QED
    BY <2>2, LenProperties
<1>6. reading'.lines = a \o t \o b /\ reading'.got = k + Len(t)
  BY <1>1
<1> HIDE DEF a, b
<1>7. a \o t \in Seq(HostLine) /\ Len(a \o t) = k + Len(t)
  BY <1>3, <1>5, ConcatProperties
<1> DEFINE c == a \o t
<1> HIDE DEF c
<1>8. c \o b \in Seq(HostLine) /\ Len(c \o b) = k + Len(t) + Len(b)
  <2>1. c \in Seq(HostLine) /\ Len(c) = k + Len(t)
    BY <1>7 DEF c
  <2>2. c \o b \in Seq(HostLine) /\ Len(c \o b) = Len(c) + Len(b)
    BY <1>4, <2>1, ConcatProperties
  <2>3. QED
    BY <2>1, <2>2
<1>9. QED
  <2>1. reading'.lines = c \o b
    BY <1>6 DEF c
  <2>2. k + Len(t) \in 0 .. (k + Len(t) + Len(b))
    BY <1>2, <1>4, <1>5
  <2>3. QED
    BY <1>6, <1>8, <2>1, <2>2

LEMMA SaveStep ==
  ASSUME LocalInv, NEW p \in Paths, Save(p)
  PROVE  LocalInv'
<1>1. PICK v \in Versions, m \in 0 .. (now \div Second) :
        /\ v[1] = p
        /\ Changed(p, v[2], m)
        /\ IF BeingRead(p) THEN Overwritten(LinesOf[v[2]])
           ELSE UNCHANGED reading
        /\ newer' = [newer EXCEPT ![p] = m > newest[p]]
        /\ newest' = [newest EXCEPT ![p] = IF m > newest[p] THEN m ELSE newest[p]]
        /\ versions' = [versions EXCEPT ![p] = versions[p] \cup {v[2]}]
  BY DEF Save
<1>2. now \div Second \in Nat
  <2>1. now \in Nat
    BY DEF LocalInv, Clocks
  <2>2. QED
    BY <2>1, SecondsGrow
<1> DEFINE s == now \div Second
           later == IF m > newest[p] THEN m ELSE newest[p]
<1>3. m \in Nat /\ m <= s
  <2> HIDE DEF later
  <2>1. s \in Nat /\ m \in 0 .. s
    BY <1>2
  <2> HIDE DEF s
  <2>2. QED
    BY <2>1
<1>4. /\ newest \in [Paths -> Nat] /\ \A q \in Paths : newest[q] <= s
      /\ newer \in [Paths -> BOOLEAN] /\ versions \in [Paths -> SUBSET Contents]
  BY DEF LocalInv, Clocks, Files
<1>5. v[2] \in Contents /\ <<p, v[2]>> \in Versions
  BY <1>1, ParametersAssumption DEF Contents
<1> HIDE DEF s
<1>6. /\ newest[p] \in Nat /\ later \in Nat /\ m <= later /\ newest[p] <= later
      /\ later <= s /\ (m > newest[p]) \in BOOLEAN
  BY <1>3, <1>4
<1> HIDE DEF later
<1>7. newest' = [newest EXCEPT ![p] = later]
  BY <1>1 DEF later
<1>8. /\ newest' \in [Paths -> Nat] /\ newest'[p] = later
      /\ \A q \in Paths : q # p => newest'[q] = newest[q]
  BY <1>4, <1>6, <1>7
<1>9. \A q \in Paths : newest[q] <= newest'[q] /\ newest'[q] <= s
  <2>1. ASSUME NEW q \in Paths PROVE newest[q] <= newest'[q] /\ newest'[q] <= s
    <3>1. CASE q = p
      BY <1>6, <1>8, <3>1
    <3>2. CASE q # p
      <4>1. newest[q] \in Nat /\ newest[q] <= s /\ newest'[q] = newest[q]
        BY <1>4, <1>8, <3>2
      <4>2. QED
        BY <4>1
    <3>3. QED
      BY <3>1, <3>2
  <2>2. QED
    BY <2>1
<1> DEFINE grown == m > newest[p]
<1>10. newer' = [newer EXCEPT ![p] = grown] /\ grown \in BOOLEAN
  BY <1>1, <1>6
<1>11. grown => newest[p] < m
  BY <1>3, <1>6
<1> HIDE DEF grown
<1>12. /\ newer' \in [Paths -> BOOLEAN] /\ newer'[p] = grown
       /\ \A q \in Paths : q # p => newer'[q] = newer[q]
  BY <1>4, <1>10, Zenon
<1>13. /\ versions' \in [Paths -> SUBSET Contents] /\ v[2] \in versions'[p]
       /\ \A q \in Paths : versions[q] \subseteq versions'[q]
  BY <1>1, <1>4, <1>5
<1>14. Changed(p, v[2], m)
  BY <1>1
<1>15. m <= newest'[p] /\ (newer'[p] /\ v[2] # Missing => newest[p] < m)
  BY <1>6, <1>8, <1>11, <1>12
<1>16. \A q \in Paths : newest[q] <= newest'[q] /\ newest'[q] <= now \div Second
  BY <1>9 DEF s
<1>17. /\ reading'.lines \in Seq(HostLine) /\ reading'.got \in 0 .. Len(reading'.lines)
       /\ pc # "read" => reading' = reading
       /\ \/ reading'.lines = reading.lines /\ (reading'.shared => reading.shared)
          \/ PathOf(scan) = p /\ reading.shared
  <2>1. CASE BeingRead(p)
    <3>1. LinesOf[v[2]] \in Seq(HostLine) /\ Overwritten(LinesOf[v[2]])
      BY <1>1, <1>5, <2>1, ContentsHaveLines
    <3>2. reading'.lines \in Seq(HostLine) /\ reading'.got \in 0 .. Len(reading'.lines)
      BY <3>1, OverwrittenIsLines DEF LocalInv
    <3>3. QED
      BY <2>1, <3>2 DEF BeingRead, PathOf
  <2>2. CASE ~BeingRead(p)
    BY <1>1, <2>2 DEF LocalInv, Reader
  <2>3. QED
    BY <2>1, <2>2
<1>18. QED
  BY <1>3, <1>5, <1>8, <1>12, <1>13, <1>14, <1>15, <1>16, <1>17, ChangeStep

LEMMA UnlinkStep ==
  ASSUME LocalInv, NEW p \in Paths, Unlink(p)
  PROVE  LocalInv'
<1>1. /\ Changed(p, Missing, 0) /\ UNCHANGED <<newer, newest, versions>>
      /\ IF BeingRead(p)
         THEN reading' = [lines |-> reading.lines, got |-> reading.got, shared |-> FALSE]
         ELSE UNCHANGED reading
  BY DEF Unlink
<1>2. /\ newest \in [Paths -> Nat] /\ \A q \in Paths : newest[q] <= now \div Second
      /\ newer \in [Paths -> BOOLEAN] /\ versions \in [Paths -> SUBSET Contents]
  BY DEF LocalInv, Clocks, Files
<1>3. /\ newest' \in [Paths -> Nat] /\ newer' \in [Paths -> BOOLEAN]
      /\ versions' \in [Paths -> SUBSET Contents]
      /\ \A q \in Paths : /\ versions[q] \subseteq versions'[q] /\ newer'[q] = newer[q]
                          /\ newest'[q] <= now \div Second
  BY <1>1, <1>2
<1>4. 0 <= newest'[p] /\ \A q \in Paths : newest[q] <= newest'[q]
  <2>1. newest' = newest /\ \A q \in Paths : newest[q] \in Nat
    BY <1>1, <1>2
  <2>2. QED
    BY <2>1
<1> DEFINE w == Missing
           m == 0
<1>5. /\ m \in Nat /\ w = Missing /\ Changed(p, w, m) /\ m <= newest'[p]
      /\ newer'[p] /\ w # Missing => newest[p] < m
      /\ \A q \in Paths : /\ newest[q] <= newest'[q] /\ newest'[q] <= now \div Second
                          /\ q # p => newer'[q] = newer[q]
  BY <1>1, <1>3, <1>4
<1> HIDE DEF w, m
<1>6. w = Missing \/ (<<p, w>> \in Versions /\ w \in Contents /\ w \in versions'[p])
  BY <1>5
<1>7. \A q \in Paths : versions[q] \subseteq versions'[q]
  BY <1>3
<1>8. \A q \in Paths : newest[q] <= newest'[q] /\ newest'[q] <= now \div Second
  BY <1>5
<1>9. \A q \in Paths : q # p => newer'[q] = newer[q]
  BY <1>5
<1>10. newer'[p] /\ w # Missing => newest[p] < m
  BY <1>5
<1>11. /\ reading'.lines \in Seq(HostLine) /\ reading'.got \in 0 .. Len(reading'.lines)
       /\ pc # "read" => reading' = reading
       /\ reading'.lines = reading.lines /\ (reading'.shared => reading.shared)
  <2>1. reading.lines \in Seq(HostLine) /\ reading.got \in 0 .. Len(reading.lines)
    BY DEF LocalInv, Reader
  <2>2. /\ reading'.lines = reading.lines /\ reading'.got = reading.got
        /\ reading'.shared => reading.shared
    <3>1. CASE BeingRead(p)
      BY <1>1, <2>1, <3>1
    <3>2. CASE ~BeingRead(p)
      BY <1>1, <3>2
    <3>3. QED
      BY <3>1, <3>2
  <2>3. ASSUME pc # "read" PROVE reading' = reading
    BY <1>1, <2>3 DEF BeingRead
  <2>4. QED
    BY <2>1, <2>2, <2>3
<1>12. QED
  BY <1>3, <1>5, <1>6, <1>7, <1>8, <1>9, <1>10, <1>11, ChangeStep

LEMMA LocalStep == LocalInv /\ [Next]_vars => LocalInv'
<1> SUFFICES ASSUME LocalInv, [Next]_vars PROVE LocalInv'
  OBVIOUS
<1>1. CASE UNCHANGED vars
  <2>1. /\ Shape' /\ Files' /\ Tables' /\ Clocks'
        /\ UNCHANGED <<hosts, file, newer, saved, last_hosts_check, started, asked, pc, scan,
                       st_mtime, reading, versions>>
    BY <1>1, FilesKept, TablesKept, ClocksKept DEF LocalInv, Shape, vars, server, history
  <2>2. Prompt' /\ \A i \in 1 .. Len(HostsFiles) : Passed(i)' => Passed(i)
    BY <2>1 DEF LocalInv, Fresh, Prompt, Passed
  <2>3. Fresh' /\ Reader'
    BY <2>1, <2>2, FreshKept, ReaderKept DEF LocalInv
  <2>4. QED
    BY <2>1, <2>3 DEF LocalInv
<1>2. CASE \E r \in Rules : add_entry(r)
  BY <1>2, AddEntryStep
<1>3. CASE validate_runtime_inputs
  BY <1>3, ValidateStep
<1>4. CASE initialize_hosts
  BY <1>4, InitializeStep
<1>5. CASE \E q \in Questions : process_local_query(q[1], q[2])
  BY <1>5, QueryStep
<1>6. CASE update_hosts_files
  BY <1>6, UpdateStep
<1>7. CASE StatFile
  BY <1>7, StatStep
<1>8. CASE OpenFile
  BY <1>8, OpenStep
<1>9. CASE load_hosts_file
  BY <1>9, LoadStep
<1>10. CASE Lookup
  BY <1>10, LookupStep
<1>11. CASE Tick
  BY <1>11, TickStep
<1>12. CASE \E p \in Paths : Save(p) \/ Unlink(p)
  BY <1>12, SaveStep, UnlinkStep
<1>13. QED
  BY <1>1, <1>2, <1>3, <1>4, <1>5, <1>6, <1>7, <1>8, <1>9, <1>10, <1>11, <1>12 DEF Next

LEMMA LocalAlways == Spec => []LocalInv
BY InitLocal, LocalStep, PTL DEF Spec

-----------------------------------------------------------------------------
(***************************************************************************)
(* The theorems.                                                           *)
(***************************************************************************)

\* The values the server and the files can have, however often files change: in
\* particular there is always one table for each listing, and no time is ahead
\* of the clock.
THEOREM TypeCorrect == Spec => []TypeOK
<1>1. LocalInv => TypeOK
  <2> SUFFICES ASSUME LocalInv PROVE TypeOK
    OBVIOUS
  <2>1. /\ rules \in Seq(Rules) /\ Len(rules) <= MaxEntries
        /\ pc \in {"options", "start", "idle", "check", "stat", "load", "read", "lookup"}
        /\ question.name \in Names \cup {<<>>} /\ question.type \in Types
    BY DEF LocalInv, Shape
  <2>2. scan \in DOMAIN HostsFiles /\ PathOf(scan) \in Paths
    BY Listings DEF LocalInv, Shape
  <2>3. pc # "options" => Len(hosts) = Len(StaticTable) + Len(HostsFiles)
    BY DEF LocalInv, Tables
  <2>4. last_hosts_check \in 0 .. now
    BY DEF LocalInv, Clocks
  <2>5. st_mtime \in 0 .. (now \div Second)
    <3> DEFINE s == now \div Second
    <3>1. s \in Nat
      BY SecondsGrow DEF LocalInv, Clocks
    <3>2. /\ st_mtime \in 0 .. newest[PathOf(scan)] /\ newest[PathOf(scan)] \in Nat
          /\ newest[PathOf(scan)] <= s
      BY <2>2 DEF LocalInv, Clocks
    <3> HIDE DEF s
    <3>3. st_mtime \in 0 .. s
      BY <3>1, <3>2
    <3>4. QED
      BY <3>3 DEF s
  <2>6. ASSUME NEW p \in Paths
        PROVE  /\ file[p].version = Missing \/ <<p, file[p].version>> \in Versions
               /\ file[p].mtime \in 0 .. newest[p]
    BY DEF LocalInv, Files, Clocks
  <2>7. reading.got \in 0 .. Len(reading.lines) /\ (pc # "read" => reading = NotReading)
    BY DEF LocalInv, Reader
  <2>8. QED
    BY <2>1, <2>2, <2>3, <2>4, <2>5, <2>6, <2>7 DEF TypeOK
<1>2. QED
  BY <1>1, LocalAlways, PTL

\* The table of a file that is listed once and is replaced when it is saved is never torn,
\* emptied or mixed with another: update_hosts_files() leaves a version that was valid in
\* it, whatever is done to the file between its stat(), its open() and the end of its
\* read. Nothing of the kind is stated of files that are rewritten in place.
THEOREM TablesCorrect == Spec => []TablesAreVersions
<1>1. LocalInv => TablesAreVersions
  <2> SUFFICES ASSUME LocalInv, pc # "options", NEW i \in DOMAIN HostsFiles,
                      HostsFiles[i].path \in ListedOnce \ Rewritten
               PROVE  \E v \in versions[HostsFiles[i].path] :
                        /\ Valid(LinesOf[v])
                        /\ hosts[IndexOf(HostsFiles[i].path)].map =
                             parse_hosts_file_data(LinesOf[v], HostsFiles[i].suffix)
    BY DEF TablesAreVersions
  <2>1. i \in 1 .. Len(HostsFiles) /\ Once(i) /\ Replaced(i)
    BY Listings DEF Once, Replaced, PathOf
  <2>2. IndexOf(PathOf(i)) = Slot(i)
    BY <2>1, Found DEF LocalInv
  <2>3. \E v \in versions[PathOf(i)] :
          Valid(LinesOf[v]) /\ hosts[Slot(i)].map = MapOf(v, i)
    BY <2>1 DEF LocalInv, Tables
  <2>4. QED
    BY <2>2, <2>3 DEF MapOf, LinesMap, PathOf
<1>2. QED
  BY <1>1, LocalAlways, PTL

\* The lookups see nothing of the tables but what they map.
LEMMA SameAnswers ==
  ASSUME NEW s \in Seq(HostTable), NEW t \in Seq(HostTable), Len(s) = Len(t),
         \A j \in 1 .. Len(s) : s[j].map = t[j].map
  PROVE  /\ \A n : find_host(s, n) = find_host(t, n)
         /\ \A a : find_host_name_by_addr(s, a) = find_host_name_by_addr(t, a)
<1>1. DOMAIN s = 1 .. Len(s) /\ DOMAIN t = 1 .. Len(s) /\ Len(s) \in Nat
  BY LenProperties
<1>2. ASSUME NEW hits \in SUBSET (1 .. Len(s))
      PROVE  FirstTable(s, hits) = FirstTable(t, hits)
  <2>1. CASE hits = {}
    BY <2>1 DEF FirstTable
  <2>2. CASE hits # {}
    <3>1. hits \in SUBSET Nat
      BY <1>1, <1>2
    <3>2. Min(hits) \in hits
      BY <2>2, <3>1, MinIsIn
    <3>3. s[Min(hits)].map = t[Min(hits)].map
      BY <1>2, <3>2
    <3>4. QED
      BY <2>2, <3>3 DEF FirstTable
  <2>3. QED
    BY <2>1, <2>2
<1>3. ASSUME NEW n PROVE find_host(s, n) = find_host(t, n)
  <2> DEFINE hits == {j \in DOMAIN s : n \in DOMAIN s[j].map}
             others == {j \in DOMAIN t : n \in DOMAIN t[j].map}
  <2>1. hits = others /\ hits \in SUBSET (1 .. Len(s))
    BY <1>1
  <2>2. /\ find_host(s, n) = {x[n] : x \in FirstTable(s, hits)}
        /\ find_host(t, n) = {x[n] : x \in FirstTable(t, others)}
    BY DEF find_host
  <2> HIDE DEF hits, others
  <2>3. FirstTable(s, hits) = FirstTable(t, others)
    BY <1>2, <2>1
  <2>4. QED
    BY <2>2, <2>3
<1>4. ASSUME NEW a PROVE find_host_name_by_addr(s, a) = find_host_name_by_addr(t, a)
  <2> DEFINE hits == {j \in DOMAIN s : \E n \in DOMAIN s[j].map : s[j].map[n] = a}
             others == {j \in DOMAIN t : \E n \in DOMAIN t[j].map : t[j].map[n] = a}
             names(found) == UNION {{n \in DOMAIN x : x[n] = a} : x \in found}
  <2>1. hits = others /\ hits \in SUBSET (1 .. Len(s))
    BY <1>1
  <2>2. /\ find_host_name_by_addr(s, a) = names(FirstTable(s, hits))
        /\ find_host_name_by_addr(t, a) = names(FirstTable(t, others))
    BY DEF find_host_name_by_addr
  <2> HIDE DEF hits, others, names
  <2>3. FirstTable(s, hits) = FirstTable(t, others)
    BY <1>2, <2>1
  <2>4. QED
    BY <2>2, <2>3
<1>5. QED
  BY <1>3, <1>4

\* What has settled when a query comes is in its table when the query is answered:
\* the inspection it relies on began later than the save.
LEMMA SettledAgree ==
  ASSUME LocalInv, pc = "lookup", NEW i \in 1 .. Len(HostsFiles), Settled(PathOf(i))
  PROVE  Agrees(i)
<1>1. Trusted(i)
  BY DEF Settled, Trusted, Once, Usable
<1>2. PathOf(i) \in Paths
  BY Listings
<1>3. /\ saved[PathOf(i)] \in Nat /\ Interval \in Nat /\ Interval > 0
      /\ now \in Nat /\ asked \in 0 .. now /\ last_hosts_check \in 0 .. now
      /\ started \in 0 .. now
  BY <1>2, Times DEF LocalInv, Files, Clocks
<1>4. asked < last_hosts_check + Interval
  BY DEF LocalInv, Fresh, Prompt
<1>5. /\ saved[PathOf(i)] + Interval <= asked
      /\ saved[PathOf(i)] < started => started + Interval <= asked
  BY DEF Settled
<1>6. saved[PathOf(i)] < last_hosts_check /\ started < last_hosts_check
  BY <1>3, <1>4, <1>5
<1>7. Passed(i)
  BY <1>6 DEF Passed
<1>8. Followed(i)
  BY DEF LocalInv, Fresh
<1>9. QED
  BY <1>1, <1>7, <1>8 DEF Followed

\* The tables are those of the files when all of them have settled.
LEMMA SettledAnswers ==
  ASSUME LocalInv, pc = "lookup",
         \A i \in 1 .. Len(HostsFiles) : Settled(PathOf(i))
  PROVE  \A q : /\ NameAnswers(hosts, q) = NameAnswers(TablesOf(file), q)
               /\ ReverseAnswers(hosts, q) = ReverseAnswers(TablesOf(file), q)
<1> DEFINE t == TablesOf(file)
<1>1. /\ hosts \in Seq(HostTable)
      /\ Len(hosts) = Len(StaticTable) + Len(HostsFiles)
      /\ \A j \in 1 .. Len(StaticTable) : hosts[j] = StaticTable[j]
  BY DEF LocalInv, Tables
<1>2. ASSUME NEW i \in 1 .. Len(HostsFiles)
      PROVE  /\ file[PathOf(i)].version \in Contents
             /\ file[PathOf(i)].mtime \in Nat
  <2>1. PathOf(i) \in Paths /\ file[PathOf(i)].version # Missing
    BY Listings DEF Settled
  <2>2. QED
    BY <2>1 DEF LocalInv, Files
<1>3. /\ t \in Seq(HostTable) /\ Len(t) = Len(StaticTable) + Len(HostsFiles)
      /\ \A j \in 1 .. Len(StaticTable) : t[j] = StaticTable[j]
      /\ \A i \in 1 .. Len(HostsFiles) :
           t[Slot(i)] = [path  |-> PathOf(i),
                         map   |-> MapOf(file[PathOf(i)].version, i),
                         mtime |-> file[PathOf(i)].mtime]
  BY <1>2, TablesOfFiles
<1> HIDE DEF t
<1>4. ASSUME NEW j \in 1 .. Len(hosts) PROVE hosts[j].map = t[j].map
  <2>1. CASE j <= Len(StaticTable)
    <3>1. j \in 1 .. Len(StaticTable)
      BY <1>4, <2>1, Sizes
    <3>2. QED
      BY <1>1, <1>3, <3>1
  <2>2. CASE ~(j <= Len(StaticTable))
    <3>1. /\ j - Len(StaticTable) \in 1 .. Len(HostsFiles)
          /\ j = Len(StaticTable) + (j - Len(StaticTable))
      <4>1. Len(hosts) = Len(StaticTable) + Len(HostsFiles)
        BY <1>1
      <4>2. QED
        BY <1>4, <2>2, <4>1, Sizes
    <3>2. PICK i \in 1 .. Len(HostsFiles) : j = Slot(i)
      BY <3>1 DEF Slot
    <3>3. t[j] = [path  |-> PathOf(i),
                  map   |-> MapOf(file[PathOf(i)].version, i),
                  mtime |-> file[PathOf(i)].mtime]
      BY <1>3, <3>2
    <3>4. t[j].map = MapOf(file[PathOf(i)].version, i)
      BY <3>3
    <3>5. Agrees(i)
      BY SettledAgree
    <3>6. QED
      BY <3>2, <3>4, <3>5 DEF Agrees
  <2>3. QED
    BY <2>1, <2>2
<1>5. Len(hosts) = Len(t)
  BY <1>1, <1>3
<1>6. /\ \A n : find_host(hosts, n) = find_host(t, n)
      /\ \A a : find_host_name_by_addr(hosts, a) = find_host_name_by_addr(t, a)
  BY <1>1, <1>3, <1>4, <1>5, SameAnswers
<1>7. ASSUME NEW q PROVE NameAnswers(hosts, q) = NameAnswers(t, q)
  <2> DEFINE given(addrs) ==
        IF addrs = {} THEN {FilterAnswer(q)}
        ELSE {IF q.type = AddrType[FamilyOf[a]] THEN Address(a) ELSE Plain("NODATA") :
                a \in addrs}
  <2>1. /\ NameAnswers(hosts, q) = given(find_host(hosts, q.name))
        /\ NameAnswers(t, q) = given(find_host(t, q.name))
    BY DEF NameAnswers
  <2> HIDE DEF given
  <2>2. QED
    BY <1>6, <2>1
<1>8. ASSUME NEW q PROVE ReverseAnswers(hosts, q) = ReverseAnswers(t, q)
  BY <1>6 DEF ReverseAnswers
<1>9. QED
  BY <1>7, <1>8 DEF t

\* A query is answered as if the hosts files themselves had been searched, once
\* the files have settled: neither the throttle of update_hosts_files(), nor a save
\* between its stat() and its open(), nor one in the middle of its read leaves anything
\* older behind.
THEOREM AnswersFollow == Spec => AnswersFollowFiles
<1> DEFINE AsFiles == Answered /\ (\A i \in DOMAIN HostsFiles : Settled(HostsFiles[i].path))
                          => AnsweredFromFiles
<1>1. LocalInv /\ [Next]_vars => [AsFiles]_vars
  <2> SUFFICES ASSUME LocalInv, [Next]_vars, pc = "lookup", pc' = "idle",
                      \A i \in DOMAIN HostsFiles : Settled(HostsFiles[i].path)
               PROVE  answer' \in IF question.reverse
                                  THEN ReverseAnswers(TablesOf(file), question)
                                  ELSE NameAnswers(TablesOf(file), question)
    BY DEF Answered, AnsweredFromFiles
  <2>1. Lookup
    BY DEF Next, vars, server, add_entry, validate_runtime_inputs, initialize_hosts,
           process_local_query, update_hosts_files, StatFile, OpenFile, load_hosts_file,
           Tick,
           Save, Unlink, Changed
  <2>2. answer' \in IF question.reverse THEN ReverseAnswers(hosts, question)
                    ELSE NameAnswers(hosts, question)
    BY <2>1 DEF Lookup
  <2>3. \A i \in 1 .. Len(HostsFiles) : Settled(PathOf(i))
    BY Listings DEF PathOf
  <2>4. /\ NameAnswers(hosts, question) = NameAnswers(TablesOf(file), question)
        /\ ReverseAnswers(hosts, question) = ReverseAnswers(TablesOf(file), question)
    BY <2>3, SettledAnswers
  <2>5. QED
    BY <2>2, <2>4
<1>2. QED
  BY <1>1, LocalAlways, PTL DEF Spec, AnswersFollowFiles

-----------------------------------------------------------------------------
(***************************************************************************)
(* The filter: names, keys and rules.                                      *)
(***************************************************************************)

\* Prefixes and suffixes, label by label.
LEMMA PrefixMeans ==
  ASSUME NEW S, NEW s \in Seq(S), NEW t \in Seq(S)
  PROVE  IsPrefix(s, t) <=> /\ Len(s) <= Len(t)
                            /\ \A i \in 1 .. Len(s) : s[i] = t[i]
<1>1. Len(s) \in Nat /\ Len(t) \in Nat
  BY LenProperties
<1>2. SUFFICES ASSUME Len(s) <= Len(t)
               PROVE  SubSeq(s, 1, Len(s)) = SubSeq(t, 1, Len(s))
                        <=> \A i \in 1 .. Len(s) : s[i] = t[i]
  BY DEF IsPrefix
<1>3. \A i \in 1 .. Len(s) : s[i] \in S /\ t[i] \in S /\ 1 + i - 1 = i
  <2>1. ASSUME NEW i \in 1 .. Len(s) PROVE s[i] \in S /\ t[i] \in S /\ 1 + i - 1 = i
    <3>1. i \in 1 .. Len(t) /\ 1 + i - 1 = i
      BY <1>1, <1>2
    <3>2. QED
      BY <3>1, ElementOfSeq
  <2>2. QED
    BY <2>1
<1> DEFINE a == SubSeq(s, 1, Len(s))
           b == SubSeq(t, 1, Len(s))
           n == Len(s)
<1>4. /\ a \in Seq(S) /\ Len(a) = (IF 1 <= n THEN n - 1 + 1 ELSE 0)
      /\ \A i \in 1 .. n - 1 + 1 : a[i] = s[1 + i - 1]
  BY <1>1, <1>3, SubSeqProperties
<1>5. /\ b \in Seq(S) /\ Len(b) = (IF 1 <= n THEN n - 1 + 1 ELSE 0)
      /\ \A i \in 1 .. n - 1 + 1 : b[i] = t[1 + i - 1]
  BY <1>1, <1>3, SubSeqProperties
<1> HIDE DEF a, b
<1>6. n - 1 + 1 = n /\ (IF 1 <= n THEN n - 1 + 1 ELSE 0) = n
  BY <1>1
<1>7. /\ Len(a) = n /\ \A i \in 1 .. n : a[i] = s[i]
      /\ Len(b) = n /\ \A i \in 1 .. n : b[i] = t[i]
  BY <1>3, <1>4, <1>5, <1>6
<1>8. (\A i \in 1 .. n : a[i] = b[i]) => a = b
  BY <1>4, <1>5, <1>7, SeqEqual
<1>9. a = b <=> \A i \in 1 .. n : s[i] = t[i]
  BY <1>7, <1>8
<1>10. QED
  BY <1>9 DEF a, b

LEMMA ReverseMeans ==
  ASSUME NEW S, NEW s \in Seq(S)
  PROVE  /\ Reverse(s) \in Seq(S) /\ Len(Reverse(s)) = Len(s)
         /\ \A i \in 1 .. Len(s) : Reverse(s)[i] = s[Len(s) - i + 1]
<1> DEFINE n == Len(s)
<1>1. n \in Nat
  BY LenProperties
<1>2. ASSUME NEW i \in 1 .. n PROVE s[n - i + 1] \in S
  <2>1. n - i + 1 \in 1 .. n
    BY <1>1
  <2>2. QED
    BY <2>1, ElementOfSeq
<1> DEFINE r == [i \in 1 .. n |-> s[n - i + 1]]
<1>3. Reverse(s) = r
  BY DEF Reverse
<1>4. r \in [1 .. n -> S] /\ \A i \in 1 .. n : r[i] = s[n - i + 1]
  BY <1>2
<1> HIDE DEF r
<1>5. r \in Seq(S) /\ Len(r) = n
  <2> HIDE DEF n
  <2>1. QED
    BY <1>1, <1>4
<1>6. QED
  BY <1>3, <1>4, <1>5

LEMMA SuffixMeans ==
  ASSUME NEW S, NEW s \in Seq(S), NEW t \in Seq(S)
  PROVE  IsSuffix(s, t) <=> /\ Len(s) <= Len(t)
                            /\ \A i \in 1 .. Len(s) :
                                 s[Len(s) - i + 1] = t[Len(t) - i + 1]
<1> DEFINE a == Reverse(s)
           b == Reverse(t)
<1>1. /\ a \in Seq(S) /\ Len(a) = Len(s) /\ Len(s) \in Nat
      /\ \A i \in 1 .. Len(s) : a[i] = s[Len(s) - i + 1]
  BY ReverseMeans, LenProperties
<1>2. /\ b \in Seq(S) /\ Len(b) = Len(t) /\ Len(t) \in Nat
      /\ \A i \in 1 .. Len(t) : b[i] = t[Len(t) - i + 1]
  BY ReverseMeans, LenProperties
<1>3. IsSuffix(s, t) = IsPrefix(a, b)
  BY DEF IsSuffix
<1> HIDE DEF a, b
<1>4. IsPrefix(a, b) <=> Len(a) <= Len(b) /\ \A i \in 1 .. Len(a) : a[i] = b[i]
  BY <1>1, <1>2, PrefixMeans
<1>5. ASSUME Len(s) <= Len(t), NEW i \in 1 .. Len(s)
      PROVE  a[i] = s[Len(s) - i + 1] /\ b[i] = t[Len(t) - i + 1]
  <2>1. i \in 1 .. Len(t)
    BY <1>1, <1>2, <1>5
  <2>2. QED
    BY <1>1, <1>2, <2>1
<1>6. Len(s) <= Len(t) =>
        ((\A i \in 1 .. Len(s) : a[i] = b[i])
           <=> \A i \in 1 .. Len(s) : s[Len(s) - i + 1] = t[Len(t) - i + 1])
  BY <1>5
<1>7. Len(a) = Len(s) /\ Len(b) = Len(t)
  BY <1>1, <1>2
<1>8. QED
  BY <1>3, <1>4, <1>6, <1>7

\* The labels of names, with the star that is written for any of them (that it is
\* a string is nothing the provers know).
Label == STRING \cup {"*"}

\* What the buckets let a search reach of what a rule covers.
Reaches(rule, name) ==
  \/ Len(rule.name) > 1
  \/ Last(rule.name) \in KnownSuffixes
  \/ Len(name) <= 2
  \/ name[Len(name) - 1] = "*"
Reached(rule, name) == Covers(rule, name) /\ (rule.form \in Suffixed => Reaches(rule, name))

\* The key of a name, by its length and its last labels.
LEMMA KeyIs ==
  ASSUME NEW s \in Seq(Label), NEW n \in Nat, Len(s) = n, n > 0
  PROVE  domain_suffix_key(s) = IF s[n] \in KnownSuffixes THEN <<s[n]>>
                                ELSE IF n = 1 THEN <<"*", s[n]>> ELSE <<s[n - 1], s[n]>>
BY DEF domain_suffix_key, PlainSuffixKey, Last

\* A rule is written with a name of one label or more, none of which is a star.
IsName(s) == s \in Seq(Label) /\ s # <<>>

LEMMA NameHasLabels ==
  ASSUME NEW s, IsName(s)
  PROVE  s \in Seq(Label) /\ Len(s) \in Nat /\ Len(s) > 0 /\ DOMAIN s = 1 .. Len(s)
<1>1. Len(s) \in Nat \ {0} /\ DOMAIN s = 1 .. Len(s)
  BY EmptySeq, LenProperties DEF IsName
<1>2. QED
  BY <1>1 DEF IsName

LEMMA StarBefore ==
  ASSUME NEW s \in Seq(Label)
  PROVE  LET w == <<"*">> \o s IN
         /\ w \in Seq(Label) /\ Len(w) = Len(s) + 1 /\ w[1] = "*"
         /\ \A i \in 1 .. Len(s) : w[i + 1] = s[i]
<1>1. /\ <<"*">> \in Seq(Label) /\ Len(<<"*">>) = 1 /\ <<"*">>[1] = "*"
  <2>1. "*" \in Label
    BY DEF Label
  <2>2. QED
    BY <2>1, OneElement
<1> DEFINE star == <<"*">>
<1> HIDE DEF star
<1>2. /\ star \in Seq(Label) /\ Len(star) = 1 /\ star[1] = "*"
  BY <1>1 DEF star
<1>3. /\ star \o s \in Seq(Label) /\ Len(star \o s) = Len(star) + Len(s)
      /\ \A i \in 1 .. Len(star) + Len(s) :
           (star \o s)[i] = IF i <= Len(star) THEN star[i] ELSE s[i - Len(star)]
  BY <1>2, ConcatProperties
<1>4. Len(s) \in Nat
  BY LenProperties
<1>5. (star \o s)[1] = "*"
  BY <1>2, <1>3, <1>4
<1>6. ASSUME NEW i \in 1 .. Len(s) PROVE (star \o s)[i + 1] = s[i]
  <2>1. i + 1 \in 1 .. 1 + Len(s) /\ ~(i + 1 <= 1) /\ i + 1 - 1 = i
    BY <1>4
  <2>2. QED
    BY <1>2, <1>3, <2>1
<1>7. Len(star \o s) = Len(s) + 1
  BY <1>2, <1>3, <1>4
<1>8. QED
  BY <1>3, <1>5, <1>6, <1>7 DEF star

\* A wildcard has the key of its name.
LEMMA WrittenKey ==
  ASSUME NEW r, r.form \in Suffixed, IsName(r.name)
  PROVE  domain_suffix_key(Written(r)) = domain_suffix_key(r.name)
<1> DEFINE s == r.name
           n == Len(s)
<1>1. s \in Seq(Label) /\ n \in Nat /\ n > 0
  BY NameHasLabels
<1>2. CASE r.form = "exact"
  BY <1>2 DEF Written
<1>3. CASE r.form = "wildcard"
  <2> DEFINE w == <<"*">> \o s
  <2>1. Written(r) = w
    BY <1>3 DEF Written
  <2>2. /\ w \in Seq(Label) /\ Len(w) = n + 1 /\ w[1] = "*"
        /\ \A i \in 1 .. n : w[i + 1] = s[i]
    BY <1>1, StarBefore
  <2> HIDE DEF w, s, n
  <2>3. w[n + 1] = s[n] /\ (n = 1 => w[n] = "*") /\ (n # 1 => w[n] = s[n - 1])
    <3>1. n \in 1 .. n /\ (n # 1 => n - 1 \in 1 .. n /\ n - 1 + 1 = n)
      BY <1>1
    <3>2. QED
      BY <2>2, <3>1
  <2>4. domain_suffix_key(w) = IF w[n + 1] \in KnownSuffixes THEN <<w[n + 1]>>
                               ELSE <<w[n], w[n + 1]>>
    <3> DEFINE m == n + 1
    <3>1. m \in Nat /\ m > 0 /\ m # 1 /\ m - 1 = n
      BY <1>1
    <3>2. Len(w) = m
      BY <2>2
    <3> HIDE DEF m
    <3>3. domain_suffix_key(w) = IF w[m] \in KnownSuffixes THEN <<w[m]>>
                                 ELSE IF m = 1 THEN <<"*", w[m]>> ELSE <<w[m - 1], w[m]>>
      BY <2>2, <3>1, <3>2, KeyIs
    <3>4. QED
      BY <3>1, <3>3 DEF m
  <2>5. domain_suffix_key(s) = IF s[n] \in KnownSuffixes THEN <<s[n]>>
                               ELSE IF n = 1 THEN <<"*", s[n]>> ELSE <<s[n - 1], s[n]>>
    BY <1>1, KeyIs DEF n
  <2>6. domain_suffix_key(w) = domain_suffix_key(s)
    BY <2>3, <2>4, <2>5
  <2>7. QED
    BY <2>1, <2>6 DEF s
<1>4. QED
  BY <1>2, <1>3 DEF Suffixed

\* The name of the second search: the first label gives way to a star.
Starred(s) == <<"*">> \o Tail(s)

LEMMA StarredLabels ==
  ASSUME NEW s, IsName(s)
  PROVE  /\ IsName(Starred(s)) /\ Len(Starred(s)) = Len(s) /\ Starred(s)[1] = "*"
         /\ \A i \in 2 .. Len(s) : Starred(s)[i] = s[i]
<1> DEFINE n == Len(s)
           t == Tail(s)
<1>1. s \in Seq(Label) /\ s # <<>> /\ n \in Nat /\ n > 0
  BY NameHasLabels DEF IsName
<1>2. t \in Seq(Label) /\ Len(t) = n - 1 /\ \A i \in 1 .. Len(t) : t[i] = s[i + 1]
  BY <1>1, HeadTailProperties
<1> HIDE DEF n, t
<1>3. LET w == <<"*">> \o t IN
      /\ w \in Seq(Label) /\ Len(w) = Len(t) + 1 /\ w[1] = "*"
      /\ \A i \in 1 .. Len(t) : w[i + 1] = t[i]
  BY <1>2, StarBefore
<1>4. Starred(s) = <<"*">> \o t
  BY DEF Starred, t
<1> DEFINE w == <<"*">> \o t
<1> HIDE DEF w
<1>5. /\ w \in Seq(Label) /\ Len(w) = n /\ w[1] = "*"
      /\ \A i \in 1 .. n - 1 : w[i + 1] = t[i] /\ t[i] = s[i + 1]
  BY <1>1, <1>2, <1>3 DEF w
<1>6. ASSUME NEW i \in 2 .. n PROVE w[i] = s[i]
  <2>1. i - 1 \in 1 .. n - 1 /\ i - 1 + 1 = i
    BY <1>1
  <2>2. w[i - 1 + 1] = s[i - 1 + 1]
    BY <1>5, <2>1
  <2>3. QED
    BY <2>1, <2>2
<1>7. w # <<>>
  BY <1>1, <1>5
<1>8. QED
  BY <1>4, <1>5, <1>6, <1>7 DEF IsName, w, n

\* The last labels of a name and of a suffix of it are the same.
LEMMA SuffixLabels ==
  ASSUME NEW s, IsName(s), NEW t, IsName(t), IsSuffix(s, t)
  PROVE  /\ Len(s) <= Len(t) /\ s[Len(s)] = t[Len(t)]
         /\ Len(s) > 1 => s[Len(s) - 1] = t[Len(t) - 1]
<1> DEFINE n == Len(s)
           m == Len(t)
<1>1. s \in Seq(Label) /\ t \in Seq(Label) /\ n \in Nat /\ n > 0 /\ m \in Nat
  BY NameHasLabels
<1>2. n <= m /\ \A i \in 1 .. n : s[n - i + 1] = t[m - i + 1]
  BY <1>1, SuffixMeans
<1> HIDE DEF n, m
<1>3. 1 \in 1 .. n /\ n - 1 + 1 = n /\ m - 1 + 1 = m
  BY <1>1
<1>4. n > 1 => 2 \in 1 .. n /\ n - 2 + 1 = n - 1 /\ m - 2 + 1 = m - 1
  BY <1>1
<1>5. s[n] = t[m]
  BY <1>2, <1>3
<1>6. n > 1 => s[n - 1] = t[m - 1]
  BY <1>2, <1>4
<1>7. QED
  BY <1>2, <1>5, <1>6 DEF n, m

\* A rule that covers a name by its suffix is in the bucket of the first or of the
\* second search.
LEMMA CoveringIsReached ==
  ASSUME NEW r, IsName(r.name), NEW t, IsName(t), IsSuffix(r.name, t), Reaches(r, t)
  PROVE  \/ domain_suffix_key(t) = domain_suffix_key(r.name)
         \/ /\ Len(t) > 1 /\ IsSuffix(r.name, Starred(t))
            /\ domain_suffix_key(Starred(t)) = domain_suffix_key(r.name)
<1> DEFINE s == r.name
           n == Len(s)
           m == Len(t)
           w == Starred(t)
<1>1. /\ s \in Seq(Label) /\ n \in Nat /\ n > 0
      /\ t \in Seq(Label) /\ m \in Nat /\ m > 0
  BY NameHasLabels
<1>2. /\ n <= m /\ s[n] = t[m] /\ (n > 1 => s[n - 1] = t[m - 1])
  BY SuffixLabels
<1>3. /\ w \in Seq(Label) /\ Len(w) = m /\ w[1] = "*"
      /\ \A i \in 2 .. m : w[i] = t[i]
  BY StarredLabels DEF IsName
<1>4. n > 1 \/ s[n] \in KnownSuffixes \/ m <= 2 \/ t[m - 1] = "*"
  BY DEF Reaches, Last
<1>5. domain_suffix_key(s) = IF s[n] \in KnownSuffixes THEN <<s[n]>>
                             ELSE IF n = 1 THEN <<"*", s[n]>> ELSE <<s[n - 1], s[n]>>
  BY <1>1, KeyIs
<1>6. domain_suffix_key(t) = IF t[m] \in KnownSuffixes THEN <<t[m]>>
                             ELSE IF m = 1 THEN <<"*", t[m]>> ELSE <<t[m - 1], t[m]>>
  BY <1>1, KeyIs
<1> HIDE DEF w
<1>7. domain_suffix_key(w) = IF w[m] \in KnownSuffixes THEN <<w[m]>>
                             ELSE IF m = 1 THEN <<"*", w[m]>> ELSE <<w[m - 1], w[m]>>
  BY <1>1, <1>3, KeyIs
<1>8. SUFFICES ASSUME domain_suffix_key(t) # domain_suffix_key(s)
               PROVE  /\ m > 1 /\ IsSuffix(s, w)
                      /\ domain_suffix_key(w) = domain_suffix_key(s)
  BY DEF w
<1> HIDE DEF s, n, m
<1>9. n = 1 /\ m = 2 /\ ~(s[n] \in KnownSuffixes)
  <2>1. ~(s[n] \in KnownSuffixes)
    BY <1>2, <1>5, <1>6, <1>8
  <2>2. n = 1
    <3>1. SUFFICES ASSUME n # 1 PROVE FALSE
      OBVIOUS
    <3>2. n > 1 /\ m # 1
      BY <1>1, <1>2, <3>1
    <3>3. s[n - 1] = t[m - 1]
      BY <1>2, <3>2
    <3>4. QED
      BY <1>2, <1>5, <1>6, <1>8, <2>1, <3>1, <3>2, <3>3
  <2>3. domain_suffix_key(s) = <<"*", s[n]>>
    BY <1>5, <2>1, <2>2
  <2>4. m # 1
    BY <1>2, <1>6, <1>8, <2>1, <2>3
  <2>5. domain_suffix_key(t) = <<t[m - 1], s[n]>>
    BY <1>2, <1>6, <2>1, <2>4
  <2>6. ~(n > 1) /\ t[m - 1] # "*"
    BY <1>8, <2>2, <2>3, <2>5
  <2>7. m <= 2
    BY <1>4, <2>1, <2>6
  <2>8. QED
    BY <1>1, <2>1, <2>2, <2>4, <2>7
<1>10. w[2] = s[1] /\ w[1] = "*"
  <2>1. 2 \in 2 .. m
    BY <1>9
  <2>2. QED
    BY <1>2, <1>3, <1>9, <2>1
<1>11. domain_suffix_key(w) = domain_suffix_key(s)
  BY <1>5, <1>7, <1>9, <1>10
<1>12. IsSuffix(s, w)
  <2>1. /\ Len(s) <= Len(w)
        /\ \A i \in 1 .. Len(s) : s[Len(s) - i + 1] = w[Len(w) - i + 1]
    <3>1. Len(s) = 1 /\ Len(w) = 2
      BY <1>3, <1>9 DEF n
    <3>2. \A i \in 1 .. 1 : 1 - i + 1 = 1 /\ 2 - i + 1 = 2
      OBVIOUS
    <3>3. QED
      BY <1>10, <3>1, <3>2
  <2>2. QED
    BY <1>1, <1>3, <2>1, SuffixMeans
<1>13. QED
  BY <1>9, <1>11, <1>12

\* A rule that the first search finds covers the name.
LEMMA FirstSearchCovers ==
  ASSUME NEW r, IsName(r.name), NEW t, IsName(t), IsSuffix(r.name, t),
         domain_suffix_key(r.name) = domain_suffix_key(t)
  PROVE  Reaches(r, t)
<1> DEFINE s == r.name
           n == Len(s)
           m == Len(t)
<1>1. /\ s \in Seq(Label) /\ n \in Nat /\ n > 0
      /\ t \in Seq(Label) /\ m \in Nat /\ m > 0
  BY NameHasLabels
<1>2. n <= m /\ s[n] = t[m]
  BY SuffixLabels
<1>3. domain_suffix_key(s) = IF s[n] \in KnownSuffixes THEN <<s[n]>>
                             ELSE IF n = 1 THEN <<"*", s[n]>> ELSE <<s[n - 1], s[n]>>
  BY <1>1, KeyIs
<1>4. domain_suffix_key(t) = IF t[m] \in KnownSuffixes THEN <<t[m]>>
                             ELSE IF m = 1 THEN <<"*", t[m]>> ELSE <<t[m - 1], t[m]>>
  BY <1>1, KeyIs
<1>5. domain_suffix_key(s) = domain_suffix_key(t)
  OBVIOUS
<1>6. n > 1 \/ s[n] \in KnownSuffixes \/ m <= 2 \/ t[m - 1] = "*"
  <2> HIDE DEF s, n, m
  <2>1. SUFFICES ASSUME n = 1, ~(s[n] \in KnownSuffixes), ~(m <= 2)
                 PROVE  t[m - 1] = "*"
    BY <1>1
  <2>2. <<"*", s[n]>> = <<t[m - 1], t[m]>>
    BY <1>1, <1>2, <1>3, <1>4, <1>5, <2>1
  <2>3. QED
    BY <2>2
<1>7. QED
  BY <1>6 DEF Reaches, Last

\* So does a rule that the second search finds, whose name holds no star.
LEMMA SecondSearchCovers ==
  ASSUME NEW r, IsName(r.name), \A i \in DOMAIN r.name : r.name[i] # "*",
         NEW t, IsName(t), Len(t) > 1, IsSuffix(r.name, Starred(t)),
         domain_suffix_key(r.name) = domain_suffix_key(Starred(t))
  PROVE  IsSuffix(r.name, t) /\ Reaches(r, t)
<1> DEFINE s == r.name
           n == Len(s)
           m == Len(t)
           w == Starred(t)
<1>1. /\ s \in Seq(Label) /\ n \in Nat /\ n > 0 /\ DOMAIN s = 1 .. n
      /\ t \in Seq(Label) /\ m \in Nat /\ m > 1
  BY NameHasLabels
<1>2. /\ IsName(w) /\ w \in Seq(Label) /\ Len(w) = m /\ w[1] = "*"
      /\ \A i \in 2 .. m : w[i] = t[i]
  BY StarredLabels DEF IsName
<1>3. \A i \in 1 .. n : s[i] # "*"
  BY <1>1
<1>4. domain_suffix_key(s) = domain_suffix_key(w) /\ IsSuffix(s, w)
  OBVIOUS
<1> HIDE DEF w
<1>5. n <= m /\ \A i \in 1 .. n : s[n - i + 1] = w[m - i + 1]
  BY <1>1, <1>2, <1>4, SuffixMeans
<1>6. n < m
  <2> HIDE DEF s, n, m
  <2>1. SUFFICES ASSUME n = m PROVE FALSE
    BY <1>1, <1>5
  <2>2. n \in 1 .. n /\ n - n + 1 = 1
    BY <1>1
  <2>3. s[1] = w[1]
    BY <1>5, <2>1, <2>2
  <2>4. 1 \in 1 .. n
    BY <1>1
  <2>5. QED
    BY <1>2, <1>3, <2>3, <2>4
<1>7. ASSUME NEW i \in 1 .. n PROVE s[n - i + 1] = t[m - i + 1]
  <2> HIDE DEF s, n, m
  <2>1. m - i + 1 \in 2 .. m
    BY <1>1, <1>6
  <2>2. QED
    BY <1>2, <1>5, <2>1
<1>8. IsSuffix(s, t)
  BY <1>1, <1>5, <1>7, SuffixMeans
<1>9. s[n] = w[m]
  <2>1. IsName(s)
    OBVIOUS
  <2>2. s[Len(s)] = w[Len(w)]
    BY <1>2, <1>4, <2>1, SuffixLabels
  <2>3. QED
    BY <1>2, <2>2
<1>10. domain_suffix_key(s) = IF s[n] \in KnownSuffixes THEN <<s[n]>>
                              ELSE IF n = 1 THEN <<"*", s[n]>> ELSE <<s[n - 1], s[n]>>
  BY <1>1, KeyIs
<1>11. domain_suffix_key(w) = IF w[m] \in KnownSuffixes THEN <<w[m]>>
                              ELSE IF m = 1 THEN <<"*", w[m]>> ELSE <<w[m - 1], w[m]>>
  <2> HIDE DEF m
  <2>1. m > 0
    BY <1>1
  <2>2. QED
    BY <1>1, <1>2, <2>1, KeyIs
<1>12. n > 1 \/ s[n] \in KnownSuffixes \/ m <= 2 \/ t[m - 1] = "*"
  <2> HIDE DEF s, n, m
  <2>1. SUFFICES ASSUME n = 1, ~(s[n] \in KnownSuffixes), ~(m <= 2)
                 PROVE  t[m - 1] = "*"
    BY <1>1
  <2>2. <<"*", s[n]>> = <<w[m - 1], w[m]>>
    <3>1. domain_suffix_key(s) = <<"*", s[n]>>
      BY <1>10, <2>1
    <3>2. ~(w[m] \in KnownSuffixes) /\ m # 1
      BY <1>1, <1>9, <2>1
    <3>3. domain_suffix_key(w) = <<w[m - 1], w[m]>>
      BY <1>11, <3>2
    <3>4. QED
      BY <1>4, <3>1, <3>3
  <2>3. m - 1 \in 2 .. m
    BY <1>1, <2>1
  <2>4. w[m - 1] = t[m - 1]
    BY <1>2, <2>3
  <2>5. QED
    BY <2>2, <2>4
<1>13. Reaches(r, t)
  BY <1>12 DEF Reaches, Last
<1>14. QED
  BY <1>8, <1>13

-----------------------------------------------------------------------------
(***************************************************************************)
(* The filter: searches.                                                   *)
(***************************************************************************)

AreRules(list) == DOMAIN list \in SUBSET Nat /\ \A i \in DOMAIN list : IsRule(list[i])

LEMMA FirstKindIs ==
  ASSUME NEW kinds, NEW hits \in SUBSET Nat
  PROVE  /\ hits = {} => FirstKind(kinds, hits) = NORMAL
         /\ hits # {} => \E i \in hits : /\ FirstKind(kinds, hits) = kinds[i]
                                        /\ \A j \in hits : i <= j
<1>1. hits # {} => Min(hits) \in hits /\ \A j \in hits : Min(hits) <= j
  BY MinIsIn
<1>2. QED
  BY <1>1 DEF FirstKind

\* A search of a bucket finds a rule of it, if there is one that matches.
LEMMA BucketSearch ==
  ASSUME NEW list, AreRules(list), NEW hits \in SUBSET DOMAIN list
  PROVE  LET k == FirstKind(KindsOf(list), hits) IN
         /\ k # NORMAL <=> hits # {}
         /\ k # NORMAL => \E i \in hits : list[i].kind = k
<1>1. hits \in SUBSET Nat
  BY DEF AreRules
<1>2. \A i \in hits : KindsOf(list)[i] = list[i].kind
  BY DEF KindsOf
<1>3. \A i \in hits : list[i].kind # NORMAL
  BY DEF AreRules, IsRule, Kind, NORMAL
<1>4. QED
  BY <1>1, <1>2, <1>3, FirstKindIs

\* What a search of the rules of some forms is to give: the kind of one of them
\* that covers the name and is reached, and only if one is.
Gives(list, forms, name, k) ==
  k # NORMAL => \E i \in DOMAIN list : /\ list[i].form \in forms
                                      /\ Reached(list[i], name) /\ list[i].kind = k
Misses(list, forms, name) ==
  \A i \in DOMAIN list : list[i].form \in forms => ~Reached(list[i], name)

StarredSearch(list, name) ==
  IF Len(name) > 1 THEN FindSuffix(list, Starred(name)) ELSE NORMAL

LEMMA SuffixRule ==
  ASSUME NEW list, AreRules(list), NEW i \in DOMAIN list, list[i].form \in Suffixed
  PROVE  /\ IsName(list[i].name) /\ \A j \in DOMAIN list[i].name : list[i].name[j] # "*"
         /\ domain_suffix_key(Written(list[i])) = domain_suffix_key(list[i].name)
         /\ \A name : Reached(list[i], name) <=>
                       IsSuffix(list[i].name, name) /\ Reaches(list[i], name)
<1>1. /\ list[i].name \in Seq(STRING) /\ list[i].name # <<>>
      /\ \A j \in DOMAIN list[i].name : list[i].name[j] # "*"
  BY DEF AreRules, IsRule
<1>2. STRING \subseteq Label
  BY DEF Label
<1>3. list[i].name \in Seq(Label)
  BY <1>1, <1>2, SeqMonotonic
<1>4. IsName(list[i].name)
  BY <1>1, <1>3 DEF IsName
<1>5. domain_suffix_key(Written(list[i])) = domain_suffix_key(list[i].name)
  BY <1>4, WrittenKey
<1>6. ASSUME NEW name
      PROVE  Reached(list[i], name) <=>
               IsSuffix(list[i].name, name) /\ Reaches(list[i], name)
  BY DEF Reached, Covers, Suffixed
<1>7. QED
  BY <1>1, <1>4, <1>5, <1>6

LEMMA SuffixSearches ==
  ASSUME NEW list, AreRules(list), NEW name, IsName(name)
  PROVE  /\ Gives(list, Suffixed, name, FindSuffix(list, name))
         /\ Gives(list, Suffixed, name, StarredSearch(list, name))
         /\ FindSuffix(list, name) = NORMAL /\ StarredSearch(list, name) = NORMAL
              => Misses(list, Suffixed, name)
<1> DEFINE hits(t) == {i \in SuffixBucket(list, domain_suffix_key(t)) :
                         IsSuffix(list[i].name, t)}
<1>1. ASSUME NEW t
      PROVE  /\ hits(t) \in SUBSET DOMAIN list
             /\ FindSuffix(list, t) = FirstKind(KindsOf(list), hits(t))
             /\ \A i \in DOMAIN list :
                  i \in hits(t) <=> /\ list[i].form \in Suffixed
                                   /\ domain_suffix_key(Written(list[i])) = domain_suffix_key(t)
                                   /\ IsSuffix(list[i].name, t)
  BY DEF FindSuffix, SuffixBucket
<1> HIDE DEF hits
<1>2. ASSUME NEW t
      PROVE  /\ FindSuffix(list, t) # NORMAL <=> hits(t) # {}
             /\ FindSuffix(list, t) # NORMAL =>
                  \E i \in hits(t) : list[i].kind = FindSuffix(list, t)
  BY <1>1, BucketSearch
<1>3. ASSUME NEW i \in hits(name) PROVE list[i].form \in Suffixed /\ Reached(list[i], name)
  <2>1. /\ i \in DOMAIN list /\ list[i].form \in Suffixed
        /\ domain_suffix_key(Written(list[i])) = domain_suffix_key(name)
        /\ IsSuffix(list[i].name, name)
    BY <1>1
  <2>2. QED
    BY <2>1, SuffixRule, FirstSearchCovers
<1>4. ASSUME Len(name) > 1, NEW i \in hits(Starred(name))
      PROVE  list[i].form \in Suffixed /\ Reached(list[i], name)
  <2>1. /\ i \in DOMAIN list /\ list[i].form \in Suffixed
        /\ domain_suffix_key(Written(list[i])) = domain_suffix_key(Starred(name))
        /\ IsSuffix(list[i].name, Starred(name))
    BY <1>1
  <2>2. QED
    BY <1>4, <2>1, SuffixRule, SecondSearchCovers
<1>5. Gives(list, Suffixed, name, FindSuffix(list, name))
  BY <1>1, <1>2, <1>3 DEF Gives
<1>6. Gives(list, Suffixed, name, StarredSearch(list, name))
  BY <1>1, <1>2, <1>4 DEF Gives, StarredSearch
<1>7. ASSUME NEW i \in DOMAIN list, list[i].form \in Suffixed, Reached(list[i], name)
      PROVE  hits(name) # {} \/ (Len(name) > 1 /\ hits(Starred(name)) # {})
  <2>1. /\ IsName(list[i].name)
        /\ domain_suffix_key(Written(list[i])) = domain_suffix_key(list[i].name)
        /\ IsSuffix(list[i].name, name) /\ Reaches(list[i], name)
    BY <1>7, SuffixRule
  <2>2. \/ domain_suffix_key(name) = domain_suffix_key(list[i].name)
        \/ /\ Len(name) > 1 /\ IsSuffix(list[i].name, Starred(name))
           /\ domain_suffix_key(Starred(name)) = domain_suffix_key(list[i].name)
    BY <2>1, CoveringIsReached
  <2>3. i \in hits(name) \/ (Len(name) > 1 /\ i \in hits(Starred(name)))
    BY <1>1, <1>7, <2>1, <2>2
  <2>4. QED
    BY <2>3
<1>8. QED
  BY <1>2, <1>5, <1>6, <1>7 DEF Misses, StarredSearch

LEMMA PrefixSearch ==
  ASSUME NEW list, AreRules(list), NEW name, IsName(name)
  PROVE  /\ Gives(list, {"prefix"}, name, FindPrefix(list, name))
         /\ FindPrefix(list, name) = NORMAL => Misses(list, {"prefix"}, name)
<1>1. /\ name \in Seq(Label) /\ Len(name) \in Nat /\ Len(name) > 0
  BY NameHasLabels
<1>2. ASSUME NEW i \in DOMAIN list, list[i].form = "prefix"
      PROVE  /\ Reached(list[i], name) <=> IsPrefix(list[i].name, name) /\ Len(name) > 1
             /\ domain_prefix_key(Written(list[i])) = <<list[i].name[1]>>
             /\ IsPrefix(list[i].name, name) => list[i].name[1] = name[1]
  <2> DEFINE s == list[i].name
  <2>1. s \in Seq(STRING) /\ s # <<>>
    BY <1>2 DEF AreRules, IsRule
  <2>2. STRING \subseteq Label
    BY DEF Label
  <2>3. s \in Seq(Label)
    BY <2>1, <2>2, SeqMonotonic
  <2>4. Len(s) \in Nat /\ Len(s) > 0
    BY <2>1, <2>3, NameHasLabels DEF IsName
  <2>5. Written(list[i]) = Append(s, "*")
    BY <1>2 DEF Written
  <2>6. Reached(list[i], name) <=> IsPrefix(s, name) /\ Len(name) > 1
    BY <1>2 DEF Reached, Covers, Suffixed
  <2> HIDE DEF s
  <2>7. /\ Len(Append(s, "*")) = Len(s) + 1 /\ Append(s, "*")[1] = s[1]
    <3>1. "*" \in Label /\ 1 \in 1 .. Len(s)
      BY <2>4 DEF Label
    <3>2. QED
      BY <2>3, <2>4, <3>1
  <2>8. domain_prefix_key(Append(s, "*")) = <<s[1]>>
    BY <2>4, <2>7 DEF domain_prefix_key
  <2>9. IsPrefix(s, name) => s[1] = name[1]
    <3>1. 1 \in 1 .. Len(s)
      BY <2>4
    <3>2. QED
      BY <1>1, <2>3, <3>1, PrefixMeans
  <2>10. QED
    BY <2>5, <2>6, <2>8, <2>9 DEF s
<1>3. CASE Len(name) > 1
  <2> DEFINE key  == <<name[1]>>
             hits == {i \in PrefixBucket(list, key) : IsPrefix(list[i].name, name)}
             k    == FirstKind(KindsOf(list), hits)
  <2>1. FindPrefix(list, name) = k
    BY <1>3 DEF FindPrefix, domain_prefix_key
  <2>2. /\ hits \in SUBSET DOMAIN list
        /\ \A i \in DOMAIN list :
             i \in hits <=> /\ list[i].form = "prefix"
                           /\ domain_prefix_key(Written(list[i])) = key
                           /\ IsPrefix(list[i].name, name)
    BY DEF PrefixBucket
  <2> HIDE DEF hits
  <2>3. (k # NORMAL <=> hits # {}) /\ (k # NORMAL => \E i \in hits : list[i].kind = k)
    BY <2>2, BucketSearch
  <2>4. \A i \in DOMAIN list : i \in hits <=> list[i].form = "prefix" /\ Reached(list[i], name)
    BY <1>2, <1>3, <2>2
  <2> HIDE DEF k
  <2>5. QED
    BY <2>1, <2>2, <2>3, <2>4 DEF Gives, Misses
<1>4. CASE ~(Len(name) > 1)
  <2>1. FindPrefix(list, name) = NORMAL
    BY <1>4 DEF FindPrefix, domain_prefix_key
  <2>2. QED
    BY <1>2, <1>4, <2>1 DEF Gives, Misses
<1>5. QED
  BY <1>3, <1>4

LEMMA ListSearch ==
  ASSUME NEW list, AreRules(list), NEW name, NEW form \in {"middle", "regex"}
  PROVE  /\ Gives(list, {form}, name, FindIn(list, form, name))
         /\ FindIn(list, form, name) = NORMAL => Misses(list, {form}, name)
<1> DEFINE hits == {i \in OfForm(list, form) : name \in list[i].covers}
           k    == FirstKind(KindsOf(list), hits)
<1>1. FindIn(list, form, name) = k
  BY DEF FindIn
<1>2. /\ hits \in SUBSET DOMAIN list
      /\ \A i \in DOMAIN list : i \in hits <=> list[i].form = form /\ name \in list[i].covers
  BY DEF OfForm
<1> HIDE DEF hits
<1>3. (k # NORMAL <=> hits # {}) /\ (k # NORMAL => \E i \in hits : list[i].kind = k)
  BY <1>2, BucketSearch
<1>4. \A i \in DOMAIN list : list[i].form = form => (Reached(list[i], name) <=> name \in list[i].covers)
  BY DEF Reached, Covers, Suffixed
<1> HIDE DEF k
<1>5. QED
  BY <1>1, <1>2, <1>3, <1>4 DEF Gives, Misses

\* The ranks of the forms.
LEMMA Ranks ==
  ASSUME NEW r, IsRule(r)
  PROVE  /\ r.form \in Suffixed \/ r.form \in {"prefix"} \/ r.form \in {"middle"}
              \/ r.form \in {"regex"}
         /\ r.form \in Suffixed   => Rank[r.form] = 1
         /\ r.form \in {"prefix"} => Rank[r.form] = 2
         /\ r.form \in {"middle"} => Rank[r.form] = 3
         /\ r.form \in {"regex"}  => Rank[r.form] = 4
<1>1. r.form \in {"exact", "wildcard", "prefix", "middle", "regex"}
  BY DEF IsRule, Form, Rank
<1>2. /\ Rank["exact"] = 1 /\ Rank["wildcard"] = 1 /\ Rank["prefix"] = 2
      /\ Rank["middle"] = 3 /\ Rank["regex"] = 4
  BY DEF Rank
<1>3. QED
  BY <1>1, <1>2 DEF Suffixed

LEMMA RuleFound ==
  ASSUME NEW list, AreRules(list), NEW name, IsName(name)
  PROVE  find(list, name) \in Verdicts({r \in Range(list) : Reached(r, name)})
<1> DEFINE k1 == FindSuffix(list, name)
           k2 == StarredSearch(list, name)
           k3 == FindPrefix(list, name)
           k4 == FindIn(list, "middle", name)
           k5 == FindIn(list, "regex", name)
           kinds == <<k1, k2, k3, k4, k5>>
           hits  == {i \in DOMAIN kinds : kinds[i] # NORMAL}
           k     == FirstKind(kinds, hits)
           covering == {r \in Range(list) : Reached(r, name)}
           first    == {r \in covering : \A s \in covering : Rank[r.form] <= Rank[s.form]}
<1>0. SUFFICES find(list, name) \in Verdicts(covering)
  OBVIOUS
<1>1. find(list, name) = k
  BY DEF find, Searches, StarredSearch, Starred
<1>2. Verdicts(covering) = IF covering = {} THEN {NORMAL} ELSE {r.kind : r \in first}
  BY DEF Verdicts
<1>3. \A r : r \in covering <=> \E i \in DOMAIN list : r = list[i] /\ Reached(list[i], name)
  BY DEF Range
<1>4. /\ Gives(list, Suffixed, name, k1) /\ Gives(list, Suffixed, name, k2)
      /\ k1 = NORMAL /\ k2 = NORMAL => Misses(list, Suffixed, name)
  BY SuffixSearches
<1>5. Gives(list, {"prefix"}, name, k3) /\ (k3 = NORMAL => Misses(list, {"prefix"}, name))
  BY PrefixSearch
<1>6. Gives(list, {"middle"}, name, k4) /\ (k4 = NORMAL => Misses(list, {"middle"}, name))
  BY ListSearch
<1>7. Gives(list, {"regex"}, name, k5) /\ (k5 = NORMAL => Misses(list, {"regex"}, name))
  BY ListSearch
<1> HIDE DEF k1, k2, k3, k4, k5, covering
<1>8. /\ DOMAIN kinds = 1 .. 5 /\ kinds[1] = k1 /\ kinds[2] = k2 /\ kinds[3] = k3
      /\ kinds[4] = k4 /\ kinds[5] = k5
  OBVIOUS
<1> HIDE DEF kinds
<1>9. /\ hits \in SUBSET Nat
      /\ \A i : i \in hits <=> i \in 1 .. 5 /\ kinds[i] # NORMAL
  BY <1>8
<1> HIDE DEF hits
<1>10. /\ hits = {} => k = NORMAL
       /\ hits # {} => \E i \in hits : k = kinds[i] /\ \A j \in hits : i <= j
  BY <1>9, FirstKindIs
<1>11. ASSUME NEW r \in covering
       PROVE  /\ IsRule(r)
              /\ \A forms : Misses(list, forms, name) => ~(r.form \in forms)
  BY <1>3 DEF AreRules, Misses
<1>12. ASSUME NEW forms, NEW x, Gives(list, forms, name, x), x # NORMAL
       PROVE  \E r \in covering : r.form \in forms /\ r.kind = x
  BY <1>3, <1>12 DEF Gives
<1> HIDE DEF k
<1>13. CASE hits = {}
  <2>1. k1 = NORMAL /\ k2 = NORMAL /\ k3 = NORMAL /\ k4 = NORMAL /\ k5 = NORMAL
    BY <1>8, <1>9, <1>13
  <2>2. covering = {}
    BY <1>4, <1>5, <1>6, <1>7, <1>11, <2>1, Ranks
  <2>3. QED
    BY <1>1, <1>2, <1>10, <1>13, <2>2
<1>14. CASE hits # {}
  <2>1. PICK i \in hits : k = kinds[i] /\ \A j \in hits : i <= j
    BY <1>10, <1>14
  <2>2. i \in 1 .. 5 /\ kinds[i] # NORMAL
    BY <1>9
  <2>3. ASSUME NEW j \in 1 .. 5, j < i PROVE kinds[j] = NORMAL
    BY <1>9, <2>1, <2>2, <2>3
  <2>4. \A s \in covering : Rank[s.form] \in Nat /\ 1 <= Rank[s.form]
    BY <1>11, Ranks
  <2>5. SUFFICES \E r \in covering : r.kind = k /\ \A s \in covering : Rank[r.form] <= Rank[s.form]
    BY <1>1, <1>2
  <2>6. CASE i = 1 \/ i = 2
    <3>1. PICK r \in covering : r.form \in Suffixed /\ r.kind = k
      BY <1>4, <1>8, <1>12, <2>1, <2>2, <2>6
    <3>2. Rank[r.form] = 1
      BY <1>11, <3>1, Ranks
    <3>3. QED
      BY <2>4, <3>1, <3>2
  <2>7. CASE i = 3
    <3>1. PICK r \in covering : r.form \in {"prefix"} /\ r.kind = k
      BY <1>5, <1>8, <1>12, <2>1, <2>2, <2>7
    <3>2. Rank[r.form] = 2
      BY <1>11, <3>1, Ranks
    <3>3. k1 = NORMAL /\ k2 = NORMAL
      BY <1>8, <2>3, <2>7
    <3>4. \A s \in covering : ~(s.form \in Suffixed)
      BY <1>4, <1>11, <3>3
    <3>5. \A s \in covering : Rank[s.form] \in {2, 3, 4}
      BY <1>11, <3>4, Ranks
    <3>6. QED
      BY <3>1, <3>2, <3>5
  <2>8. CASE i = 4
    <3>1. PICK r \in covering : r.form \in {"middle"} /\ r.kind = k
      BY <1>6, <1>8, <1>12, <2>1, <2>2, <2>8
    <3>2. Rank[r.form] = 3
      BY <1>11, <3>1, Ranks
    <3>3. k1 = NORMAL /\ k2 = NORMAL /\ k3 = NORMAL
      BY <1>8, <2>3, <2>8
    <3>4. \A s \in covering : ~(s.form \in Suffixed) /\ ~(s.form \in {"prefix"})
      BY <1>4, <1>5, <1>11, <3>3
    <3>5. \A s \in covering : Rank[s.form] \in {3, 4}
      BY <1>11, <3>4, Ranks
    <3>6. QED
      BY <3>1, <3>2, <3>5
  <2>9. CASE i = 5
    <3>1. PICK r \in covering : r.form \in {"regex"} /\ r.kind = k
      BY <1>7, <1>8, <1>12, <2>1, <2>2, <2>9
    <3>2. Rank[r.form] = 4
      BY <1>11, <3>1, Ranks
    <3>3. k1 = NORMAL /\ k2 = NORMAL /\ k3 = NORMAL /\ k4 = NORMAL
      BY <1>8, <2>3, <2>9
    <3>4. \A s \in covering : ~(s.form \in Suffixed) /\ ~(s.form \in {"prefix"})
                             /\ ~(s.form \in {"middle"})
      BY <1>4, <1>5, <1>6, <1>11, <3>3
    <3>5. \A s \in covering : Rank[s.form] = 4
      BY <1>11, <3>4, Ranks
    <3>6. QED
      BY <3>1, <3>2, <3>5
  <2>10. QED
    BY <2>2, <2>6, <2>7, <2>8, <2>9
<1>15. QED
  BY <1>13, <1>14

\* What is not reached is missed.
LEMMA HiddenIsMissed ==
  ASSUME NEW r, IsRule(r), NEW name, IsName(name), Covers(r, name), ~Reached(r, name)
  PROVE  Missed(r, name)
<1>1. r.form \in Suffixed /\ ~Reaches(r, name)
  BY DEF Reached
<1>2. r.name \in Seq(STRING) /\ r.name # <<>>
  BY <1>1 DEF IsRule
<1>3. Len(r.name) \in Nat /\ Len(r.name) > 0 /\ Len(name) \in Nat
  BY <1>2, EmptySeq, LenProperties, NameHasLabels
<1>4. ~(Len(r.name) > 1) /\ ~(Last(r.name) \in KnownSuffixes) /\ ~(Len(name) <= 2)
  BY <1>1 DEF Reaches
<1>5. Len(r.name) = 1 /\ Len(name) > 2
  BY <1>3, <1>4
<1>6. QED
  BY <1>1, <1>4, <1>5 DEF Missed, Last

\* Whatever rules a configuration has, in whatever order, and whatever name is
\* asked for: the buckets of add_entry() and the keys of find() hide no rule but one of
\* a single label, and that from names two labels or more below it; they find no
\* rule that does not cover the name, and keep the precedence of the forms.
THEOREM FilterCorrect == Spec => []FilterFindsRule
<1>1. LocalInv => FilterFindsRule
  <2> SUFFICES ASSUME LocalInv, NEW n \in Names
               PROVE  \E hidden \in SUBSET {r \in Covering(domain_filter, n) : Missed(r, n)} :
                        find(domain_filter, n) \in Verdicts(Covering(domain_filter, n) \ hidden)
    BY DEF FilterFindsRule
  <2>1. rules \in Seq(Rules)
    BY DEF LocalInv, Shape
  <2>2. DOMAIN rules = 1 .. Len(rules) /\ Len(rules) \in Nat
        /\ \A i \in 1 .. Len(rules) : rules[i] \in Rules
    BY <2>1, LenProperties, ElementOfSeq
  <2>3. /\ DOMAIN domain_filter = 1 .. Len(rules)
        /\ \A i \in 1 .. Len(rules) : domain_filter[i] = RuleOf[rules[i]]
    BY <2>2 DEF domain_filter
  <2>4. \A r \in Rules : IsRule(RuleOf[r])
    BY ParametersAssumption
  <2>5. AreRules(domain_filter)
    BY <2>2, <2>3, <2>4 DEF AreRules
  <2>6. n \in Seq(STRING) /\ n # <<>>
    BY ParametersAssumption
  <2>7. STRING \subseteq Label
    BY DEF Label
  <2>8. IsName(n)
    BY <2>6, <2>7, SeqMonotonic DEF IsName
  <2>9. find(domain_filter, n) \in Verdicts({r \in Range(domain_filter) : Reached(r, n)})
    BY <2>5, <2>8, RuleFound
  <2> DEFINE covering == Covering(domain_filter, n)
             hidden == {r \in covering : ~Reached(r, n)}
  <2>10. ASSUME NEW r \in hidden PROVE Missed(r, n)
    <3>1. IsRule(r) /\ Covers(r, n) /\ ~Reached(r, n)
      BY <2>5 DEF Covering, Range, AreRules
    <3>2. QED
      BY <2>8, <3>1, HiddenIsMissed
  <2>11. covering \ hidden = {r \in Range(domain_filter) : Reached(r, n)}
    BY DEF Covering, Reached
  <2>12. hidden \in SUBSET {r \in covering : Missed(r, n)}
    BY <2>10
  <2> HIDE DEF hidden
  <2>13. QED
    BY <2>9, <2>11, <2>12
<1>2. QED
  BY <1>1, LocalAlways, PTL

=============================================================================
