---------------------------- MODULE LocalAnswer -----------------------------
(***************************************************************************)
(* process_local_query(): what BEHIND answers by itself, from the [hosts]  *)
(* entries, from hosts files that are read again while it runs, and from   *)
(* the [filter] rules. The files belong to other programs, which save or   *)
(* remove them between any two steps: between the stat() and the open() of *)
(* an inspection, and while the file is read. Questions have class IN and  *)
(* a name.                                                                 *)
(***************************************************************************)
EXTENDS DomainFilter, FiniteSets

CONSTANTS
  Paths,           \* hosts files
  HostsFiles,      \* the listed ones: a sequence of [path, suffix]
  StaticHosts,     \* the lines of the [hosts] section, with their suffix
  Versions,        \* what files may hold: pairs of a path and a version
  LinesOf,         \* version -> its lines
  Rewritten,       \* the files that are saved in place; others are replaced
  Torn,            \* lines that may be read where two versions meet
  Missing,         \* version of a file that is not there
  FamilyOf,        \* address -> "v4" or "v6"
  Names,           \* names there are
  Questions,       \* queries: pairs of a name and a type
  ReverseNames,    \* a function from names under in-addr.arpa to addresses
  BlockedReverse,  \* the reverse names under f.ip6.arpa
  Rules,           \* filter rules the configuration may have
  RuleOf,          \* rule -> its form, name, kind and the names it matches
  MaxEntries,      \* limit on their number
  MaxRegex,        \* limit on the regular expressions among them
  Interval,        \* HOSTS_CHECK_INTERVAL_MS, in ticks
  Second,          \* ticks of a second, the unit of st_mtime
  MaxNow,          \* bound: the clock stops there
  MaxSaves,        \* bound: changes to the files
  MaxMixed         \* bound: with more rules than that, time and the files stand still

Types    == {"A", "AAAA", "PTR", "MX", "unaccepted"}
AddrType == [v4 |-> "A", v6 |-> "AAAA"]

Listing  == [path : Paths, suffix : Seq(STRING)]
HostLine == [name : Seq(STRING), absolute : BOOLEAN, addr : DOMAIN FamilyOf, ok : BOOLEAN]

\* A rule and the name written in it: is_valid_domain() takes no empty name and
\* no star.
Form == DOMAIN Rank
IsRule(r) ==
  /\ r.kind \in Kind /\ r.form \in Form
  /\ r.form \in Suffixed \cup {"prefix"} =>
       /\ r.name \in Seq(STRING) \ {<<>>}
       /\ \A i \in DOMAIN r.name : r.name[i] # "*"

\* The files that are listed, at least one, have a path. A server starts with
\* valid versions of them, one of which a file that is gone is not.
ASSUME ParametersAssumption ==
  /\ Interval \in Nat \ {0} /\ Second \in Nat \ {0}
  /\ MaxEntries \in Nat /\ MaxRegex \in Nat /\ MaxNow \in Nat /\ MaxSaves \in Nat
  /\ MaxMixed \in Nat
  /\ HostsFiles \in Seq(Listing) \ {<<>>}
  /\ \A p \in Paths : p # ""
  /\ StaticHosts \in Seq(HostLine) /\ Torn \subseteq HostLine /\ Rewritten \subseteq Paths
  /\ \A v \in Versions : LinesOf[v[2]] \in Seq(HostLine)
  /\ \A v \in Versions : v = <<v[1], v[2]>> /\ v[1] \in Paths /\ v[2] # Missing
  /\ \A n \in Names : n \in Seq(STRING) \ {<<>>}
  /\ \A q \in Questions : q[1] \in Names /\ q[2] \in Types
  /\ \A r \in Rules : IsRule(RuleOf[r])

VARIABLES
  rules,             \* the filter rules, in the order of the file
  hosts,             \* the tables: the static one, then one for each file
  last_hosts_check,
  pc,                \* where the server is
  scan,              \* the file that is being inspected
  st_mtime,          \* what stat() said of it
  reading,           \* what the reader of the open file gives until its end
  question,          \* the query being answered
  answer,            \* the answer to the last query
  now,               \* clock, in ticks
  file,              \* path -> version and mtime
  asked,             \* when the query being answered came (history)
  started,           \* when the server began to serve (history)
  saves,             \* changes so far (history)
  saved,             \* path -> when the file was last changed (history)
  newer,             \* path -> is it later than every earlier version (history)
  newest,            \* path -> the latest mtime it ever had (history)
  versions           \* path -> versions it ever had (history)

server  == <<rules, hosts, last_hosts_check, pc, scan, st_mtime, reading,
             question, answer, asked, started>>
history == <<saves, saved, newer, newest, versions>>
vars    == <<server, now, file, history>>

-------------------------------------------------------------------------------
\* A name of a hosts file is completed by the suffix unless it ends with a dot.
make_host_name(line, suffix) ==
  IF line.absolute THEN line.name ELSE line.name \o suffix

\* One bad line makes the whole file invalid.
Valid(lines) == \A i \in DOMAIN lines : lines[i].ok

\* A later line for a name replaces an earlier one.
parse_hosts_file_data(lines, suffix) ==
  [n \in {make_host_name(lines[i], suffix) : i \in DOMAIN lines} |->
     LET last == CHOOSE i \in DOMAIN lines :
                   /\ make_host_name(lines[i], suffix) = n
                   /\ \A j \in DOMAIN lines :
                        make_host_name(lines[j], suffix) = n => j <= i
     IN  lines[last].addr]

Table(path, lines, suffix, mtime) ==
  [path |-> path, map |-> parse_hosts_file_data(lines, suffix), mtime |-> mtime]

\* initialize_hosts(): the static table, if any, has no path.
StaticTable ==
  IF StaticHosts = <<>> THEN <<>> ELSE <<Table("", StaticHosts, <<>>, 0)>>

\* The tables that hold what the files fs hold.
TablesOf(fs) ==
  StaticTable \o
  [i \in DOMAIN HostsFiles |->
     Table(HostsFiles[i].path, LinesOf[fs[HostsFiles[i].path].version],
           HostsFiles[i].suffix, fs[HostsFiles[i].path].mtime)]

\* The first table of a path: a file listed twice is looked up once.
IndexOf(path) == Min({i \in DOMAIN hosts : hosts[i].path = path})

\* The addresses, and the names of an address, in the first table that has any;
\* the order of the names within a table is that of a hash map.
FirstTable(tables, hits) == IF hits = {} THEN {} ELSE {tables[Min(hits)].map}
find_host(tables, n) ==
  {t[n] : t \in FirstTable(tables, {i \in DOMAIN tables : n \in DOMAIN tables[i].map})}
find_host_name_by_addr(tables, a) ==
  UNION {{n \in DOMAIN t : t[n] = a} :
           t \in FirstTable(tables, {i \in DOMAIN tables :
                                       \E n \in DOMAIN tables[i].map :
                                         tables[i].map[n] = a})}

-------------------------------------------------------------------------------
\* Its lines, how many of them it has got, and whether saves still reach it.
NotReading == [lines |-> <<>>, got |-> 0, shared |-> FALSE]

NoQuestion == [name |-> <<>>, type |-> "A", reverse |-> FALSE]
Address(a) == <<"address", a>>
Name(n)    == <<"name", n>>
Plain(k)   == <<k>>

\* What follows a name that no table has: the filter, then the cache and the
\* forwarders, which "passed" stands for.
domain_filter == [i \in DOMAIN rules |-> RuleOf[rules[i]]]
FilterAnswer(q) ==
  LET kind == find(domain_filter, q.name)
  IN  CASE kind = "NXDOMAIN" -> Plain("NXDOMAIN")
        [] \/ kind = "NODATA"
           \/ kind = "NODATA_AAAA" /\ q.type = "AAAA" -> Plain("NODATA")
        [] OTHER -> Plain("passed")

\* A name of a table is answered from it, with no data for the other types.
NameAnswers(tables, q) ==
  LET addrs == find_host(tables, q.name) IN
  IF addrs = {} THEN {FilterAnswer(q)}
  ELSE {IF q.type = AddrType[FamilyOf[a]] THEN Address(a) ELSE Plain("NODATA") :
          a \in addrs}

\* The name of an address; a reverse name of the unique local range that has
\* none does not exist. Otherwise no answer yet.
ReverseAnswers(tables, q) ==
  LET names == find_host_name_by_addr(tables, ReverseNames[q.name]) IN
  IF names # {} THEN {Name(n) : n \in names}
  ELSE IF q.name \in BlockedReverse THEN {Plain("NXDOMAIN")} ELSE {}

-------------------------------------------------------------------------------
Init ==
  /\ rules = <<>>
  /\ file \in [Paths -> [version : {v[2] : v \in Versions}, mtime : {0}]]
  /\ \A p \in Paths : /\ <<p, file[p].version>> \in Versions
                      /\ Valid(LinesOf[file[p].version])
  /\ hosts = <<>>
  /\ versions = [p \in Paths |-> {file[p].version}]
  /\ last_hosts_check = 0
  /\ pc = "options"
  /\ scan = 1 /\ st_mtime = 0 /\ reading = NotReading
  /\ question = NoQuestion /\ answer = Plain("none")
  /\ now = 0 /\ asked = 0 /\ started = 0 /\ saves = 0
  /\ saved = [p \in Paths |-> 0]
  /\ newer = [p \in Paths |-> TRUE]
  /\ newest = [p \in Paths |-> 0]

\* add_entry(): one line of the [filter] section.
add_entry(rule) ==
  /\ pc = "options"
  /\ HasRoomFor(domain_filter, RuleOf[rule], MaxEntries, MaxRegex)
  /\ rules' = Append(rules, rule)
  /\ UNCHANGED <<hosts, last_hosts_check, pc, scan, st_mtime, reading, question,
                 answer, asked, started, now, file, history>>

\* The options are complete: validate_runtime_inputs() reads the hosts files.
validate_runtime_inputs ==
  /\ pc = "options"
  /\ pc' = "start"
  /\ hosts' = TablesOf(file)
  /\ UNCHANGED <<rules, last_hosts_check, scan, st_mtime, reading, question, answer,
                 asked, started, now, file, history>>

\* initialize_hosts() takes the tables the validation made a while ago.
initialize_hosts ==
  /\ pc = "start"
  /\ pc' = "idle"
  /\ last_hosts_check' = now
  /\ started' = now
  /\ UNCHANGED <<rules, hosts, scan, st_mtime, reading, question, answer, asked,
                 now, file, history>>

\* The answers that need no table: a type that is not accepted has no data, and a
\* reverse name of the unique local range that is no address does not exist.
AtOnce(n, type) ==
  CASE type = "unaccepted" -> {Plain("NODATA")}
    [] type = "PTR" /\ n \in BlockedReverse \ DOMAIN ReverseNames ->
         {Plain("NXDOMAIN")}
    [] OTHER -> {}

\* A query comes.
process_local_query(n, type) ==
  /\ pc = "idle"
  /\ IF AtOnce(n, type) # {}
     THEN answer' \in AtOnce(n, type) /\ UNCHANGED <<pc, question, asked>>
     ELSE /\ pc' = "check"
          /\ answer' = Plain("none")
          /\ asked' = now
          /\ question' = [name |-> n, type |-> type,
                          reverse |-> type = "PTR" /\ n \in DOMAIN ReverseNames]
  /\ UNCHANGED <<rules, hosts, last_hosts_check, scan, st_mtime, reading, started,
                 now, file, history>>

\* update_hosts_files() inspects the files once an interval.
update_hosts_files ==
  /\ pc = "check"
  /\ IF now - last_hosts_check < Interval
     THEN pc' = "lookup" /\ UNCHANGED last_hosts_check
     ELSE pc' = "stat" /\ last_hosts_check' = now
  /\ UNCHANGED <<rules, hosts, scan, st_mtime, reading, question, answer, asked,
                 started, now, file, history>>

NextFile ==
  /\ st_mtime' = 0
  /\ IF scan < Len(HostsFiles) THEN pc' = "stat" /\ scan' = scan + 1
                               ELSE pc' = "lookup" /\ scan' = 1

\* stat() of the next file: it is read if it has a later mtime than its table.
\* A path always has a table: a server only starts with valid files.
StatFile ==
  LET path == HostsFiles[scan].path IN
  /\ pc = "stat"
  /\ IF /\ file[path].version # Missing
        /\ hosts[IndexOf(path)].mtime < file[path].mtime
     THEN pc' = "load" /\ st_mtime' = file[path].mtime /\ UNCHANGED scan
     ELSE NextFile
  /\ UNCHANGED <<rules, hosts, last_hosts_check, reading, question, answer, asked,
                 started, now, file, history>>

\* load_hosts_file() opens what is there now; without a file the previous data stay.
OpenFile ==
  LET path == HostsFiles[scan].path IN
  /\ pc = "load"
  /\ IF file[path].version = Missing
     THEN NextFile /\ UNCHANGED reading
     ELSE /\ pc' = "read"
          /\ reading' = [lines |-> LinesOf[file[path].version], got |-> 0,
                         shared |-> path \in Rewritten]
          /\ UNCHANGED <<scan, st_mtime>>
  /\ UNCHANGED <<rules, hosts, last_hosts_check, question, answer, asked, started,
                 now, file, history>>

\* Its end: the lines read become the table, under the mtime stat() gave, if all of
\* them are valid.
\* Mutants: an invalid file is loaded; the table gets the mtime of the end.
LoadedAnyhow(lines) == TRUE
Loaded(lines) == Valid(lines)
MtimeAtEnd(path) == file[path].mtime
TableMtime(path) == st_mtime
load_hosts_file ==
  LET entry == HostsFiles[scan] IN
  /\ pc = "read"
  /\ hosts' = IF Loaded(reading.lines)
              THEN [hosts EXCEPT ![IndexOf(entry.path)] =
                      Table(entry.path, reading.lines, entry.suffix, TableMtime(entry.path))]
              ELSE hosts
  /\ reading' = NotReading
  /\ NextFile
  /\ UNCHANGED <<rules, last_hosts_check, question, answer, asked, started, now,
                 file, history>>

\* The lookups that follow update_hosts_files(): by address first if the name is
\* a reverse one, and then, after another check, by name.
Lookup ==
  LET answers == IF question.reverse THEN ReverseAnswers(hosts, question)
                                     ELSE NameAnswers(hosts, question)
  IN
  /\ pc = "lookup"
  /\ IF answers = {}
     THEN /\ pc' = "check"
          /\ question' = [question EXCEPT !.reverse = FALSE]
          /\ UNCHANGED <<answer, asked>>
     ELSE /\ pc' = "idle"
          /\ answer' \in answers
          /\ question' = NoQuestion
          /\ asked' = 0
  /\ UNCHANGED <<rules, hosts, last_hosts_check, scan, st_mtime, reading, started,
                 now, file, history>>

-------------------------------------------------------------------------------
(***************************************************************************)
(* The environment: the clock, and the programs that edit the files. What  *)
(* they do before the validation is the choice of the initial files.       *)
(***************************************************************************)
Tick == /\ pc # "options"
        /\ now < MaxNow /\ Len(rules) <= MaxMixed
        /\ now' = now + 1
        /\ UNCHANGED <<server, file, history>>

Changed(p, v, mtime) ==
  /\ pc # "options"
  /\ saves < MaxSaves /\ Len(rules) <= MaxMixed
  /\ saves' = saves + 1
  /\ file' = [file EXCEPT ![p] = [version |-> v, mtime |-> mtime]]
  /\ saved' = [saved EXCEPT ![p] = now]
  /\ UNCHANGED <<rules, hosts, last_hosts_check, pc, scan, st_mtime, question, answer,
                 asked, started, now>>

\* A file that is written over while the server reads it: the lines it has got stay,
\* what follows is an end of the new lines, and where they meet a line may be torn.
BeingRead(p) == pc = "read" /\ HostsFiles[scan].path = p /\ reading.shared
Overwritten(lines) ==
  \E k \in reading.got .. Len(reading.lines), j \in 1 .. Len(lines) + 1,
     t \in {<<>>} \cup {<<l>> : l \in Torn} :
    reading' = [lines |-> SubSeq(reading.lines, 1, k) \o t \o SubSeq(lines, j, Len(lines)),
                got |-> k + Len(t), shared |-> TRUE]

\* A save gives the current second; a copy that keeps its time, an earlier one. To
\* truncate a file before it is written is to save a version without lines.
Save(p) ==
  \E v \in Versions, m \in 0 .. (now \div Second) :
    /\ v[1] = p
    /\ Changed(p, v[2], m)
    /\ IF BeingRead(p) THEN Overwritten(LinesOf[v[2]]) ELSE UNCHANGED reading
    /\ newer' = [newer EXCEPT ![p] = m > newest[p]]
    /\ newest' = [newest EXCEPT ![p] = IF m > @ THEN m ELSE @]
    /\ versions' = [versions EXCEPT ![p] = @ \cup {v[2]}]

\* The reader keeps what was unlinked, which no save reaches any more.
Unlink(p) ==
  /\ file[p].version # Missing
  /\ Changed(p, Missing, 0)
  /\ IF BeingRead(p)
     THEN reading' = [lines |-> reading.lines, got |-> reading.got, shared |-> FALSE]
     ELSE UNCHANGED reading
  /\ UNCHANGED <<newer, newest, versions>>

Next ==
  \/ \E r \in Rules : add_entry(r)
  \/ validate_runtime_inputs
  \/ initialize_hosts
  \/ \E q \in Questions : process_local_query(q[1], q[2])
  \/ update_hosts_files
  \/ StatFile
  \/ OpenFile
  \/ load_hosts_file
  \/ Lookup
  \/ Tick
  \/ \E p \in Paths : Save(p) \/ Unlink(p)

Spec == Init /\ [][Next]_vars

-------------------------------------------------------------------------------
TypeOK ==
  /\ rules \in Seq(Rules) /\ Len(rules) <= MaxEntries
  /\ pc # "options" => Len(hosts) = Len(StaticTable) + Len(HostsFiles)
  /\ last_hosts_check \in 0 .. now
  /\ pc \in {"options", "start", "idle", "check", "stat", "load", "read",
            "lookup"}
  /\ scan \in DOMAIN HostsFiles
  /\ st_mtime \in 0 .. (now \div Second)
  /\ reading.got \in 0 .. Len(reading.lines) /\ (pc # "read" => reading = NotReading)
  /\ question.name \in Names \cup {<<>>} /\ question.type \in Types
  /\ \A p \in Paths : /\ \/ file[p].version = Missing
                         \/ <<p, file[p].version>> \in Versions
                      /\ file[p].mtime \in 0 .. newest[p]

\* Whatever buckets the rules went to, find() gives a name the kind of a rule that
\* covers it, of the first form that has one, and NORMAL when none does: the one rule it
\* may pass over is one that it misses, a single label for a name further below.
FilterFindsRule ==
  pc = "start" => \A n \in Names :
    \E hidden \in SUBSET {r \in Covering(domain_filter, n) : Missed(r, n)} :
      find(domain_filter, n) \in Verdicts(Covering(domain_filter, n) \ hidden)

\* A rule without a star filters its name and all its sub domains, as the README says
\* of it (147-148).
SubdomainsAreFiltered ==
  pc = "start" => \A n \in Names :
    (\E r \in Range(domain_filter) : r.form = "exact" /\ IsSuffix(r.name, n))
      => find(domain_filter, n) # NORMAL

\* The paths listed once: a second listing has a table that is never read again.
ListedOnce == {p \in Paths : Cardinality({i \in DOMAIN HostsFiles :
                                            HostsFiles[i].path = p}) = 1}

\* The table of a file that is replaced is never torn, emptied or mixed with another one:
\* it holds, with the suffix of its listing, some version of its file that was valid,
\* however broken the file is now (update_hosts_files() keeps the previous data). Of a
\* file that is rewritten in place no such thing is true: no stat() follows the read, so
\* its table may be a mixture, or empty, until a later inspection finds a later mtime.
TablesAreVersions ==
  pc # "options" => \A i \in DOMAIN HostsFiles :
    LET p == HostsFiles[i].path IN
    p \in ListedOnce \ Rewritten =>
      \E v \in versions[p] :
        /\ Valid(LinesOf[v])
        /\ hosts[IndexOf(p)].map =
             parse_hosts_file_data(LinesOf[v], HostsFiles[i].suffix)

\* A file that is valid, has not changed for an interval when the query comes, and was
\* last saved in a later second than its earlier versions; a file changed before the
\* server began to serve waits for its first check.
Settled(p) ==
  /\ p \in ListedOnce
  /\ file[p].version # Missing /\ Valid(LinesOf[file[p].version])
  /\ newer[p]
  /\ saved[p] + Interval <= asked
  /\ saved[p] < started => started + Interval <= asked

\* The query that is answered is answered as if the files themselves were searched.
AnsweredFromFiles ==
  LET tables == TablesOf(file)
  IN  answer' \in IF question.reverse THEN ReverseAnswers(tables, question)
                  ELSE NameAnswers(tables, question)
Answered == pc = "lookup" /\ pc' = "idle"

\* When every file has settled, a query is answered from what the files hold: neither the
\* throttle, nor a save between stat() and open(), nor one in the middle of the read of a
\* file that is rewritten in place leaves anything older behind.
AnswersFollowFiles ==
  [][Answered /\ (\A i \in DOMAIN HostsFiles : Settled(HostsFiles[i].path))
       => AnsweredFromFiles]_vars
=============================================================================
