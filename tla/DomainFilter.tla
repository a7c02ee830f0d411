---------------------------- MODULE DomainFilter ----------------------------
(***************************************************************************)
(* DomainFilter.cpp: the [filter] rules, kept in buckets by a key of their *)
(* name, and the search a query makes. A name is its sequence of labels in *)
(* lower case. A rule has a form, the name written in it, its kind and,    *)
(* when the engine decides (middle and regex rules), the names it matches; *)
(* a regex that fails at run time matches.                                 *)
(***************************************************************************)
EXTENDS Naturals, SequencesExt

KnownSuffixes == {"lan", "local"}
Suffixed == {"exact", "wildcard"}

NORMAL == "NORMAL"
Kind   == {"NXDOMAIN", "NODATA", "NODATA_AAAA"}

\* The last two labels, or the local suffix alone. A single label is looked up
\* as if any label stood before it.
\* Mutant: a local suffix is no key of its own.
PlainSuffixKey(name) == IF Len(name) = 1 THEN <<"*", name[1]>>
                        ELSE <<name[Len(name) - 1], name[Len(name)]>>
domain_suffix_key(name) ==
  IF Last(name) \in KnownSuffixes THEN <<Last(name)>> ELSE PlainSuffixKey(name)

\* A name of one label has no prefix key.
domain_prefix_key(name) == IF Len(name) > 1 THEN <<name[1]>> ELSE <<>>

-------------------------------------------------------------------------------
\* The text of a rule as the key sees it: *.name, name.* or the name.
Written(rule) == CASE rule.form = "wildcard" -> <<"*">> \o rule.name
                   [] rule.form = "prefix"   -> Append(rule.name, "*")
                   [] OTHER                  -> rule.name

\* A bucket, or the rules of a form, keeps the order in which add_entry() met them:
\* it is the set of their positions.
SuffixBucket(rules, key) ==
  {i \in DOMAIN rules : /\ rules[i].form \in Suffixed
                        /\ domain_suffix_key(Written(rules[i])) = key}
PrefixBucket(rules, key) ==
  {i \in DOMAIN rules : /\ rules[i].form = "prefix"
                        /\ domain_prefix_key(Written(rules[i])) = key}
OfForm(rules, form) == {i \in DOMAIN rules : rules[i].form = form}

\* The limits on the number of rules and of regular expressions.
\* Mutant: one rule too many.
HasRoomForOneMore(rules, rule, maxEntries, maxRegex) ==
  /\ Len(rules) <= maxEntries
  /\ rule.form = "regex" => Cardinality(OfForm(rules, "regex")) < maxRegex
HasRoomFor(rules, rule, maxEntries, maxRegex) ==
  /\ Len(rules) < maxEntries
  /\ rule.form = "regex" => Cardinality(OfForm(rules, "regex")) < maxRegex

\* The kind at the first of the positions that match, if one does.
FirstKind(kinds, hits) == IF hits = {} THEN NORMAL ELSE kinds[Min(hits)]
KindsOf(rules) == [i \in DOMAIN rules |-> rules[i].kind]

FindSuffix(rules, name) ==
  FirstKind(KindsOf(rules), {i \in SuffixBucket(rules, domain_suffix_key(name)) :
                               IsSuffix(rules[i].name, name)})
FindPrefix(rules, name) ==
  IF domain_prefix_key(name) = <<>> THEN NORMAL
  ELSE FirstKind(KindsOf(rules), {i \in PrefixBucket(rules, domain_prefix_key(name)) :
                                    IsPrefix(rules[i].name, name)})
FindIn(rules, form, name) ==
  FirstKind(KindsOf(rules), {i \in OfForm(rules, form) : name \in rules[i].covers})

\* The searches of find() in their order: the second one reaches the rules of a
\* single label, for the names with one label before it.
Searches(rules, name) ==
  <<FindSuffix(rules, name),
    IF Len(name) > 1 THEN FindSuffix(rules, <<"*">> \o Tail(name)) ELSE NORMAL,
    FindPrefix(rules, name),
    FindIn(rules, "middle", name), FindIn(rules, "regex", name)>>

find(rules, name) ==
  LET kinds == Searches(rules, name)
  IN  FirstKind(kinds, {i \in DOMAIN kinds : kinds[i] # NORMAL})

-------------------------------------------------------------------------------
(***************************************************************************)
(* The reference: what a rule covers, without keys or buckets.             *)
(***************************************************************************)

\* A suffix rule covers its name and every name below it.
Covers(rule, name) ==
  CASE rule.form \in Suffixed -> IsSuffix(rule.name, name)
    [] rule.form = "prefix"   -> IsPrefix(rule.name, name) /\ Len(name) > 1
    [] OTHER                  -> name \in rule.covers
Covering(rules, name) == {r \in Range(rules) : Covers(r, name)}

\* What find() is known to overlook: a name two labels or more below the name of a rule
\* of one label that is no local suffix.
Missed(rule, name) ==
  /\ rule.form \in Suffixed
  /\ Len(rule.name) = 1 /\ rule.name[1] \notin KnownSuffixes
  /\ Len(name) > 2

\* The kinds a search may find when these rules cover a name: those of the rules whose
\* form comes first.
Rank == [exact |-> 1, wildcard |-> 1, prefix |-> 2, middle |-> 3, regex |-> 4]
Verdicts(covering) ==
  LET first == {r \in covering : \A s \in covering : Rank[r.form] <= Rank[s.form]}
  IN  IF covering = {} THEN {NORMAL} ELSE {r.kind : r \in first}
=============================================================================
