---------------------------- MODULE MCLocalAnswer ---------------------------
(***************************************************************************)
(* Values of the constants of LocalAnswer for model checking.              *)
(***************************************************************************)
EXTENDS LocalAnswer

CONSTANTS p1, p2

MCFamilyOf == [a \in {"a4", "b4", "c4", "a6"} |-> IF a = "a6" THEN "v6" ELSE "v4"]

Line(name, addr) == [name |-> name, absolute |-> FALSE, addr |-> addr, ok |-> TRUE]

printer == <<"printer", "lan">>
nas     == <<"nas", "lan">>
desk    == <<"desk", "net", "org">>
reverse == <<"1", "10", "arpa">>
stray   == <<"2", "10", "arpa">>
unique  == <<"f", "ip6", "arpa">>
partial == <<"x", "f", "ip6", "arpa">>

\* The static entry, and two files with their suffixes.
MCStatic == <<Line(nas, "b4")>>
MCFiles  == <<[path |-> p1, suffix |-> <<"lan">>], [path |-> p2, suffix |-> <<"net", "org">>]>>

\* The first file is replaced: one that also claims the name of the static entry, and one
\* whose last line is broken. The second one is truncated and written again.
MCVersions == {<<p1, "valid">>, <<p1, "broken">>,
               <<p2, "plain">>, <<p2, "moved">>, <<p2, "truncated">>}
MCLinesOf ==
  [v \in {"valid", "broken", "plain", "moved", "truncated"} |->
     CASE v = "valid"  -> <<Line(<<"printer">>, "a4"), Line(<<"nas">>, "a4"),
                            Line(<<"printer">>, "a6")>>
       [] v = "broken" -> <<Line(<<"nas">>, "a4"),
                            [Line(<<"nas">>, "a6") EXCEPT !.ok = FALSE]>>
       [] v = "plain"  -> <<[Line(printer, "b4") EXCEPT !.absolute = TRUE],
                            Line(<<"desk">>, "c4")>>
       [] v = "moved"  -> <<Line(<<"desk">>, "a6"), Line(<<"door">>, "c4")>>
       [] v = "truncated" -> <<>>]

\* Where two versions of it meet, a line of the one may end like a line of the other.
MCTorn == {Line(<<"desk">>, "c4"), [Line(<<"do">>, "c4") EXCEPT !.ok = FALSE]}

\* The reverse names of the printer, of nobody and of a unique local address; a
\* partial one is the name of no address.
MCReverseNames ==
  [n \in {reverse, stray, unique} |->
     CASE n = reverse -> "a4" [] n = stray -> "c4" [] n = unique -> "a6"]
MCBlocked == {unique, partial}

MCNames == {printer, nas, reverse, stray, unique, partial, <<"zip">>, <<"a", "zip">>,
            <<"ad", "net", "org">>, <<"net", "org">>, <<"x", "ad", "net", "org">>,
            <<"b", "a", "zip">>, desk, <<"x", "printer", "lan">>, <<"x", "*", "zip">>}

MCQuestions == {<<printer, "A">>, <<desk, "AAAA">>, <<stray, "PTR">>, <<unique, "PTR">>,
                <<nas, "unaccepted">>, <<partial, "PTR">>}

Rule(form, name, kind, covers) ==
  [form |-> form, name |-> name, kind |-> kind, covers |-> covers]

\* A rule of each form, with names that share a key, and single labels.
MCRules == {"org", "ads", "lan", "zip", "prefix", "middle", "regex"}
MCRuleOf ==
  [r \in MCRules |->
     CASE r = "org" -> Rule("exact", <<"net", "org">>, "NODATA_AAAA", {})
       [] r = "ads" -> Rule("wildcard", <<"ad", "net", "org">>, "NXDOMAIN", {})
       [] r = "lan" -> Rule("exact", <<"lan">>, "NXDOMAIN", {})
       [] r = "zip" -> Rule("exact", <<"zip">>, "NODATA", {})
       [] r = "prefix" -> Rule("prefix", <<"ad", "net">>, "NODATA", {})
       [] r = "middle" ->
            Rule("middle", <<>>, "NODATA", {<<"a", "zip">>, <<"net", "org">>, desk})
       [] r = "regex" ->
            Rule("regex", <<>>, "NXDOMAIN", {stray, <<"net", "org">>})]
=============================================================================
