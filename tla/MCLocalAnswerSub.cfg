SPECIFICATION Spec
CONSTANTS
  p1 = p1  p2 = p2
  Paths = {p1, p2}
  HostsFiles <- MCFiles
  StaticHosts <- MCStatic
  Versions <- MCVersions
  LinesOf <- MCLinesOf
  Rewritten = {p2}
  Torn <- MCTorn
  FamilyOf <- MCFamilyOf
  Missing = Missing
  Names <- MCNames
  Questions <- MCQuestions
  ReverseNames <- MCReverseNames
  BlockedReverse <- MCBlocked
  Rules <- MCRules
  RuleOf <- MCRuleOf
  MaxEntries = 1
  MaxRegex = 1
  Interval = 2
  Second = 2
  MaxNow = 0
  MaxSaves = 0
  MaxMixed = 0
INVARIANT
  SubdomainsAreFiltered
