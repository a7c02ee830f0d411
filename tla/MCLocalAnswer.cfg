SPECIFICATION Spec
CONSTANTS
  p1 = p1  p2 = p2
  Paths = {p1, p2}
  HostsFiles <- MCFiles
  StaticHosts <- MCStatic
  Versions <- MCVersions
  LinesOf <- MCLinesOf
  Rewritten = {p2}
  Torn <- MCTorn
  FamilyOf <- MCFamilyOf
  Missing = Missing
  Names <- MCNames
  Questions <- MCQuestions
  ReverseNames <- MCReverseNames
  BlockedReverse <- MCBlocked
  Rules <- MCRules
  RuleOf <- MCRuleOf
  MaxEntries = 3
  MaxRegex = 1
  Interval = 1
  Second = 1
  MaxNow = 3
  MaxSaves = 2
  MaxMixed = 0
INVARIANTS
  TypeOK
  FilterFindsRule
  TablesAreVersions
PROPERTIES
  AnswersFollowFiles
