SPECIFICATION FairSpec
CONSTANTS
  Files = {f, g}
  Threads = {s, t}
  MaxVersion = 1
  MaxKills = 2
  Absent = absent
  Cut = cut
INVARIANTS TypeOK OnlyRealChanges
PROPERTIES ReportedInTurn
