SPECIFICATION FairSpec
CONSTANTS
  Files = {f, g}
  Threads = {s, t}
  MaxVersion = 1
  MaxKills = 0
  Absent = absent
  Cut = cut
PROPERTIES ChangeReported
