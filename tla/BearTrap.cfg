SPECIFICATION FairSpec
CONSTANTS
  IPs = {a, b}
  NoIP = none
  MaxCalls = 2
  MaxAlerts = 3
  NHandlers = 2
  WithAction = {1}
  First = "tcp"
INVARIANTS TypeOK IgnoredOnlyWhileTimed EveryRuleTimed
PROPERTIES BanEnds
