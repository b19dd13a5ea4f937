SPECIFICATION SshFairSpec
CONSTANTS
  short = short
  long = long
  friend = friend
  v6 = v6
  Hosts <- MCHosts
  IPs <- MCIPs
  Like <- MCLike
  Whitelist = {friend}
  Attempts = 2
  MaxLog = 5
  Meddled = {short, long}
INVARIANTS BansApart
PROPERTIES LoneBanned
