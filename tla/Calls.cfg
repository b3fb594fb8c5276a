SPECIFICATION Spec
CONSTANTS
  o = o
  r = r
  l = l
  Once <- MCOnce
  Reliable <- MCReliable
  OwnCalls <- MCOwnCalls
  Worlds <- MCWorlds
  MaxSessions = 4
  MaxOpen = 2
  MaxQueued = 1
INVARIANTS TypeOK NotAdmittedIsTrue AtMostOnce NoOrphan
PROPERTIES GoneReleases SettledOnce NobodyWaits
CHECK_DEADLOCK FALSE
