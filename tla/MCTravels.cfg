SPECIFICATION FairSpec
CONSTANTS
  Kinds = {"room", "avatar"}
  Room = "room"
  Default = Default
  Host = Host
  None = None
  MaxVersion = 2
  MaxSaves = 1
  MaxTrips = 1
  MaxSessions = 1
PROPERTIES LeavingEnds
CHECK_DEADLOCK FALSE
