SPECIFICATION Spec
CONSTANTS
  Kinds = {"room", "avatar"}
  Room = "room"
  Default = Default
  Host = Host
  None = None
  MaxVersion = 2
  MaxSaves = 2
  MaxTrips = 2
  MaxSessions = 0
INVARIANTS TypeOK NothingLostSilently StoredIsOfThisWorld OneSaveAtATime
CHECK_DEADLOCK FALSE
