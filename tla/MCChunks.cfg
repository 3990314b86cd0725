SPECIFICATION Spec
CONSTANTS
  p1 = p1
  p2 = p2
  Peers = {p1, p2}
  Lengths = {1, 5, 7}
  ChunkBytes = 2
  MaxPayload = 6
  Ceiling <- Builds
  SlotBytes = 1
  BaseBytes = 0
  Budget = 15
  PerPeer = 2
  Total = 2
  MaxAge = 1
  SweepEvery = 1
  Garbage = Garbage
  MaxSent = 2
  MaxTime = 3
  MaxCuts = 1
INVARIANTS TypeOK  FragmentsFit LossHasCause
PROPERTIES ChannelSpec
CHECK_DEADLOCK FALSE
