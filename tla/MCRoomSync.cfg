SPECIFICATION FairSpec
CONSTANTS
  g1 = g1
  Guests = {g1}
  NoSave = NoSave
  NoNotice = NoNotice
  NoFetch = NoFetch
  MaxAttempts = 2
  MidFrameEdits = FALSE
  CrossMidSave = FALSE
  FastSave = FALSE
  MapLags = TRUE
  MaxVersion = 3
  MaxDrops = 1
  MaxSweeps = 1
INVARIANTS TypeOK CleanIsSaved Settled
 
CHECK_DEADLOCK FALSE
