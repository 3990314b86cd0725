SPECIFICATION FairSpec
CONSTANTS
  s1 = s1
  s2 = s2
  Sessions = {s1, s2}
  NoRecord = NoRecord
  Opening = s1
  MaxVersion = 4
  MaxChoices = 2
INVARIANTS TypeOK Agreement
PROPERTIES NoSilentLoss EchoesEnd
CHECK_DEADLOCK FALSE
