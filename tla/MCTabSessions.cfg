SPECIFICATION Spec
CONSTANTS
  Tabs = {t1, t2}
  Accounts = {alice, bob}
  None = None
  SignInOver = FALSE
  MaxGrants = 3
  MaxRotations = 1
SYMMETRY MCSymmetry
INVARIANTS TypeOK 
PROPERTIES AloneKeepsSaved
CHECK_DEADLOCK FALSE
