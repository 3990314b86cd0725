SPECIFICATION Spec
CONSTANTS
  Tabs = {t1}
  Accounts = {alice, bob}
  None = None
  SignInOver = TRUE
  MaxGrants = 2
  MaxRotations = 1
INVARIANTS OwnSlots
CHECK_DEADLOCK FALSE
