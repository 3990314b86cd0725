SPECIFICATION Spec
CONSTANTS
  old = old
  new = new
  v = v
  a = a
  b = b
  p = p
  Sessions = {old, new}
  Visitors = {v}
  Generators = {a, b}
  Parts = {p}
  Self = Self
  Name <- MCName
  Reads <- MCReads
  Granted = {new}
  Default = {a}
  NoManifest = NoManifest
  NoWorld = NoWorld
  NoFetch = NoFetch
  NoTask = NoTask
  Resets = {new}
  UndoDepth = 1
  Overlap = FALSE
  MaxEdits = 4
INVARIANTS TypeOK   SavedWhole ReadsWhole
PROPERTIES Kept
CHECK_DEADLOCK FALSE
