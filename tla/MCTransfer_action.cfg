CONSTANTS
  f = f
  g = g
  f2 = f2
  g2 = g2
  old = old
  new = new
  NoName = NoName
  Names = {f, g}
  Places = {f, g, f2, g2}
  Layouts <- AllLayouts
  Contents = {old, new}
  Retries = 1
  MaxEdits = 1
SPECIFICATION FairSpec
INVARIANT NothingLost
INVARIANT ExistingKept
INVARIANT NoBrokenCopyRemains
INVARIANT OkMeansTransferred
PROPERTY ActionEnds
CHECK_DEADLOCK FALSE
