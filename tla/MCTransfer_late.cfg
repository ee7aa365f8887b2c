CONSTANTS
  f = f
  g = g
  f2 = f2
  g2 = g2
  old = old
  new = new
  NoName = NoName
  Names = {f}
  Places = {f, f2}
  Layouts <- ElsewhereOnly
  Contents = {old, new}
  Retries = 1
  MaxEdits = 1
SPECIFICATION Spec
PROPERTY OnlyMovedFilesRemoved
CHECK_DEADLOCK FALSE
