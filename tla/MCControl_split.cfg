CONSTANTS
  None = None
  c1 = c1
  c2 = c2
  c3 = c3
  Client = {c1}
  Command <- Dump
  Interfaces <- Families
  Contents <- ManyContents
  MaxInterfaces = 4
  EntrySize <- Sizes
  NameSize = 10
  EntryRoom = 200
  PartSize = 2024
  Remote = {}
  Lossy = FALSE
SPECIFICATION Spec
PROPERTY DumpEnds
CHECK_DEADLOCK FALSE
