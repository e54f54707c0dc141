CONSTANTS
  None = None
  c1 = c1
  c2 = c2
  c3 = c3
  Client = {c1, c2, c3}
  Command <- Mixed
  Interfaces <- Families
  Contents <- FewContents
  MaxInterfaces = 4
  EntrySize <- Sizes
  NameSize = 10
  EntryRoom = 200
  PartSize = 2024
  Remote = {c3}
  Lossy = TRUE
SPECIFICATION Spec
INVARIANT FacesAsTold
PROPERTIES AsAsked ShortEnds
CHECK_DEADLOCK FALSE
