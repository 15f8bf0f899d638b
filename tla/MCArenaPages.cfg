SPECIFICATION PagesSpec
CONSTANTS
  N          = 2
  PageWords  = 4
  HeapPages  = 6
  OtherWords = 3
  MaxOthers  = 1
INVARIANT
  ActiveArenaIntact
