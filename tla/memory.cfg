\* Two stores, the second over the first or next to it.
SPECIFICATION ToolSpec
CONSTANTS
  Listings <- SmallListings
  Table <- TwoInstr
  Files <- AllFiles
  OtherFiles <- OneCutOff
  Words <- TwoWords
  Sizes = {1, 2, 4}
  Addrs <- ByteAddrs
  MaxCursors = 3
  Junk = 99
  StoreAddrs <- InOrAbove
  MaxStores = 2
INVARIANTS
  ListOK
  WritesListing
  LoadsListing
PROPERTIES
  ImplementsFlat
CHECK_DEADLOCK FALSE
