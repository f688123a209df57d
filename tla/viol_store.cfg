\* One store, also between and below the stretches.
SPECIFICATION ToolSpec
CONSTANTS
  Listings <- SmallListings
  Table <- TwoInstr
  Files <- AllFiles
  OtherFiles <- Nothing
  Words <- TwoWords
  Sizes = {1, 2, 4}
  Addrs <- ByteAddrs
  MaxCursors = 3
  Junk = 99
  StoreAddrs <- Anywhere
  MaxStores = 1
PROPERTIES
  NothingVanishes
CHECK_DEADLOCK FALSE
