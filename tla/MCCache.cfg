SPECIFICATION Spec
CONSTANTS
  Bitmaps = {"a", "b", "c", "d", "e", "f", "big"}
  Crc16 <- MCCrc16
  ClassOf <- MCClassOf
  Ids = {0, 1}
  Entries <- MCEntries
  MaxIdx = 4
  Stamped = {"pointer"}
  StampedItems = {"x", "y", "z"}
  LowIdx <- MCLowIdx
  HighIdx <- MCHighIdx
  Static <- MCStatic
  MaxStamp = 4
  None = "none"
  Blank = "blank"
  TooBig = 3
INVARIANTS TypeOK CrcListsExact ClientAgrees
PROPERTIES BitmapsAreLru StampedAreLru
