SPECIFICATION Spec
CONSTANTS
  Words <- MCWords
  LongPaths <- MCLongPaths
  Cut <- MCCut
  Addresses <- MCAddresses
  Dotted <- MCDotted
  NameLists <- MCNameLists
  Numbers <- MCNumbers
  SizeBits = 8
  MaxOptions = 4
INVARIANTS
  TypeOK
  AcceptedIsUsable
  LastOptionsCount
