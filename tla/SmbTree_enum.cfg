SPECIFICATION FairSpec
CONSTANTS
  Groups = {"g1", "g2"}
  MaxGroups = 3
  MaxFailed = 2
INVARIANTS
  TypeOK
  BrowserOrFailure
PROPERTIES
  ImplementsUtility
