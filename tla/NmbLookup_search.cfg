SPECIFICATION FairSpec
CONSTANTS
  Groups = {"g1", "g2"}
  MaxGroups = 2
  IfaceKinds <- MCAnyIface
  MaxIfaces = 2
  Answers <- MCAnswers
  NoList = NoList
  MaxFailed = 1
INVARIANTS
  TypeOK
  ListsAreFirstAnswers
  AnswerIsComplete
  FaultOnlyUnanswered
PROPERTIES
  ImplementsUtility
