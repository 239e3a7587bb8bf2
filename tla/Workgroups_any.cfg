SPECIFICATION Spec
CONSTANTS
  Letters = {"a", "b"}
  MaxLen = 5
  SlackBytes = {"NUL", "b", ":"}
  SlackLen = 2
INVARIANTS
  TypeOK
  GroupsAreNames
