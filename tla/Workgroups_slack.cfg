SPECIFICATION Spec
CONSTANTS
  Letters = {"a", "b"}
  MaxLen = 2
  SlackBytes = {"NUL", "b", ":"}
  SlackLen = 2
INVARIANTS
  OnlyGroupsOfTheOption
