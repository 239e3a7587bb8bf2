SPECIFICATION Spec
CONSTANTS
  Null = Null
  Unread = Unread
  Documents <- MCDocuments
  KnownTexts <- MCKnownTexts
  Commented <- MCCommented
  AnyTexts <- MCAnyTexts
  Reports <- MCReports
  Prebuffers = {0, 7, 64}
  MaxFail = 9
INVARIANTS
  TypeOK
  ItemKept
  RenderedAlike
  OutputFits
  AllOrNothing
