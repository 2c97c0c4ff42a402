CONSTANTS
  Markup <- MCMarkup
  Whitespace <- MCWhitespace
  Illegal <- MCIllegal
  Reports <- MCReports
SPECIFICATION Spec
INVARIANTS
  NestingAgrees
  DeliveredArePrefix
  ClosedReportIsRead
  LostTokensCarryNoData
CHECK_DEADLOCK FALSE
