SPECIFICATION LibrarySpec
CONSTANTS
  NoRow = NoRow
  Nobody = Nobody
  Rows <- WsRows
  Table <- WsTable
  Refers <- WsRefers
  Created <- WsCreated
  Rank <- WsRank
  Groups <- WsGroups
  Limits <- PageSizes
  MaxVersion = 3
  Cases <- TwoCases
  Addresses <- ThreeAddresses
  Private <- OnePrivate
  AllowPrivate = FALSE
  MaxRetries = 1
  Attempts = 2
  Messages = 2
  Suites <- FixtureSuites
  SuiteFiles <- FewSuites
  Traces <- FewTraces
  PolicySets <- TwoPolicySets
  Lower <- ThreeCapitals
  Content <- SuiteContent
  Tags <- OneTag
  Ratios <- ThreeRatios
INVARIANTS LibraryTypeOK NeverRefused PagesExact PinnedDestination BoundedRequests ErrorsKept VerdictExact RescoreFaithful CompareExact SplitExact
PROPERTIES DeletesExactly CleanedUp LoadExact
CHECK_DEADLOCK FALSE
