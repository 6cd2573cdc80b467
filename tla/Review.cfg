SPECIFICATION FairSpec
CONSTANTS
  PROVIDERS <- TwoProviders
  OrderTokens = {"groq", "gemini", "gemni", "blank"}
  MaxOrder = 2
  Callers <- MCCallers
  Contents <- MCContents
  NoContent = NoContent
  Files <- OneFileOfTwo
  Spots = {0, 1, 2}
  Unparsable <- MCUnparsable
INVARIANTS
  ValidEnvironmentWorks
  ServedInOrder
  FindingsMerged
PROPERTIES
  ReviewEnds
CHECK_DEADLOCK FALSE
