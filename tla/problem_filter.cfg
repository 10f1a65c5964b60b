CONSTANTS
  PrismaShaped <- MCPrismaShaped
  FiveCharacters <- MCFiveCharacters
  Production = TRUE
  Exceptions <- MCExceptions
  Urls <- MCUrls
  NoUrl = ""
  Names <- MCNames
  MapperCount = 2
  Handles <- MCHandles
  Template <- MCTemplate
  Reuses <- MCReuses
  DatabaseErrors = TRUE
  IncludeStackTrace = TRUE
  HasCallback = TRUE
  HasTypeBase = TRUE

SPECIFICATION Spec
INVARIANTS
  MaskInv
  DatabaseStatusesAreTrue
  OneTitlePerStatus
