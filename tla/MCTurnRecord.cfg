SPECIFICATION Spec
CONSTANTS
  Advertised <- AdvertisedCategories
  Argument <- Arguments
  Output <- AllForms
  MaxBatch = 2
  MaxCalls = 2
  MaxDepth = 4
  Name <- Names
INVARIANTS NoImageKept ReportedOnce AnsweredIsRemembered
CHECK_DEADLOCK FALSE
