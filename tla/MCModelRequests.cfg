SPECIFICATION RequestsSpec
CONSTANTS
  m1 = m1
  m2 = m2
  Call = {m1, m2}
  A2ACall = {}
  Free = Free
  MaxTokens = 1
  MaxRequests = 2
INVARIANTS SummaryIsOwn GaugeWithinInput ConverterScoped
SYMMETRY RequestSymmetry
CHECK_DEADLOCK FALSE
