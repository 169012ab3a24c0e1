SPECIFICATION Safety
CONSTANTS
  NCores = 3
  NonceSpan = 4
  Start <- EvenStart
  Winners = {1}
  PromptClear = FALSE
INVARIANTS NoStartDropped PipelineInOrder ComparesItsNonce
PROPERTIES FlaggedDigestStable OnlyClearLosesCore SearchSafety
