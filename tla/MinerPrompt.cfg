SPECIFICATION Spec
CONSTANTS
  NCores = 2
  NonceSpan = 3
  Start <- EvenStart
  Winners = {}
  PromptClear = TRUE
INVARIANTS NoCoreSilent
PROPERTIES SearchSpec
