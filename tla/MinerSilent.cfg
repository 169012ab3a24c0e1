SPECIFICATION Spec
CONSTANTS
  NCores = 2
  NonceSpan = 3
  Start <- EvenStart
  Winners = {2}
  PromptClear = FALSE
INVARIANTS NoCoreSilent
