SPECIFICATION Spec
CONSTANTS
  NCores = 2
  NonceSpan = 4
  Start <- EvenStart
  Winners = {1}
  PromptClear = TRUE
PROPERTIES WinnerIsFound RestAfterExit
