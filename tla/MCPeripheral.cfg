SPECIFICATION MCSpec
CONSTANTS
  LastRound = 63
  BlockWords = 16
  Word = {"a", "b"}
  NoWord = "zero"
  FreeLast = 2
  FreeWords = 2
  FreeWord = {"zero", "w"}
  MaxBlocks = 2
  Messages <- Hashed
INVARIANTS DigestIsFinished ReadyMeansFresh BenchReadsDigest CoreIsSha2
PROPERTIES BenchTestsEnd
