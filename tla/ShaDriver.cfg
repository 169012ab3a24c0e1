SPECIFICATION DriverSpec
CONSTANTS
  LastRound = 63
  BlockWords = 16
  Word = {"head", "tail", "pad"}
  NoWord = "zero"
  ReturnCycles = 2
INVARIANTS ReadsDueDigest
PROPERTIES FulfilsContract
