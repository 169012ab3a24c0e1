SPECIFICATION MCSpec
CONSTANTS
  NCores = 3
  NonceSpan = 12
  Start <- MCStart
  Winners = {1}
  \* two cores at work together: every core is in one of the teams
  Teams = {{0, 1}, {2, 3}, {4, 5}, {6, 7}, {8, 9}}
  \* the regions of 4 and 5 lie next to each other, that of 9 is the last
  Started = {4, 5, 9}
  MaxTries = 2
  \* lengths around the ends of words and blocks, bytes around the sign
  Lengths = {0, 1, 3, 4, 5, 6, 51, 52, 53, 54, 55, 56, 57, 59, 60, 63, 64, 65, 79, 80, 81,
             112, 116, 118, 119, 120, 121, 127, 128, 176, 180, 183, 184, 186}
  Chars = {0, 65, 127, 128, 200}
  \* bits around the ends of the target's 32 bytes, and hashes that differ from the
  \* target in up to two bytes, at the ends of words and in between, or not at all
  Exponents = {0, 2, 3, 4, 5, 23, 31, 32, 33, 34, 35, 36}
  Mantissas <- MCMantissas
  Places = {0, 3, 4, 15, 28, 31}
  Values = {0, 6, 255}
  Radix = 3
  Filed = {0, 5, 40}
  Solutions <- MCSolutions
INVARIANTS NothingSkipped BlocksAreStandard PcToolsAgree AccessesLand
PROPERTIES SearchesGoOn
\* the search and the PC tools end
CHECK_DEADLOCK FALSE
