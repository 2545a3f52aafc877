\* Words of 4 bits, 2 of them clock ticks of 2 ns (0 to 6); delays of 0, 3, 12
\* and 18 ns (the last is refused): times below and above half the range, and
\* out of it. Bit counts of
\* 0, 1, 2, the whole word and more than a word.
CONSTANTS
  WORD_BITS = 4
  U32_VALUES = 16
  I32_VALUES = 8
  TOF_BITS = 2
  CLOCK_TICKS_TO_NS = 2
  US_TO_NS = 3
  Builds = {"debug", "release"}
  Delays = {0, 1, 4, 6}
  Offsets = {0, 13}
  BitCounts = {0, 1, 2, 4, 5}
  Inputs <- MCInputs
SPECIFICATION Spec
INVARIANT TofRelativeToFrameSync
CHECK_DEADLOCK FALSE
