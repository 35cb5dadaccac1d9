CONSTANTS
  Graphs <- MCGraphs
  BufferCap = 1
SPECIFICATION ProgramSpec
CHECK_DEADLOCK FALSE
INVARIANTS
  ResultsInOrder
  NothingIsLost
  EndsWhenClosed
  OnlyTheDeafHoldUp
