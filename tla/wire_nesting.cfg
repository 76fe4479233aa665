\* The same, for what the test of the Python reporter says of nested exceptions.
CONSTANTS
  Errors = {e1, e2, e3}
  MaxText = 2
  MaxNesting = 1
  MaxFrames = 2
  MaxTags = 2
  MaxTrail = 2
  MaxData = 2
  MaxDepth = 2
  MaxPerCall = 2
  MaxAttributes = 4
  MaxBatch = 2
  MaxBody = 1
  MaxCalls = 3
SPECIFICATION WireSpec
INVARIANT DeepExceptionTaken
CHECK_DEADLOCK FALSE
