SPECIFICATION ListFairSpec
CONSTANTS
  Screens = {s1, s2, s3}
  NULL = NULL
  Wild = Wild
  Indexes <- IndexRange
INVARIANT ListFollows
PROPERTIES
  ImplementsSequence
  CallsReturn
CHECK_DEADLOCK FALSE
