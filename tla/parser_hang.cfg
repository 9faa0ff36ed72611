SPECIFICATION FairSpec
CONSTANTS
  Streams <- UnclosedStreams
  Sentences = {}
  MaxErr = 2
PROPERTY ErrorsEndTheParse
CHECK_DEADLOCK FALSE
