SPECIFICATION FairSpec
CONSTANTS
  Lines = {1, 2, 3, 4, 5, 6, 7}
  Numbers <- SomeNumbers
PROPERTIES IllegalCallEnds
