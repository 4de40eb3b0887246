\* Two tiles, the second with a padded row; every block waits its turn on a device
\* that holds one, and the launch must still be answered.
CONSTANTS
  Rows = 3
  MTile = 2
  Groups = 3
  GroupsPerChunk <- Two
  MaxLaunches = 2
  Resident = 1
SPECIFICATION FairSpec
INVARIANT IInv
PROPERTIES ImplementsGemv Answered
CHECK_DEADLOCK FALSE
