\* Three objects: a chain of threads, or one with two, below the one in userMain.
CONSTANTS
  Objects = {o1, o2, o3}
  User = User
  NoOne = NoOne
  MayFail = TRUE
SPECIFICATION FairSpec
INVARIANTS WholeUntilFlag FreesWhatItHas
PROPERTY UserMainEnds
\* The program ends.
CHECK_DEADLOCK FALSE
