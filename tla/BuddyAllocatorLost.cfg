\* Eight units: four levels.
CONSTANTS
  maxPowerSize = 4
SPECIFICATION Spec
INVARIANT NothingLost
