SPECIFICATION Spec
CONSTANTS
  Programs <- MCPrograms
  OrderlyNodes <- MCOrderlyNodes
  SoundPlaces <- MCSoundPlaces
  DivergeMark = {}
  MaxTrace = 4
  Fuel = 6
  MaxBits = 2
INVARIANTS
  SameBehaviour
  NeverThrows
  PointFollowsContext
  WellFormedGraph
PROPERTY
  NoLateCode
CHECK_DEADLOCK FALSE
