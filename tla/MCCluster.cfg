SPECIFICATION Spec
CONSTANTS
  Content = {0}
  Host = {h1, h2, h3}
  NoHost = NoHost
SYMMETRY HostSymmetry
INVARIANTS
  TypeOK
  LookupIsRight
  HostsArePartitioned
  CommandsInOrder
  EachAskedOnce
  LoneCoordinatorsSpared
  RunsWhereMeant
