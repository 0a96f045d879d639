SPECIFICATION Spec
CONSTANTS
  Content = {0}
  Host = {h1, h2, h3}
  NoHost = NoHost
SYMMETRY HostSymmetry
INVARIANT MirrorHostsExcluded
