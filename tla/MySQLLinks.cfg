CONSTANTS
  o1 = o1
  o2 = o2
  o3 = o3
  o4 = o4
  h1 = h1
  h2 = h2
  u1 = u1
  u2 = u2
  Object = {o1, o2, o3, o4}
  Details <- MCDetails
  Defaults <- MCDefaults
  Settings <- MCSettings
  MaxHandles = 3
SYMMETRY ObjectSymmetry
SPECIFICATION Spec
INVARIANTS TypeOK LinksAreHeld WithinLimits
PROPERTIES IsLinkPool
