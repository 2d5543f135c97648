SPECIFICATION Spec
CONSTANTS
  c1 = c1
  c2 = c2
  Clients = {c1, c2}
  Shared = 1
  Groups = {g1, g2}
  g1 = g1
  g2 = g2
  Uids = {1, 16}
  RandomUids = {1}
  UidOf <- MCUidOf
  Begins <- MCNoBegins
  Units = 2
  WriteUnits = {1}
  AttrValues = {1}
SYMMETRY GroupNames
INVARIANTS ObjectKept RightAnswers NothingLeft NeverExits
