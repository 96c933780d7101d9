SPECIFICATION SpecLists
CONSTANTS
  Item = {i1, i2, i3}
  List = {ready, unready}
  Null = Null
INVARIANTS
  LinksMirrored
PROPERTY
  ImplementsLists
