CONSTANTS
  o1 = o1
  o2 = o2
  o3 = o3
  o4 = o4
  o5 = o5
  OrderIds = {o1, o2, o3, o4, o5}
  Values = {v1, v2}
  Capacity = 4
  Hash <- MCHash
  NoId = NoId
  NoValue = NoValue
  NoOrder = NoOrder
  MaxActive = 4
SPECIFICATION Spec
INVARIANTS
  TypeOK
  ChainsUnbroken
  IdsUnique
  CountsBoundTable
  RefusesOnlyWhenFull
PROPERTIES
  ImplementsMap
CHECK_DEADLOCK FALSE
