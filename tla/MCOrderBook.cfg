CONSTANTS
  Depth = 2
  TableCapacity = 3
  OrderIds = {o1, o2, o3, o4}
  Prices = {1, 2, 3}
  AddQuantities = {2}
  CancelQuantities <- MCCancelQuantities
  ExecQuantities = {1, 3}
  NoOrder = NoOrder
  Skews <- MCSkews
  MaxMessages = 5
SPECIFICATION Spec
SYMMETRY MCSymmetry
CONSTRAINT FewOddNumbers
INVARIANTS
  LevelsOrdered
  VisibleIsBacked
  BookMirrorsOrders
  LossNoticed
PROPERTIES
  EvictsOnlyWorst
CHECK_DEADLOCK FALSE
