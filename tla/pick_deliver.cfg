SPECIFICATION Spec
CONSTANTS
  Infinity = 1000
  Problems <- Some
INVARIANTS
  VehiclesAreConsistent
  SolutionsAreFeasible
  NoOrderIsStranded
PROPERTIES
  OrdersAreReassigned
  CallReturns
