CONSTANTS
  orders = orders
  items = items
  NoRun = NoRun
  Records = {1}
  Endpoints = {orders}
  EndpointOf <- AllOrders
  Sources <- OnlyUpdated
  PageSize = 1
  AcendaPage = 1
  Dates = {0, 2}
  MayHide = {}
  Day = 1
  MaxSkew = 1
  MaxNow = 2
  MaxChanges = 2
  MaxTrouble = 0
SPECIFICATION Spec
CHECK_DEADLOCK FALSE
INVARIANTS
  PassedIsInLake
