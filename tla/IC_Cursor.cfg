CONSTANTS
  orders = orders
  items = items
  NoRun = NoRun
  Records = {1, 2}
  Endpoints = {orders, items}
  EndpointOf <- AllOrders
  Sources <- SosAndAcenda
  PageSize = 1
  AcendaPage = 1
  Dates = {0, 2}
  MayHide = {1}
  Day = 1
  MaxSkew = 1
  MaxNow = 2
  MaxChanges = 3
  MaxTrouble = 1
SPECIFICATION FairSpec
INVARIANTS
  IInv
PROPERTIES
  CursorForward
  EveryChangeLands
