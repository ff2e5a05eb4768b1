SPECIFICATION Spec
CONSTANTS
  w1 = w1
  w2 = w2
  c1 = c1
  c2 = c2
  s1 = s1
  bill = bill
  box = box
  n1 = n1
  ship1 = ship1
  noop = noop
  noship = noship
  noreq = noreq
  hand = hand
  Workers = {w1, w2}
  ContainerOps = {c1, c2}
  ShipmentOps = {s1}
  References = {bill, box}
  Numbers = {n1}
  Shipments = {ship1}
  BillRefs = {bill}
  BoxRefs = {box}
  RefOf <- MCRefOf
  NumberOf <- MCNumberOf
  ShipmentOf <- MCShipmentOf
  Carries <- MCCarries
  ReviewAfter = 1
  HandRefs = {bill}
  MaxAsked = 2
  MaxPosts = 2
  MaxCrashes = 1
  NoOp = noop
  NoShip = noship
  NoReq = noreq
  ByHand = hand
INVARIANTS
  SubmittedOnce
