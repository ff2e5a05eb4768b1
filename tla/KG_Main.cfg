CONSTANTS
  r1 = r1
  r2 = r2
  p1 = p1
  NoToken = NoToken
  Runs = {r1, r2}
  Deliveries = {1}
  Contents = {1, 2}
  Packages = {p1}
  MaxTrouble = 1
SPECIFICATION FairSpec
INVARIANTS
  IInv
  OrderMatchesRelease
  PackageOnce
PROPERTIES
  PostSpec
  EveryDeliverySettles
