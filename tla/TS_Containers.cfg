CONSTANTS
  worker = worker
  api = api
  t1 = t1
  t2 = t2
  t3 = t3
  Containers = {worker, api}
  Tasks = {t1, t3}
  HomeOf <- OneAndOne
  NoTask = NoTask
  MaxTokens = 2
  RefreshGrant = TRUE
  Credentials = TRUE
SPECIFICATION Spec
INVARIANTS
  IInv
  SpentAgainOnlyIfLost
  RowIsUsable
  NoNeedlessRefresh
  InUseWasSaved

