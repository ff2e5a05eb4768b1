CONSTANTS
  worker = worker
  api = api
  t1 = t1
  t2 = t2
  t3 = t3
  Containers = {worker, api}
  Tasks = {t1, t2, t3}
  HomeOf <- TwoAndOne
  NoTask = NoTask
  MaxTokens = 1
  RefreshGrant = TRUE
  Credentials = FALSE
SPECIFICATION FairSpec
PROPERTIES
  RefreshEnds
