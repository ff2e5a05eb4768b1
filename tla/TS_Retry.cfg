CONSTANTS
  worker = worker
  api = api
  t1 = t1
  t2 = t2
  t3 = t3
  Containers = {worker}
  Tasks = {t1, t2}
  HomeOf <- TwoInOne
  NoTask = NoTask
  MaxTokens = 2
  RefreshGrant = FALSE
  Credentials = TRUE
SPECIFICATION Spec
PROPERTIES
  RecoveryChangesToken
