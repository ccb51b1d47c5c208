SPECIFICATION FairSpec
CONSTANTS
  report = report
  embedding = embedding
  b1 = b1
  b2 = b2
  b3 = b3
  p1 = p1
  p2 = p2
  host1 = host1
  host2 = host2
  None = None
  Items = {report}
  ReportItems = {report}
  GroupOf <- OneGroup
  Batches = {b1, b2, b3}
  Workers = {p1}
  WorkerId <- OwnHost
  MaxAttempts = 3
  MaxItems = 2
CHECK_DEADLOCK FALSE
INVARIANT NoSaveRaises
PROPERTY ItemsReachTheirEnd
