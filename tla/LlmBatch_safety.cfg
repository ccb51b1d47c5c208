SPECIFICATION Spec
CONSTANTS
  report = report
  embedding = embedding
  b1 = b1
  b2 = b2
  b3 = b3
  p1 = p1
  p2 = p2
  host1 = host1
  host2 = host2
  None = None
  Items = {report, embedding}
  ReportItems = {report}
  GroupOf <- OneGroup
  Batches = {b1, b2}
  Workers = {p1, p2}
  WorkerId <- SameHost
  MaxAttempts = 2
  MaxItems = 2
CHECK_DEADLOCK FALSE
INVARIANTS
  TypeOK
  ItemsAgree
  ResultsAreKept
  AppliedOnce
SYMMETRY Processes
VIEW Seen
