SPECIFICATION IntakeSpec
CONSTANTS
  c1 = c1
  c2 = c2
  c3 = c3
  l1 = l1
  u1 = u1
  u2 = u2
  x = x
  y = y
  Clips = {c1, c2, c3}
  Links = {l1}
  Marks = {}
  Notes = {}
  Removals = {}
  UrlOf <- MCUrlOf
  BodyOf <- MCBodyOf
  ReportOf <- MCNothing
  MarkOf <- MCNothing
  Urls = {u1, u2}
  Bodies = {x, y}
  Slots = {1}
  Unreadable = Unreadable
  Null = Null
  MaxHeads = 3
  MaxVersions = 2
INVARIANT StoredBodyIsAnswered
CHECK_DEADLOCK FALSE
