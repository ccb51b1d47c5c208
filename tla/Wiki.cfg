SPECIFICATION Spec
CONSTANTS
  e1 = e1
  m1 = m1
  article = article
  note = note
  Mcp = Mcp
  None = None
  Docs = {article, note}
  Events = {e1, m1}
  DocOf <- StoredAs
  McpEvents = {m1}
  Removals = {r1}
  MarkOf <- RemovesFirst
  Maintenance = {k1}
  Workers = {w1, w2}
  MaxGen <- TwoArticles
  MaxVersion = 1
SYMMETRY AlikeWorkers
CHECK_DEADLOCK FALSE
INVARIANT TypeOK
INVARIANT PagesFollowSources
