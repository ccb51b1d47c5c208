SPECIFICATION FairParts
CONSTANTS
  Sources = {"s1"}
  Providers = {"p1"}
  ProviderOf <- OneProvider
  Queries = {"q1", "q2"}
  SourceOf <- OneSource
  TopicOf <- OneTopic
  Topics = {"t1"}
  DailyMax <- OneRun
  Docs = {"d1"}
  Workers = {"w1"}
  FetchLimit = 1
  Unreadable = Unreadable
  None = None
  Clips = {"c1"}
  Links = {"l1"}
  Marks = {"k1"}
  Notes = {"n1"}
  Removals = {"r1"}
  UrlOf <- PageOf
  BodyOf <- TextOf
  ReportOf <- Reported
  MarkOf <- Bookmarked
  Urls = {"u1"}
  Bodies = {"x", "y"}
  Slots = {"f1", "f2"}
  Null = Null
  MaxHeads = 3
  MaxVersions = 2
  Users = {1, 2}
  Procs = {1, 2}
  Wiki <- OneWiki
  Chosen <- Offered
  TaxonomyTopics = {"a"}
  Labels = {"a"}
  Signals <- OneSignal
  Rank <- ByName
  WikiLimit = 1
  Neighbors = 1
  Mid = 2
  High = 3
  Low = 4
  Capacity = 1
  MaxInterval = 100
  Contexts <- TwoContexts
  Builds <- OnlyFirst
  Profiles <- OnlyFirst
  MaxRequests = 1
CHECK_DEADLOCK FALSE
INVARIANT TypeOK
INVARIANT CollectionKeepsToPlan
INVARIANT SubscriptionsAgree
INVARIANT SourcesAreTracked
PROPERTY PendingIsClaimed
