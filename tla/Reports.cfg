SPECIFICATION Parts
CONSTANTS
  Jobs <- MorningJobs
  Candidates <- MorningWikis
  MaxLive = 1
  MaxAttempts = 2
  None = None
  Requests = {1, 2}
  Selections <- ChoiceNames
  ChoiceOf <- ChoicesMade
  BodyOf <- SeedBody
  KeywordsOf <- OwnKeywords
  TopicsOf <- TopicsChosen
  SignOf <- Signature
  LocaleOf <- OneLocale
  Keywords = {"k1", "k2"}
  Signs = {"old", "new"}
  ChosenTopics = {"t1"}
  Official = {"k2"}
  Interests = {"i1"}
  Workers = {1, 2}
  MaxVersions = 2
  Runs <- GraphRuns
  Plans <- RunPlans
  TopicOf <- Spelled
  Norm <- Normal
  ConnOf <- Connections
  Shared = {1}
  Found <- MayFind
  Replies <- ModelReplies
  Says <- Meaning
  Outcomes <- CallOutcomes
  MaxRetries = 1
  RecursionLimit = 40
  Nil = Nil
  Calls = {"r1", "r2"}
  Process <- OwnProcess
  Records = {"r1", "r2"}
  Documents <- News
  Finds <- Posted
  Sources = {"news", "posts"}
  Keyword = "kw"
  Suggestions = {"q1", "kw", "long"}
  Usable = {"q1", "kw"}
  MaxReformulations = 2
  Lookback = 7
  Window = 3
  MaxItems = 2
  PublishFloor = 41
  LastDay = 1
  Reports <- ReportJobs
  Wiki <- WikiPages
  Pool <- PoolArticles
  Web <- WebArticles
  Attempts = {1, 2}
  MinPool = 1
  MaxLiveTopics = 1
  MinShare = 2
  MaxContexts = 4
  MaxRevisions = 1
CHECK_DEADLOCK FALSE
INVARIANT TypeOK
INVARIANT HistoryIsTrue
INVARIANT ReportsAgree
INVARIANT NewsIsNew
INVARIANT SnapshotFitsRequest
INVARIANT SeedIsFollowed
PROPERTY SnapshotIsFinal
PROPERTY AnswersAreKept
