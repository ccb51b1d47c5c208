SPECIFICATION Parts
CONSTANTS
  Pages = {"p", "q", "t"}
  Sources = {"s1", "s2"}
  PagesOf <- FoundIn
  Issues <- Reported
  Reports <- Answered
  UrlsOf <- Searched
  Jobs = {"w1", "w2", "v2"}
  JobOf <- Pipelines
  MaxDay = 1
  MaxOther = 1
  OpenAI = OpenAI
  Open_AI = Open_AI
  GPT = GPT
  None = None
  Nothing = Nothing
  Names <- Called
  SlugOf <- Slug
  FoldOf <- Slug
  SurfaceOf <- Surface
  Inputs = {"s1", "s2"}
  AnswersOf <- Answers
  AuthoredOf <- Authored
  Types = {"part_of", "affects"}
  Tasks = {"b2", "r", "a"}
  TaskOf <- Work
  Reruns = {"b2"}
  Retrieved <- Candidates
  Deletable <- OnlyGPT
CHECK_DEADLOCK FALSE
INVARIANT TypeOK
INVARIANT ResolutionIsCanonical
INVARIANT WikiIsSound
PROPERTY FreshWritesOnlyAdd
PROPERTY QuietWikiIsLeftAlone
PROPERTY RepairsOnlyAdd
