CONSTANTS
  Reports <- MCRequests
  Wiki <- MCWiki
  Pool <- MCPool
  Web <- MCWeb
  Attempts = {1, 2}
  MinPool = 1
  MaxLiveTopics = 1
  MinShare = 2
  MaxContexts = 4
  MaxRevisions = 1
SPECIFICATION ReportSpec
INVARIANT OwnEvidenceIsKept
CHECK_DEADLOCK FALSE
