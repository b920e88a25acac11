SPECIFICATION FairSpec
CONSTANTS
  Keys = {"key", "key2"}
  Shards <- MCShards
  Queries <- MCQueries
  PoolSizes = {1, 2}
  MaxMatches = {0, 1}
  QueryError = QueryError
  None = None
INVARIANT TypeOK
INVARIANT SearchReportsWhatTheQueryAccepts
INVARIANT SimplifyRepoFolds
INVARIANT TypeRepoMatchesNotReported
PROPERTY SearchReturns
