CONSTANTS
  Parts = {"call", "list", "docs", "browser", "menu", "logs", "questions", "settings", "status", "login", "openapi", "describe", "exec"}
  MaxRetries = 3
  MinWait = 10
  MaxWait = 30
  MaxRetryAfterWait = 100
  Second = 10
  Width = 8
  RetryAfter <- MCRetryAfter
  Sources <- MCSources
  MaxTime = 3
  ServerPageSize = 1
  SizeOfEachBlock = 1
  Limits = {0, 1, 2}
  Reader = {r1, r2}
  MaxVersion = 2
  MaxDay = 1
  MaxStops = 1
  Tab = {t1, t2}
  AccessLevels = {"full", "read"}
  AccessFull = "full"
  Profile = {n1, n2}
  FirstProfile = n1
  Endpoint = {e1}
  FirstEndpoint = e1
  MaxForms = 2
  MaxLoginKeys = 1
  Logger = {l1, l2}
  UI = l1
  MaxRecords = 2
  MaxLines = 3
  MaxQuestions = 3
  ProfileName = {"n1", "n2"}
  DefaultName = "n1"
  SiteEndpoint <- MCSiteEndpoint
  Target <- MCTarget
  MaxEdits = 1
  MaxOthers = 1
  Documents <- MCDocuments
  Requests <- MCRequests
  Component = {"c1", "c2", "c3"}
  Refs <- MCRefs
  Schemas <- MCSchemas
  Parameters <- MCParameters
  ParameterLists <- MCParameterLists
  StorableName = {"n1", "n2"}
  FirstUse = "n1"
  Place = {"a", "b", "c"}
  Initially <- MCInitially
  MaxServed = 2
  MaxSignals = 1
SPECIFICATION Spec
CHECK_DEADLOCK FALSE
INVARIANTS PartsTypeOK RunsOnce ListsNewest ReadsWhole LevelIsKept WrittenOnce AnswersInOrder NoForeignCredentials StatusIsTrue DocsAreFollowed LoginAsChosen ExecSettles
PROPERTIES PageGoes OnlyItsChange
