SPECIFICATION Spec
CONSTANTS
  Threads = {t1, t2}  MaxCalls = 4
  Stops = {s1, s2}  Mints = TRUE  MaxMoves = 3
  Sources = {file, env, cache}  Misspelt = {cache}  Settings = {default}  Operations = {c1, c2}
  Emitters = {watcher, worker}  MaxLines = 3
  Fetches = {f1, f2}  WatchTask = stream  MaxRotations = 1
INVARIANTS NativeTypeOK AnswersAreOwn AllStopsWaited ServedWithAllAccepted
           NeverAnonymous CarriesCurrent
PROPERTIES EveryStopResolves EveryLineIsHeard
CHECK_DEADLOCK FALSE
