CONSTANTS
  QueueCap = 1
  MaxFrames = 4
  Streams <- MCStreams
  ToolCall = {"a", "b"}
  StrayCall = {"x"}
  MaxSteps = 2
  StepAttempts = 2
  MaxCalls = 2
  CallIds <- MCCallIds
  Bounded = {"a"}
  HistoryTurns = 2
  HistorySize = 6
  PastTurns <- MCPast
  Writer = {w1, w2}
  MaxLines = 5
  ChanCap = 2
  FileCap = 1
  TailLimit = 1
  MaxStops = 1
  Endpoint = {e1, e2}
  MaxSubscribes = 3
  MaxKeys = 4
  MaxFailures = 2
  MaxEvents = 5
  PageLimit = 2
  MaxTears = 3
  MaxLine = 4
  Asks <- MCAsks
  MaxSpan = 3
SPECIFICATION MCSpec
CHECK_DEADLOCK FALSE
INVARIANTS
  FramesAreWhole
  NoSendAfterClose
  RequestIsWellFormed
  TranscriptIsTheTurn
  TailIsExact
  PushFileIsTrue
  FollowerMissesNothing
  RefsGetTheirLines
PROPERTIES
  BridgeIsTornDown
  TurnEnds
