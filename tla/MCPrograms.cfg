SPECIFICATION MCSpec
CONSTANTS
  N = 3
  MaxFd = 2
  Talkers = {1}
  MaxTexts = 1
  Slow = {2}
  MaxFull = 1
  Pages = {"home", "plain", "port", "private", "mail", "elsewhere"}
  Seed = "home"
  Host <- HostOf
  Scheme <- SchemeOf
  HasPort <- NamesPort
  LinkLists <- SiteLinks
  MaxPerPage = 2
  Disallowed = {"private"}
  NumProducers = 3
  NumConsumers = 2
  TotalItems = 5
  Size = 2
  Lengths = {0, 1, 125, 126, 127, 256, 32639, 65536, 70000}
  MaxFrames = 2
  MaxCuts = 2
  Hosts = {"h"}
  Paths <- RobotsPaths
  Files <- RobotsFiles
  Callers = {1, 2, 3}
INVARIANTS
  LookupsFind
  SequencesKeep
  RoomIsConnected
  PerSenderOrder
  LeaveIsTold
  FramesAsSent
  FetchedOnce
  CrawlIsComplete
  BufferIsFifo
  JoinsReturn
  NeverTrapped
PROPERTIES
  AnswersFollowFiles
  FollowsPlane
CHECK_DEADLOCK FALSE
