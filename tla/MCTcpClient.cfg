SPECIFICATION FairSpec
CONSTANTS
  f1 = f1
  f2 = f2
  f3 = f3
  None = None
  Fds <- MCFds
  Patient = TRUE
  MaxConnects = 3
INVARIANTS ChannelsLive SocketsOwned
PROPERTIES ToldOfBothEnds AttemptSettles
CHECK_DEADLOCK FALSE
